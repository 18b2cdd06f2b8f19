--------------------------- MODULE MCSharedMutex ---------------------------
(***************************************************************************)
(* Specifications for checking SharedMutex on small instances.             *)
(***************************************************************************)
EXTENDS SharedMutexInv, SequencesExt

SerialFairSpec == SerialSpec /\ Fairness

(* The dispatcher has finished a backlog of MaxWorkflow passes, the node   *)
(* was raised in each, and the workers have the tasks but ran none.        *)
(* Running the workers after the dispatcher bounds the interleavings.      *)
(* MaxWaiters must be MaxWorkflow times PassSize.                          *)
PassSize == Cardinality(Successors) + 1
Order == SetToSeq(Successors)
IsFirst(i) == (i - 1) % PassSize = 0
Entry(i) ==
  [wf |-> (i - 1) \div PassSize + 1,
   IsWriter |-> IsFirst(i),
   node |-> IF IsFirst(i) THEN OWNER ELSE Order[(i - 1) % PassSize]]

BacklogInit ==
  /\ mWaiters = [i \in Ticket |-> Entry(i)]
  /\ mReadPos = 0 /\ mReaders = 0
  /\ ids = [n \in 1..MaxWorkflow |-> n] /\ idPos = 0
  /\ workflowId = MaxWorkflow /\ toPush = {}
  /\ pc \in [Ticket -> {"ready", "unschedulable"}]
  /\ phase \in [Ticket -> {"none", "read", "try"}]
  /\ \A i \in Ticket :
       IF IsFirst(i) THEN pc[i] = "ready" /\ phase[i] = "none" ELSE phase[i] # "none"
  /\ readPos = [i \in Ticket |-> 0]
  /\ firstId = [i \in Ticket |-> 0]
  /\ count = [i \in Ticket |-> 0]
  /\ cur = [i \in Ticket |-> 0]
  /\ messages = [i \in Ticket |-> 0]
  /\ waitingLockCount = [i \in Ticket |-> IF IsFirst(i) THEN 0 ELSE 1]
  /\ written = {} /\ value = 0
  /\ seen = [i \in Ticket |-> -1]

FairBacklogSpec == BacklogInit /\ [][Next]_vars /\ Fairness

(* Every task of the backlog was accepted and reads the node's value.      *)
AcceptedInit ==
  /\ BacklogInit
  /\ \A i \in Ticket : pc[i] = "ready" /\ phase[i] # "try"
AcceptedSpec == AcceptedInit /\ [][Next]_vars
=============================================================================
