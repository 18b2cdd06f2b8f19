---------------------------- MODULE WaittingList ----------------------------
(***************************************************************************)
(* The waiting tasks of one worker: the loop of Worker::Run and            *)
(* CheckLostLamb, with Task::Pending4Lock, Suspend4Lock and Suspend4Shared *)
(* (Worker.cpp, Task.cpp, built with _USING_MULTI_LEVEL_WAITTING_LIST).    *)
(* Each node has a TaskList per worker, kept here as a sequence; the       *)
(* worker remembers in mWaittingNodes the nodes whose list it filled.      *)
(* Locks are seen from outside: an attempt to get one may fail or succeed, *)
(* and a node's lock wakes a task at most once.                            *)
(***************************************************************************)
EXTENDS Integers, Sequences, FiniteSets, SequencesExt

CONSTANTS
  NodeCount, \* nodes 1..NodeCount, numbered along the edges
  Flows      \* workflow ids 1..Flows

ASSUME ConstantsAssumption == NodeCount \in Nat \ {0} /\ Flows \in Nat

VARIABLES
  step,          \* where the loop is: "dispatched", "messages", "check", "run"
  dispatched,    \* tasks handed out and taken by the worker
  schedulable,   \* tasks for which IsSchedulable holds
  started,       \* tasks that called WaitLock4
  mWaited,
  waiting,       \* per node: this worker's mWaitingTasks
  mWaittingNodes,
  iNode, newCount,   \* CheckLostLamb's: nodes visited and nodes kept
  mReadyTasks,
  finished,
  woken          \* the wake-ups received: pairs of a node and a task

vars == <<step, dispatched, schedulable, started, mWaited, waiting, mWaittingNodes,
          iNode, newCount, mReadyTasks, finished, woken>>

Node == 1..NodeCount
(* A node has one task in a workflow.                                      *)
Task == [flow : 1..Flows, node : Node]
NoNode == 0

Init ==
  /\ step = "dispatched"
  /\ dispatched = {}
  /\ schedulable = {} /\ started = {}
  /\ mWaited = [t \in Task |-> NoNode]
  /\ waiting = [n \in Node |-> <<>>]
  /\ mWaittingNodes = <<>>
  /\ iNode = 0 /\ newCount = 0
  /\ mReadyTasks = <<>>
  /\ finished = {}
  /\ woken = {}
-----------------------------------------------------------------------------
(* Insertion, from the back of the list, behind the tasks of workflows up  *)
(* to flow.                                                                *)
(* Mutant: at the back.                                                    *)
Insert_AtBack(list, t, flow) == Append(list, t)
Insert(list, t, flow) ==
  LET k == CHOOSE k \in 0..Len(list) :
             /\ k > 0 => list[k].flow <= flow
             /\ \A j \in (k + 1)..Len(list) : list[j].flow > flow
  IN  SubSeq(list, 1, k) \o <<t>> \o SubSeq(list, k + 1, Len(list))

WaitOn(n, t, flow) ==
  /\ mWaited' = [mWaited EXCEPT ![t] = n]
  /\ waiting' = [waiting EXCEPT ![n] = Insert(@, t, flow)]
  /\ mWaittingNodes' = IF waiting[n] = <<>> THEN Append(mWaittingNodes, n)
                       ELSE mWaittingNodes

(* The node's own task waits in front of the readers of its workflow, a    *)
(* reader behind those of its workflow.                                    *)
Pending4Lock(t) == WaitOn(t.node, t, t.flow - 1)
Suspend4Shared(t, n) == WaitOn(n, t, t.flow)

(* Mutant: the task stays in the list.                                     *)
Erase_Nothing(lists, t) == lists
Erase(lists, t) ==
  [n \in Node |-> IF t \in Range(lists[n])
                    THEN RemoveAt(lists[n], CHOOSE i \in DOMAIN lists[n] : lists[n][i] = t)
                    ELSE lists[n]]

UNCHANGED_WAIT == UNCHANGED <<mWaited, waiting, mWaittingNodes>>
UNCHANGED_CHECK == UNCHANGED <<iNode, newCount>>
-----------------------------------------------------------------------------
(* Another thread accepts a task or lowers its count to zero.              *)
BecomeSchedulable(t) ==
  /\ t \notin schedulable \cup finished
  /\ schedulable' = schedulable \cup {t}
  /\ UNCHANGED <<step, dispatched, started, mReadyTasks, finished, woken>>
  /\ UNCHANGED_WAIT /\ UNCHANGED_CHECK

(* push2DispatchedQueue, in workflow order.                                *)
Dispatched(t) ==
  /\ step = "dispatched" /\ t \notin dispatched
  /\ \A u \in dispatched : u.flow <= t.flow
  /\ dispatched' = dispatched \cup {t}
  /\ IF t \in schedulable
       THEN mReadyTasks' = Append(mReadyTasks, t) /\ UNCHANGED_WAIT
       ELSE Pending4Lock(t) /\ UNCHANGED mReadyTasks
  /\ UNCHANGED <<step, schedulable, started, finished, woken>> /\ UNCHANGED_CHECK

(* push2ReadyQueue; CompleteDeffered has no effect on waiting tasks.       *)
Message(n, t) ==
  /\ step = "messages" /\ t \in dispatched \ finished
  /\ n <= t.node /\ <<n, t>> \notin woken
  /\ woken' = woken \cup {<<n, t>>}
  /\ IF mWaited[t] = n /\ t \in schedulable
       THEN /\ mReadyTasks' = Append(mReadyTasks, t)
            /\ waiting' = Erase(waiting, t)
            /\ mWaited' = [mWaited EXCEPT ![t] = NoNode]
       ELSE UNCHANGED <<mReadyTasks, waiting, mWaited>>
  /\ UNCHANGED <<step, dispatched, schedulable, started, mWaittingNodes, finished>>
  /\ UNCHANGED_CHECK

(* One turn of the loop of CheckLostLamb: the first task of the list goes  *)
(* on if it is schedulable and its TryLock or TrySharedLock succeeds       *)
(* (gotLock).                                                              *)
(* Mutant: the resumed task stays in the list.                             *)
PopFront_Keeps(list) == list
PopFront(list) == Tail(list)

TryFront(n, gotLock) ==
  IF gotLock
    THEN /\ waiting[n] # <<>> /\ Head(waiting[n]) \in schedulable
         /\ mWaited' = [mWaited EXCEPT ![Head(waiting[n])] = NoNode]
         /\ mReadyTasks' = Append(mReadyTasks, Head(waiting[n]))
         /\ waiting' = [waiting EXCEPT ![n] = PopFront(@)]
    ELSE UNCHANGED <<mWaited, mReadyTasks, waiting>>

(* The nodes that are kept move to the front of the array being walked.    *)
KeepNode(n, keeps) ==
  IF keeps
    THEN mWaittingNodes' = [mWaittingNodes EXCEPT ![newCount + 1] = n] /\ newCount' = newCount + 1
    ELSE UNCHANGED <<mWaittingNodes, newCount>>

(* Mutant: the rest of a list is not looked at again.                      *)
CheckLostLamb_DropsNode(gotLock) ==
  LET n == mWaittingNodes[iNode + 1]
  IN  /\ step = "check" /\ iNode < Len(mWaittingNodes)
      /\ TryFront(n, gotLock)
      /\ KeepNode(n, waiting'[n] # <<>> /\ ~gotLock)
      /\ iNode' = iNode + 1
      /\ UNCHANGED <<step, dispatched, schedulable, started, finished, woken>>
CheckLostLamb(gotLock) ==
  LET n == mWaittingNodes[iNode + 1]
  IN  /\ step = "check" /\ iNode < Len(mWaittingNodes)
      /\ TryFront(n, gotLock)
      /\ KeepNode(n, waiting'[n] # <<>>)
      /\ iNode' = iNode + 1
      /\ UNCHANGED <<step, dispatched, schedulable, started, finished, woken>>

(* mWaittingNodeCount = newCount.                                          *)
EndCheck ==
  /\ step = "check" /\ iNode = Len(mWaittingNodes)
  /\ mWaittingNodes' = SubSeq(mWaittingNodes, 1, newCount)
  /\ iNode' = 0 /\ newCount' = 0 /\ step' = "run"
  /\ UNCHANGED <<dispatched, schedulable, started, mWaited, waiting, mReadyTasks, finished,
                 woken>>

Start(t) ==
  /\ started' = started \cup {t}
  /\ UNCHANGED <<schedulable, woken, finished>>

(* What concerned a finished task is forgotten.                            *)
Finish(t) ==
  /\ finished' = finished \cup {t}
  /\ started' = started \ {t}
  /\ schedulable' = schedulable \ {t}
  /\ woken' = {w \in woken : w[2] # t}

(* A task runs until it ends or waits: for its own lock first, then for    *)
(* the shared locks of precursors.  TaskCompare is not an order, so any of *)
(* the ready tasks may be at the top.                                      *)
RunTask(k) ==
  LET t == mReadyTasks[k]
  IN  /\ step = "run"
      /\ mReadyTasks' = RemoveAt(mReadyTasks, k)
      /\ \/ t \notin started /\ Pending4Lock(t) /\ Start(t)
         \/ \E n \in 1..(t.node - 1) : Suspend4Shared(t, n) /\ Start(t)
         \/ Finish(t) /\ UNCHANGED_WAIT
      /\ UNCHANGED <<step, dispatched>> /\ UNCHANGED_CHECK

(* The loop goes on when it has seen what its queues held, and looks at    *)
(* waiting tasks if none is ready.                                         *)
Advance ==
  /\ \/ step = "dispatched" /\ step' = "messages"
     \/ step = "messages" /\ mReadyTasks = <<>> /\ step' = "check"
     \/ step = "messages" /\ mReadyTasks # <<>> /\ step' = "run"
     \/ step = "run" /\ mReadyTasks = <<>> /\ step' = "dispatched"
  /\ UNCHANGED <<dispatched, schedulable, started, mReadyTasks, finished, woken>>
  /\ UNCHANGED_WAIT /\ UNCHANGED_CHECK

Next ==
  \/ \E t \in Task : BecomeSchedulable(t) \/ Dispatched(t)
  \/ \E n \in Node, t \in Task : Message(n, t)
  \/ \E gotLock \in BOOLEAN : CheckLostLamb(gotLock)
  \/ EndCheck
  \/ \E k \in 1..Len(mReadyTasks) : RunTask(k)
  \/ Advance

Spec == Init /\ [][Next]_vars
-----------------------------------------------------------------------------
TypeOK ==
  /\ step \in {"dispatched", "messages", "check", "run"}
  /\ dispatched \subseteq Task /\ schedulable \subseteq Task
  /\ started \subseteq Task /\ finished \subseteq Task
  /\ mWaited \in [Task -> Node \cup {NoNode}]
  /\ waiting \in [Node -> Seq(Task)]
  /\ mWaittingNodes \in Seq(Node)
  /\ iNode \in 0..Len(mWaittingNodes) /\ newCount \in 0..iNode
  /\ mReadyTasks \in Seq(Task)
  /\ woken \subseteq Node \X Task
  /\ (started \cup schedulable) \cap finished = {}

(* A task handed out is in exactly one place, once: ready, in the list of  *)
(* the node it waits for, or finished.  Resumed twice it would run on      *)
(* behind its own end; lost it would hold up its successors for ever.      *)
InOnePlace ==
  \A t \in dispatched :
    Cardinality({k \in DOMAIN mReadyTasks : mReadyTasks[k] = t})
      + (IF t \in finished THEN 1 ELSE 0)
      + Cardinality(UNION {{n} \X {k \in DOMAIN waiting[n] : waiting[n][k] = t} : n \in Node})
      = 1

(* A waiting task is in the list of the node it waits for, where           *)
(* push2ReadyQueue erases it from.                                         *)
WaitsWhereListed ==
  \A t \in Task, n \in Node : t \in Range(waiting[n]) <=> mWaited[t] = n

(* CheckLostLamb looks at every list that is not empty, however entries of *)
(* mWaittingNodes have become stale or doubled: its node is in the array,  *)
(* and while the array is walked and packed, among the nodes that are kept *)
(* or still to come.                                                       *)
NoListForgotten ==
  \A n \in Node : waiting[n] # <<>> =>
    \E k \in DOMAIN mWaittingNodes : mWaittingNodes[k] = n /\ (k <= newCount \/ k > iNode)

(* CheckLostLamb looks at the first task of a list only.  No task behind   *)
(* it is to be admitted earlier: an earlier workflow, or the node's own    *)
(* task in front of the readers of its workflow.                           *)
EarliestFirst ==
  \A n \in Node : \A j, k \in DOMAIN waiting[n] : j < k =>
    LET t == waiting[n][j]
        u == waiting[n][k]
    IN  t.flow < u.flow \/ (t.flow = u.flow /\ u.node # n)
=============================================================================
