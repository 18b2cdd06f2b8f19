------------------------------ MODULE Freeway ------------------------------
(***************************************************************************)
(* The nodes of a graph, the tasks of their workflows and the locks        *)
(* between them: Task::RunNode and Task::Enqueue with LockPtr and the      *)
(* dispatcher's pass.  A node's lock is taken for what SharedMutex is      *)
(* shown to implement, OrderedAccess: an access is admitted after the      *)
(* earlier ones that conflict with it have left.  Wake-ups then have only  *)
(* the effects of Task::Enqueue, and one task object serves one task.      *)
(***************************************************************************)
EXTENDS Integers, Sequences, FiniteSets, Functions

CONSTANTS
  NodeCount,     \* nodes 1..NodeCount, numbered along the edges
  MaxWorkflow    \* bound on the workflow id

ASSUME ConstantsAssumption == NodeCount \in Nat /\ MaxWorkflow \in Nat

VARIABLES
  precursors,    \* mPrecursors of each node
  workflowId,
  toRegister,    \* tasks of the pass that are not in their lock queues yet
  waiters,       \* mWaiters of each node's lock, as [task, IsWriter]
  pc,            \* where RunNode is, see Init and RunNode
  mIsAcceptTrigger,
  mWaitingLockCount,
  mWaited,       \* the precursor whose shared lock a task waits for
  mResult,       \* tasks whose Process returned a reason to raise successors
  mDeferred,     \* pairs of a task and a precursor
  inside, left,  \* pairs of a task and a node: its access was granted, has ended
  stored,        \* tasks whose Process stored a value in their node
  got,           \* the workflow whose value a task saw in a precursor, -1 none
  onRaised       \* tasks whose OnRaised agreed to a raise of a precursor

passVars == <<precursors, workflowId, toRegister, waiters>>
lockVars == <<inside, left>>
dataVars == <<stored, got>>
vars == <<passVars, pc, mIsAcceptTrigger, mWaitingLockCount, mWaited, mResult, mDeferred,
          lockVars, dataVars, onRaised>>

Node == 1..NodeCount
NoNode == 0
Task == [flow : 1..MaxWorkflow, node : Node]

Graphs == {g \in [Node -> SUBSET Node] : \A n \in Node : \A p \in g[n] : p < n}

Init ==
  /\ precursors \in Graphs
  /\ workflowId = 0 /\ toRegister = {}
  /\ waiters = [n \in Node |-> <<>>]
  /\ pc = [t \in Task |-> "absent"]
  /\ mIsAcceptTrigger = {}
  /\ mWaitingLockCount = [t \in Task |-> 0]
  /\ mWaited = [t \in Task |-> NoNode]
  /\ mResult = {} /\ mDeferred = {}
  /\ inside = {} /\ left = {}
  /\ stored = {}
  /\ got = [a \in Task \X Node |-> -1]
  /\ onRaised = {}
-----------------------------------------------------------------------------
(* The dispatcher.                                                         *)

Successors(ns) == {m \in Node : precursors[m] \cap ns # {}}
Reached(from) ==
  LET grow[k \in 0..NodeCount] ==
        IF k = 0 THEN from ELSE grow[k - 1] \cup Successors(grow[k - 1])
  IN  grow[NodeCount]

Of(flow, ns) == {[flow |-> flow, node |-> n] : n \in ns}

(* The tasks of the pass that a task of node n waits for.                  *)
(* Mutant: none is counted.                                                *)
WaitsFor_None(n, raised) == {}
WaitsFor(n, raised) == precursors[n] \cap Reached(raised)

(* VisitNode for the nodes raised since the last pass.                     *)
BeginPass(raised) ==
  /\ toRegister = {} /\ workflowId < MaxWorkflow
  /\ workflowId' = workflowId + 1
  /\ toRegister' = Of(workflowId', Reached(raised))
  /\ mIsAcceptTrigger' = mIsAcceptTrigger \cup Of(workflowId', raised)
  /\ mWaitingLockCount' = [t \in Task |->
       IF t \in toRegister' THEN Cardinality(WaitsFor(t.node, raised))
       ELSE mWaitingLockCount[t]]
  /\ UNCHANGED <<precursors, waiters, pc, mWaited, mResult, mDeferred, lockVars, dataVars, onRaised>>

(* The tasks are registered along the edges (OwnTaskFirst of Dispatcher).  *)
Register(t) ==
  /\ t \in toRegister
  /\ \A u \in toRegister : t.node <= u.node
  /\ toRegister' = toRegister \ {t}
  /\ waiters' = [n \in Node |->
       IF n = t.node \/ n \in precursors[t.node]
         THEN Append(waiters[n], [task |-> t, IsWriter |-> n = t.node])
         ELSE waiters[n]]
  /\ pc' = [pc EXCEPT ![t] = "dispatched"]
  /\ UNCHANGED <<precursors, workflowId, mIsAcceptTrigger, mWaitingLockCount, mWaited, mResult,
                 mDeferred, lockVars, dataVars, onRaised>>
-----------------------------------------------------------------------------
(* The lock of node n, as OrderedAccess has it.                            *)

(* Mutant: a reader goes before the writer of its own workflow.            *)
Admitted_OwnWorkflow(t, n) ==
  \E i \in DOMAIN waiters[n] :
    /\ waiters[n][i].task = t
    /\ \A j \in 1..(i - 1) :
         \/ <<waiters[n][j].task, n>> \in left
         \/ ~waiters[n][i].IsWriter /\ (waiters[n][j].IsWriter => waiters[n][j].task.flow = t.flow)
Admitted(t, n) ==
  \E i \in DOMAIN waiters[n] :
    /\ waiters[n][i].task = t
    /\ \A j \in 1..(i - 1) :
         waiters[n][i].IsWriter \/ waiters[n][j].IsWriter => <<waiters[n][j].task, n>> \in left

(* Wake goes from the released writer up to the next one.                  *)
(* Mutant: it misses the entry next to the writer.                         *)
WokenBy_FromSecond(t) ==
  LET queue == waiters[t.node]
      Own(k) == queue[k].task = t
  IN  {queue[i].task : i \in {i \in DOMAIN queue :
         ~queue[i].IsWriter /\ \E k \in 1..(i - 2) :
           Own(k) /\ \A j \in (k + 1)..i : ~queue[j].IsWriter}}
WokenBy(t) ==
  LET queue == waiters[t.node]
      Own(k) == queue[k].task = t
  IN  {queue[i].task : i \in {i \in DOMAIN queue :
         ~queue[i].IsWriter /\ \E k \in 1..(i - 1) :
           Own(k) /\ \A j \in (k + 1)..i : ~queue[j].IsWriter}}
-----------------------------------------------------------------------------
(* RunNode, from WaitLock4 to the end.                                     *)

(* Mutant: a task that was not accepted does not wait for its precursors.  *)
IsSchedulable_Always(t) == TRUE
IsSchedulable(t) == t \in mIsAcceptTrigger \/ mWaitingLockCount[t] = 0

WaitLock(t) ==
  /\ pc[t] = "dispatched" /\ t.flow \notin {u.flow : u \in toRegister}
  /\ IsSchedulable(t)
  /\ Admitted(t, t.node)
  /\ inside' = inside \cup {<<t, t.node>>}
  /\ pc' = [pc EXCEPT ![t] = IF t \in mIsAcceptTrigger THEN "process" ELSE "precursors"]
  /\ UNCHANGED <<passVars, mIsAcceptTrigger, mWaitingLockCount, mWaited, mResult, mDeferred, left,
                 dataVars, onRaised>>

(* DoProcess follows a LockPtr to a precursor, waits until it has the      *)
(* shared lock and reads; mSpecial remembers that the task has the lock.   *)
LastStored(n) ==
  LET flows == {t.flow : t \in {u \in stored : u.node = n}}
  IN  IF flows = {} THEN 0 ELSE CHOOSE f \in flows : \A g \in flows : g <= f

WaitSharedLock(t, p) ==
  /\ pc[t] = "process" /\ mWaited[t] = NoNode
  /\ p \in precursors[t.node] /\ <<t, p>> \notin inside
  /\ mWaited' = [mWaited EXCEPT ![t] = p]
  /\ UNCHANGED <<passVars, pc, mIsAcceptTrigger, mWaitingLockCount, mResult, mDeferred, lockVars,
                 dataVars, onRaised>>

Read(t, p) ==
  /\ mWaited[t] = p /\ Admitted(t, p)
  /\ inside' = inside \cup {<<t, p>>}
  /\ got' = [got EXCEPT ![<<t, p>>] = LastStored(p)]
  /\ mWaited' = [mWaited EXCEPT ![t] = NoNode]
  /\ UNCHANGED <<passVars, pc, mIsAcceptTrigger, mWaitingLockCount, mResult, mDeferred, left,
                 stored, onRaised>>

(* DoProcess ends, with or without a new value, with or without a result   *)
(* that raises the successors; an exception does neither.                  *)
Process(t) ==
  /\ pc[t] = "process" /\ mWaited[t] = NoNode
  /\ \/ stored' = stored \cup {t} /\ mResult' = mResult \cup {t}
     \/ stored' = stored \cup {t} /\ UNCHANGED mResult
     \/ UNCHANGED <<stored, mResult>>
  /\ pc' = [pc EXCEPT ![t] = "precursors"]
  /\ UNCHANGED <<passVars, mIsAcceptTrigger, mWaitingLockCount, mWaited, mDeferred, lockVars,
                 got, onRaised>>

TrySharedLock(t, p) ==
  /\ pc[t] = "precursors" /\ p \in precursors[t.node]
  /\ <<t, p>> \notin left \cup mDeferred
  /\ \A q \in precursors[t.node] : q < p => <<t, q>> \in left \cup mDeferred
  /\ IF Admitted(t, p)
       THEN /\ left' = left \cup {<<t, p>>}
            /\ inside' = inside \ {<<t, p>>}
            /\ UNCHANGED mDeferred
       ELSE /\ mDeferred' = mDeferred \cup {<<t, p>>}
            /\ UNCHANGED lockVars
  /\ UNCHANGED <<passVars, pc, mIsAcceptTrigger, mWaitingLockCount, mWaited, mResult, dataVars, onRaised>>

(* Unlock and Wake; Enqueue acts on the woken tasks of the same workflow.  *)
Unlock(t) ==
  /\ pc[t] = "precursors"
  /\ \A p \in precursors[t.node] : <<t, p>> \in left \cup mDeferred
  /\ pc' = [pc EXCEPT ![t] = "deferred"]
  /\ left' = left \cup {<<t, t.node>>}
  /\ inside' = inside \ {<<t, t.node>>}
  /\ LET same == {u \in WokenBy(t) : u.flow = t.flow}
     IN  \E raises \in SUBSET same :
           /\ raises \subseteq IF t \in mResult THEN same \ mIsAcceptTrigger ELSE {}
           /\ mIsAcceptTrigger' = mIsAcceptTrigger \cup raises
           /\ onRaised' = onRaised \cup raises
           /\ mWaitingLockCount' = [u \in Task |->
                IF u \in same THEN mWaitingLockCount[u] - 1 ELSE mWaitingLockCount[u]]
  /\ UNCHANGED <<passVars, mWaited, mResult, mDeferred, dataVars>>

(* By WaitSharedLock4 of the loop over mDeferred, or by CompleteDeffered.  *)
(* Mutant: the shared lock is not released.                                *)
CompleteDeffered_Holds(t, p) ==
  /\ pc[t] = "deferred" /\ <<t, p>> \in mDeferred
  /\ Admitted(t, p)
  /\ mDeferred' = mDeferred \ {<<t, p>>}
  /\ UNCHANGED <<passVars, pc, mIsAcceptTrigger, mWaitingLockCount, mWaited, mResult, lockVars,
                 dataVars, onRaised>>
CompleteDeffered(t, p) ==
  /\ pc[t] = "deferred" /\ <<t, p>> \in mDeferred
  /\ Admitted(t, p)
  /\ mDeferred' = mDeferred \ {<<t, p>>}
  /\ left' = left \cup {<<t, p>>}
  /\ UNCHANGED <<passVars, pc, mIsAcceptTrigger, mWaitingLockCount, mWaited, mResult, inside, dataVars,
                 onRaised>>

(* The task is over, FinishATask counts it.                                *)
Finished(t) == pc[t] = "deferred" /\ \A p \in Node : <<t, p>> \notin mDeferred

RunNode(t) ==
  \/ WaitLock(t) \/ Process(t) \/ Unlock(t)
  \/ \E p \in Node : TrySharedLock(t, p) \/ CompleteDeffered(t, p)

Next ==
  \/ \E raised \in SUBSET Node \ {{}} : BeginPass(raised)
  \/ \E t \in Task : Register(t) \/ RunNode(t)
  \/ \E t \in Task, p \in Node : WaitSharedLock(t, p) \/ Read(t, p)

Spec == Init /\ [][Next]_vars

(* The dispatcher finishes its pass and every worker keeps running, so a   *)
(* task that can go on does; DoProcess ends.                               *)
Fairness ==
  \A t \in Task :
    WF_vars(Register(t)) /\ WF_vars(RunNode(t)) /\ WF_vars(\E p \in Node : Read(t, p))
FairSpec == Spec /\ Fairness
-----------------------------------------------------------------------------
TypeOK ==
  /\ precursors \in Graphs
  /\ workflowId \in 0..MaxWorkflow
  /\ toRegister \subseteq Task /\ mIsAcceptTrigger \subseteq Task /\ mResult \subseteq Task
  /\ stored \subseteq Task /\ onRaised \subseteq Task
  /\ \A n \in Node : waiters[n] \in Seq([task : Task, IsWriter : BOOLEAN])
  /\ pc \in [Task -> {"absent", "dispatched", "process", "precursors", "deferred"}]
  /\ mWaitingLockCount \in [Task -> 0..NodeCount]
  /\ mWaited \in [Task -> Node \cup {NoNode}]
  /\ mDeferred \subseteq Task \X Node /\ inside \subseteq Task \X Node /\ left \subseteq Task \X Node
  /\ got \in [Task \X Node -> -1..MaxWorkflow]

(* What a task sees in a precursor is the value of the last workflow up to *)
(* its own that stored one, and no such workflow is still to come: two     *)
(* paths from one node to another never show it two different workflows.   *)
Consistent ==
  \A t \in Task, p \in Node : got[<<t, p>>] # -1 =>
    /\ got[<<t, p>>] <= t.flow
    /\ \A u \in stored : u.node = p /\ u.flow <= t.flow => u.flow <= got[<<t, p>>]

(* A task counts the precursors of its workflow that have not released     *)
(* their locks yet, whether or not a raise has accepted it meanwhile.      *)
CountsPrecursors ==
  \A t \in Task : pc[t] # "absent" =>
    mWaitingLockCount[t] = Cardinality({p \in precursors[t.node] :
      \E u \in Of(t.flow, {p}) : pc[u] \notin {"absent", "deferred"}
                                 \/ u \in toRegister})

(* A task that went by unaccepted missed no raise, and none can come: all  *)
(* its precursors of the workflow have decided.                            *)
NoRaiseMissed ==
  \A t \in Task : pc[t] \in {"precursors", "deferred"} /\ t \notin mIsAcceptTrigger =>
    /\ t \notin onRaised
    /\ \A p \in precursors[t.node] : \A u \in Of(t.flow, {p}) :
         pc[u] \in {"absent", "deferred"}

(* A task gives every shared lock back exactly once before it ends, also   *)
(* those it could not get when it left its own lock.                       *)
NothingHeldAtEnd ==
  \A t \in Task : Finished(t) =>
    \A n \in precursors[t.node] \cup {t.node} : <<t, n>> \in left /\ <<t, n>> \notin inside

(* Every task ends, whatever tasks of other workflows and nodes wait for.  *)
EachTaskCompletes == \A t \in Task : pc[t] = "dispatched" ~> Finished(t)
=============================================================================
