--------------------------- MODULE DispatcherProofs ---------------------------
(***************************************************************************)
(* Proofs about Dispatcher, for every graph and every number of threads    *)
(* and workers: what a pass dispatches, what its tasks wait for, and where *)
(* they are registered, as long as the pool hands out fresh tasks.         *)
(***************************************************************************)
EXTENDS Dispatcher, TLAPS, FiniteSetTheorems, FunctionTheorems, SequenceTheorems

(* The nodes that the pass has dispatched, and those whose calls of        *)
(* VisitNode are under way.                                                *)
Visited == {n \in Node : IsDispatched(n)}
OnStack == {stack[i].node : i \in DOMAIN stack}

(* The tasks of the pass that are in the queues of their locks.            *)
RegisteredCount ==
  CASE step = "consume" -> 0
    [] step = "register" -> position
    [] step = "dispatch" -> Len(mPendingTask)
IsRegistered(k) == k + RegisteredCount > Len(mPendingTask)

(* A node's last task is its own, and of no later workflow.                *)
PoolInv ==
  /\ \A n \in Node : mLastDispatchedTask[n] # NoTask => NodeOf(mLastDispatchedTask[n]) = n
  /\ \A t \in Task : tasks[t].flow <= workflowId

(* The calls under way go down an edge each.  What a call has behind it is *)
(* on mPendingTask, and it is not there itself.                            *)
StackInv ==
  /\ stack # <<>> => stack[1].node \in raised
  /\ \A i \in DOMAIN stack :
       /\ IsDispatched(stack[i].node)
       /\ stack[i].task = mLastDispatchedTask[stack[i].node]
       /\ stack[i].next \in 1..(Len(successors[stack[i].node]) + 1)
       /\ stack[i].node \notin PassNodes
       /\ \A j \in 1..(stack[i].next - 1) : successors[stack[i].node][j] \in PassNodes
  /\ \A i \in DOMAIN stack : i + 1 \in DOMAIN stack =>
       /\ stack[i].next <= Len(successors[stack[i].node])
       /\ stack[i + 1].node = successors[stack[i].node][stack[i].next]
  /\ \A i, j \in DOMAIN stack : i < j => stack[i].node < stack[j].node

(* mPendingTask holds last tasks of the workflow, once each, and those of  *)
(* the successors before.                                                  *)
PendingInv ==
  /\ \A k \in DOMAIN mPendingTask :
       /\ NodeOf(mPendingTask[k]) \in Visited
       /\ mLastDispatchedTask[NodeOf(mPendingTask[k])] = mPendingTask[k]
       /\ \A m \in Range(successors[NodeOf(mPendingTask[k])]) :
            \E j \in 1..(k - 1) : NodeOf(mPendingTask[j]) = m
  /\ \A j, k \in DOMAIN mPendingTask : mPendingTask[j] = mPendingTask[k] => j = k
  /\ Visited \subseteq PassNodes \cup OnStack

ReachInv ==
  /\ Visited \subseteq Reached(raised)
  /\ raised \subseteq Visited

(* The calls of VisitNode for n that came from p and returned.             *)
PassedOn(p, n) ==
  \/ p \in PassNodes
  \/ \E i \in DOMAIN stack : stack[i].node = p
       /\ \E j \in 1..(stack[i].next - 1) : successors[p][j] = n
CountInv ==
  \A n \in Visited :
    /\ tasks[mLastDispatchedTask[n]].mWaitingLockCount =
         Cardinality({p \in Precursors(n) : PassedOn(p, n)})
    /\ tasks[mLastDispatchedTask[n]].mIsAcceptTrigger =
         (n \in AlwaysAccept \/ (n \in raised /\ (stack = <<>> \/ stack[1].node # n)))

(* Where the tasks of the pass are in the queues of the locks.             *)
WaitersInv ==
  /\ \A n \in Node : \A i \in DOMAIN waiters[n] :
       /\ \E k \in DOMAIN mPendingTask : mPendingTask[k] = waiters[n][i].pTask /\ IsRegistered(k)
       /\ n = NodeOf(waiters[n][i].pTask) \/ n \in Precursors(NodeOf(waiters[n][i].pTask))
       /\ waiters[n][i].IsWriter = (n = NodeOf(waiters[n][i].pTask))
       /\ n \in PassNodes => waiters[n][i].IsWriter = (i = 1)
  /\ \A n \in Node : \A i, j \in DOMAIN waiters[n] :
       waiters[n][i].pTask = waiters[n][j].pTask => i = j
  /\ \A k \in DOMAIN mPendingTask : IsRegistered(k) =>
       \A n \in Precursors(NodeOf(mPendingTask[k])) \cup {NodeOf(mPendingTask[k])} :
         \E i \in DOMAIN waiters[n] : waiters[n][i].pTask = mPendingTask[k]

(* Nodes are visited before the pass registers, and workers have tasks of  *)
(* the pass only when it dispatches.                                       *)
PhaseInv == stack # <<>> \/ consumed # <<>> => step = "consume"
HandedInv ==
  step # "dispatch" =>
    \A n \in Visited, w \in Worker :
      mLastDispatchedTask[n] \notin Range(mDispatchedTasks[w])

(* The inductive invariant.                                                *)
DispatcherInv ==
  /\ TypeOK /\ PoolInv /\ StackInv /\ PendingInv /\ ReachInv /\ CountInv /\ WaitersInv
  /\ PhaseInv /\ HandedInv
-----------------------------------------------------------------------------
(* Sequences and graphs.                                                   *)

LEMMA Members ==
  ASSUME NEW S, NEW s \in Seq(S)
  PROVE  /\ Len(s) \in Nat /\ DOMAIN s = 1..Len(s)
         /\ \A i \in 1..Len(s) : s[i] \in S
         /\ \A x : x \in Range(s) <=> \E i \in 1..Len(s) : s[i] = x
         /\ s = <<>> <=> Len(s) = 0
<1>1. Len(s) \in Nat /\ DOMAIN s = 1..Len(s) /\ \A i \in 1..Len(s) : s[i] \in S
  BY LenProperties, ElementOfSeq
<1>2. \A x : x \in Range(s) <=> \E i \in 1..Len(s) : s[i] = x
  BY <1>1 DEF Range
<1>3. s = <<>> <=> Len(s) = 0
  BY EmptySeq
<1>4. QED
  BY <1>1, <1>2, <1>3

LEMMA AppendFacts ==
  ASSUME NEW S, NEW s \in Seq(S), NEW e \in S
  PROVE  /\ Append(s, e) \in Seq(S) /\ Len(Append(s, e)) = Len(s) + 1
         /\ \A i \in 1..Len(s) : Append(s, e)[i] = s[i]
         /\ Append(s, e)[Len(s) + 1] = e
         /\ Range(Append(s, e)) = Range(s) \cup {e}
<1> DEFINE t == Append(s, e)
<1>1. /\ t \in Seq(S) /\ Len(t) = Len(s) + 1
      /\ \A i \in 1..Len(s) : t[i] = s[i]
      /\ t[Len(s) + 1] = e
  BY AppendProperties
<1> HIDE DEF t
<1>2. /\ Len(s) \in Nat
      /\ \A x : x \in Range(s) <=> \E i \in 1..Len(s) : s[i] = x
      /\ \A x : x \in Range(t) <=> \E i \in 1..Len(t) : t[i] = x
  BY <1>1, Members
<1>3. \A i : i \in 1..Len(t) <=> i \in 1..Len(s) \/ i = Len(s) + 1
  BY <1>1, <1>2
<1>4. ASSUME NEW x
      PROVE  x \in Range(t) <=> x \in Range(s) \/ x = e
  BY <1>1, <1>2, <1>3
<1>5. Range(t) = Range(s) \cup {e}
  BY <1>4
<1>6. QED
  BY <1>1, <1>5 DEF t

LEMMA FrontFacts ==
  ASSUME NEW S, NEW s \in Seq(S), s # <<>>
  PROVE  /\ Front(s) \in Seq(S) /\ Len(s) = Len(Front(s)) + 1
         /\ \A i \in 1..Len(Front(s)) : Front(s)[i] = s[i]
<1> DEFINE t == Front(s)
<1>1. Len(s) \in Nat /\ Len(s) # 0 /\ \A i \in 1..Len(s) : s[i] \in S
  BY Members
<1>2. PICK m \in Nat : Len(s) = m + 1
  BY <1>1
<1>3. t = SubSeq(s, 1, m)
  BY <1>2 DEF Front
<1>4. \A i \in 1..m : s[i] \in S
  BY <1>1, <1>2
<1> HIDE DEF t
<1>5. t \in Seq(S) /\ Len(t) = m
  BY <1>3, <1>4, SubSeqProperties
<1>6. \A i \in 1..m : t[i] = s[i]
  BY <1>3, <1>4, SubSeqProperties
<1>7. QED
  BY <1>2, <1>5, <1>6 DEF t

(* Edges go to larger nodes, each once.                                    *)
LEMMA GraphFacts ==
  ASSUME TypeOK
  PROVE  /\ \A n \in Node : n \in Nat
         /\ IsFiniteSet(Node)
         /\ \A n \in Node : successors[n] \in Seq(Node) /\ Len(successors[n]) \in Nat
         /\ \A n \in Node : \A j \in 1..Len(successors[n]) :
              successors[n][j] \in Node /\ n < successors[n][j]
         /\ \A n \in Node : \A i, j \in 1..Len(successors[n]) :
              successors[n][i] = successors[n][j] => i = j
         /\ \A n \in Node : \A m :
              m \in Range(successors[n]) <=> \E j \in 1..Len(successors[n]) : successors[n][j] = m
<1>1. NodeCount \in Nat /\ Node = 1..NodeCount
  BY ConstantsAssumption DEF Node
<1>2. IsFiniteSet(Node) /\ \A n \in Node : n \in Nat
  BY <1>1, FS_Interval
<1>3. ASSUME NEW n \in Node
      PROVE  /\ successors[n] \in Seq(Node) /\ Len(successors[n]) \in Nat
             /\ \A j \in 1..Len(successors[n]) : successors[n][j] \in Node /\ n < successors[n][j]
             /\ \A i, j \in 1..Len(successors[n]) : successors[n][i] = successors[n][j] => i = j
  <2> DEFINE f == successors[n]
  <2>1. PICK later \in SUBSET {m \in Node : m > n} : f \in SetToSeqs(later)
    <3>1. successors \in Graphs
      BY DEF TypeOK
    <3>2. f \in SuccessorLists(n)
      BY <3>1 DEF Graphs
    <3>3. QED
      BY <3>2 DEF SuccessorLists
  <2>2. Cardinality(later) \in Nat
    BY <1>2, <2>1, FS_Subset, FS_CardinalityType
  <2>3. /\ f \in [1..Cardinality(later) -> later]
        /\ \A i, j \in 1..Cardinality(later) : i # j => f[i] # f[j]
    BY <2>1 DEF SetToSeqs
  <2> HIDE DEF f
  <2>4. f \in [1..Cardinality(later) -> Node] /\ \A j \in 1..Cardinality(later) : f[j] > n
    BY <2>1, <2>3
  <2>5. f \in Seq(Node) /\ Len(f) = Cardinality(later)
    BY <2>2, <2>4
  <2>6. \A j \in 1..Len(f) : f[j] \in Node /\ n < f[j]
    BY <1>2, <2>4, <2>5
  <2>7. QED
    BY <2>2, <2>3, <2>5, <2>6 DEF f
<1>4. ASSUME NEW n \in Node, NEW m
      PROVE  m \in Range(successors[n]) <=> \E j \in 1..Len(successors[n]) : successors[n][j] = m
  BY <1>3, Members
<1>5. QED
  BY <1>2, <1>3, <1>4

(* A set that is reached has what it was reached from, and the successors  *)
(* of its members, and no more than it needs.                              *)
LEMMA ReachFacts ==
  ASSUME TypeOK
  PROVE  /\ \A s \in SUBSET Node : s \subseteq Reached(s) /\ Closed(Reached(s))
         /\ \A s, t \in SUBSET Node : s \subseteq t => Reached(s) \subseteq Reached(t)
         /\ \A s, t \in SUBSET Node : s \subseteq t /\ Closed(t) => Reached(s) \subseteq t
<1>1. \A s \in SUBSET Node : s \subseteq Reached(s)
  BY DEF Reached
<1>2. ASSUME NEW s \in SUBSET Node, NEW n \in Reached(s), NEW m \in Range(successors[n])
      PROVE  m \in Reached(s)
  <2>1. n \in Node /\ m \in Node
    <3>1. n \in Node
      BY DEF Reached
    <3>2. PICK j \in 1..Len(successors[n]) : successors[n][j] = m
      BY <3>1, GraphFacts
    <3>3. QED
      BY <3>1, <3>2, GraphFacts
  <2>2. ASSUME NEW t \in SUBSET Node, s \subseteq t, Closed(t)
        PROVE  m \in t
    BY <2>2 DEF Reached, Closed
  <2>3. QED
    BY <2>1, <2>2 DEF Reached
<1>3. \A s, t \in SUBSET Node : s \subseteq t /\ Closed(t) => Reached(s) \subseteq t
  BY DEF Reached
<1>4. \A s, t \in SUBSET Node : s \subseteq t => Reached(s) \subseteq Reached(t)
  BY DEF Reached
<1>5. QED
  BY <1>1, <1>2, <1>3, <1>4 DEF Closed

(* Tasks are pairs; no task is none.                                       *)
LEMMA TaskFacts ==
  ASSUME TypeOK
  PROVE  /\ NoTask \notin Task
         /\ \A n \in Node : mLastDispatchedTask[n] # NoTask => mLastDispatchedTask[n] \in Task
         /\ \A t \in Task : tasks[t] \in [flow : Nat, node : Node \cup {0},
                                          mIsAcceptTrigger : BOOLEAN, mWaitingLockCount : Nat]
         /\ Len(mPendingTask) \in Nat /\ DOMAIN mPendingTask = 1..Len(mPendingTask)
         /\ \A k \in DOMAIN mPendingTask : mPendingTask[k] \in Task
         /\ \A n : n \in PassNodes <=> \E k \in DOMAIN mPendingTask : NodeOf(mPendingTask[k]) = n
         /\ Visited \subseteq Node
         /\ \A n \in Visited : mLastDispatchedTask[n] \in Task
<1>1. NoTask \notin Task
  BY ConstantsAssumption DEF NoTask, Task, Worker
<1>2. /\ \A n \in Node : mLastDispatchedTask[n] # NoTask => mLastDispatchedTask[n] \in Task
      /\ \A t \in Task : tasks[t] \in [flow : Nat, node : Node \cup {0},
                                       mIsAcceptTrigger : BOOLEAN, mWaitingLockCount : Nat]
  BY DEF TypeOK
<1>3. mPendingTask \in Seq(Task)
  BY DEF TypeOK
<1>4. /\ Len(mPendingTask) \in Nat /\ DOMAIN mPendingTask = 1..Len(mPendingTask)
      /\ \A k \in DOMAIN mPendingTask : mPendingTask[k] \in Task
  BY <1>3, Members
<1>5. \A n : n \in PassNodes <=> \E k \in DOMAIN mPendingTask : NodeOf(mPendingTask[k]) = n
  BY DEF PassNodes, Range
<1>6. \A n \in Visited : n \in Node /\ mLastDispatchedTask[n] \in Task
  BY <1>2 DEF Visited, IsDispatched
<1>7. QED
  BY <1>1, <1>2, <1>4, <1>5, <1>6

(* The calls under way.                                                    *)
LEMMA StackFacts ==
  ASSUME TypeOK
  PROVE  /\ Len(stack) \in Nat /\ DOMAIN stack = 1..Len(stack)
         /\ stack = <<>> <=> Len(stack) = 0
         /\ \A i \in 1..Len(stack) :
              /\ stack[i].node \in Node /\ stack[i].task \in Task /\ stack[i].next \in Nat
              /\ stack[i] \in [node : Node, task : Task, next : Nat]
<1>1. stack \in Seq([node : Node, task : Task, next : Nat])
  BY DEF TypeOK
<1>2. /\ Len(stack) \in Nat /\ DOMAIN stack = 1..Len(stack)
      /\ stack = <<>> <=> Len(stack) = 0
      /\ \A i \in 1..Len(stack) : stack[i] \in [node : Node, task : Task, next : Nat]
  BY <1>1, Members
<1>3. QED
  BY <1>2
-----------------------------------------------------------------------------
(* A call of VisitNode that creates a task.                                *)

(* Run calls VisitNode for a raise, and VisitNode for a successor.         *)
Calls(n) ==
  \/ stack = <<>> /\ raised' = raised \cup {n}
  \/ /\ stack # <<>> /\ Top.next <= Len(successors[Top.node])
     /\ n = successors[Top.node][Top.next] /\ raised' = raised

(* A task handed out for n, and the call that it begins.                   *)
HandedOut(n, t) ==
  /\ t \in Task
  /\ mLastDispatchedTask' \in [Node -> Task \cup {NoTask}]
  /\ tasks' \in [Task -> [flow : Nat, node : Node \cup {0}, mIsAcceptTrigger : BOOLEAN,
                          mWaitingLockCount : Nat]]
  /\ mNextTaskPos' \in [Worker -> Nat] /\ Loop' \in 0..WorkerCount
  /\ mLastDispatchedTask'[n] = t
  /\ \A m \in Node : m # n => mLastDispatchedTask'[m] = mLastDispatchedTask[m]
  /\ \A m \in Node : m # n => mLastDispatchedTask[m] # t
  /\ tasks'[t].flow = workflowId /\ tasks'[t].node = n
  /\ tasks'[t].mIsAcceptTrigger = (n \in AlwaysAccept) /\ tasks'[t].mWaitingLockCount = 0
  /\ \A u \in Task : u # t => tasks'[u] = tasks[u]
  /\ \A w \in Worker : t \notin Range(mDispatchedTasks[w])
  /\ stack' \in Seq([node : Node, task : Task, next : Nat])
  /\ Len(stack') = Len(stack) + 1
  /\ \A i \in 1..Len(stack) : stack'[i] = stack[i]
  /\ stack'[Len(stack) + 1] = [node |-> n, task |-> t, next |-> 1]

LEMMA CreateHandsOut ==
  ASSUME TypeOK, NEW n \in Node, CreateTask(n), Fresh(Top'.task, Top'.node)
  PROVE  \E t \in Task : HandedOut(n, t)
<1> DEFINE w == SelectWorker
           t == AllocateTaskFromPool(w)
           new == [flow |-> workflowId, node |-> n, mIsAcceptTrigger |-> n \in AlwaysAccept,
                   mWaitingLockCount |-> 0]
           frame == [node |-> n, task |-> t, next |-> 1]
<1>1. w \in Worker
  <2>1. Loop \in Nat /\ WorkerCount \in Nat \ {0}
    BY ConstantsAssumption DEF TypeOK
  <2>2. Loop % WorkerCount \in 0..(WorkerCount - 1)
    BY <2>1
  <2>3. QED
    BY <2>1, <2>2 DEF SelectWorker, Worker
<1>2. t \in Task
  <2>1. mNextTaskPos[w] \in Nat /\ PoolSize \in Nat \ {0}
    BY <1>1, ConstantsAssumption DEF TypeOK
  <2>2. mNextTaskPos[w] % PoolSize \in 0..(PoolSize - 1)
    BY <2>1
  <2>3. QED
    BY <1>1, <2>2 DEF AllocateTaskFromPool, Task
<1>3. /\ Loop' = w
      /\ mNextTaskPos' = [mNextTaskPos EXCEPT ![w] = @ + 1]
      /\ tasks' = [tasks EXCEPT ![t] = new]
      /\ mLastDispatchedTask' = [mLastDispatchedTask EXCEPT ![n] = t]
      /\ stack' = Append(stack, frame)
  BY DEF CreateTask, NewTask
<1> HIDE DEF w, t
<1>4. Loop' \in 0..WorkerCount /\ mNextTaskPos' \in [Worker -> Nat]
  <2>1. mNextTaskPos \in [Worker -> Nat] /\ WorkerCount \in Nat
    BY ConstantsAssumption DEF TypeOK
  <2>2. QED
    BY <1>1, <1>3, <2>1 DEF Worker
<1>5. /\ mLastDispatchedTask' \in [Node -> Task \cup {NoTask}]
      /\ mLastDispatchedTask'[n] = t
      /\ \A m \in Node : m # n => mLastDispatchedTask'[m] = mLastDispatchedTask[m]
  <2>1. mLastDispatchedTask \in [Node -> Task \cup {NoTask}]
    BY DEF TypeOK
  <2>2. QED
    BY <1>2, <1>3, <2>1
<1>6. /\ tasks' \in [Task -> [flow : Nat, node : Node \cup {0}, mIsAcceptTrigger : BOOLEAN,
                              mWaitingLockCount : Nat]]
      /\ tasks'[t] = new
      /\ \A u \in Task : u # t => tasks'[u] = tasks[u]
  <2>1. tasks \in [Task -> [flow : Nat, node : Node \cup {0}, mIsAcceptTrigger : BOOLEAN,
                            mWaitingLockCount : Nat]]
    BY DEF TypeOK
  <2>2. new \in [flow : Nat, node : Node \cup {0}, mIsAcceptTrigger : BOOLEAN,
                 mWaitingLockCount : Nat]
    BY DEF TypeOK
  <2> HIDE DEF new
  <2>3. QED
    BY <1>2, <1>3, <2>1, <2>2
<1>7. /\ stack' \in Seq([node : Node, task : Task, next : Nat])
      /\ Len(stack') = Len(stack) + 1
      /\ \A i \in 1..Len(stack) : stack'[i] = stack[i]
      /\ stack'[Len(stack) + 1] = frame
  <2>1. stack \in Seq([node : Node, task : Task, next : Nat])
    BY DEF TypeOK
  <2>2. frame \in [node : Node, task : Task, next : Nat]
    BY <1>2
  <2> HIDE DEF frame
  <2>3. QED
    BY <1>3, <2>1, <2>2, AppendFacts
<1>8. Top'.task = t /\ Top'.node = n
  BY <1>7 DEF Top
<1>9. /\ \A m \in Node : m # n => mLastDispatchedTask[m] # t
      /\ \A v \in Worker : t \notin Range(mDispatchedTasks[v])
  BY <1>8 DEF Fresh
<1>10. /\ tasks'[t].flow = workflowId /\ tasks'[t].node = n
       /\ tasks'[t].mIsAcceptTrigger = (n \in AlwaysAccept) /\ tasks'[t].mWaitingLockCount = 0
  BY <1>6
<1>11. stack'[Len(stack) + 1] = [node |-> n, task |-> t, next |-> 1]
  BY <1>7
<1> HIDE DEF new, frame
<1>12. HandedOut(n, t)
  BY <1>2, <1>4, <1>5, <1>6, <1>7, <1>9, <1>10, <1>11 DEF HandedOut
<1>13. QED
  BY <1>2, <1>12

(* Who is visited, and what is pending, after it.                          *)
LEMMA HandedOutView ==
  ASSUME DispatcherInv, NEW n \in Node, NEW t \in Task, ~IsDispatched(n), HandedOut(n, t),
         workflowId' = workflowId, mPendingTask' = mPendingTask
  PROVE  /\ n \notin Visited /\ Visited' = Visited \cup {n}
         /\ \A m \in Visited : /\ m # n /\ mLastDispatchedTask'[m] = mLastDispatchedTask[m]
                               /\ tasks'[mLastDispatchedTask[m]] = tasks[mLastDispatchedTask[m]]
         /\ \A k \in DOMAIN mPendingTask : NodeOf(mPendingTask[k])' = NodeOf(mPendingTask[k])
         /\ PassNodes' = PassNodes
         /\ PassNodes \subseteq Visited
<1>0. TypeOK /\ PendingInv
  BY DEF DispatcherInv
<1>1. n \notin Visited
  BY DEF Visited
<1>2. ASSUME NEW m \in Visited
      PROVE  /\ m \in Node /\ m # n /\ mLastDispatchedTask'[m] = mLastDispatchedTask[m]
             /\ tasks'[mLastDispatchedTask[m]] = tasks[mLastDispatchedTask[m]]
             /\ mLastDispatchedTask[m] # t
  <2>1. m # n /\ m \in Node /\ mLastDispatchedTask[m] \in Task
    BY <1>0, <1>1, TaskFacts DEF Visited
  <2>2. QED
    BY <2>1 DEF HandedOut
<1>3. ASSUME NEW m \in Node
      PROVE  m \in Visited' <=> m \in Visited \/ m = n
  <2>1. CASE m = n
    <3>1. t # NoTask /\ workflowId \in Nat
      BY <1>0, TaskFacts DEF TypeOK
    <3>2. mLastDispatchedTask'[n] = t /\ tasks'[t].flow = workflowId
      BY DEF HandedOut
    <3>3. QED
      BY <2>1, <3>1, <3>2 DEF Visited, IsDispatched
  <2>2. CASE m # n
    <3>1. mLastDispatchedTask'[m] = mLastDispatchedTask[m] /\ mLastDispatchedTask[m] # t
      BY <2>2 DEF HandedOut
    <3>2. mLastDispatchedTask[m] # NoTask => mLastDispatchedTask[m] \in Task
      BY <1>0, TaskFacts
    <3>3. mLastDispatchedTask[m] # NoTask =>
            tasks'[mLastDispatchedTask[m]] = tasks[mLastDispatchedTask[m]]
      BY <3>1, <3>2 DEF HandedOut
    <3>4. QED
      BY <2>2, <3>1, <3>3 DEF Visited, IsDispatched
  <2>3. QED
    BY <2>1, <2>2
<1>4. Visited' = Visited \cup {n}
  BY <1>3 DEF Visited
<1>5. ASSUME NEW k \in DOMAIN mPendingTask
      PROVE  /\ NodeOf(mPendingTask[k])' = NodeOf(mPendingTask[k])
             /\ NodeOf(mPendingTask[k]) \in Visited
  <2>1. /\ NodeOf(mPendingTask[k]) \in Visited
        /\ mLastDispatchedTask[NodeOf(mPendingTask[k])] = mPendingTask[k]
    BY <1>0 DEF PendingInv
  <2>2. tasks'[mPendingTask[k]] = tasks[mPendingTask[k]]
    BY <1>2, <2>1
  <2>3. QED
    BY <2>1, <2>2 DEF NodeOf
<1>6. PassNodes' = PassNodes
  <2>1. \A u \in Range(mPendingTask) : NodeOf(u)' = NodeOf(u)
    BY <1>5 DEF Range
  <2>2. Range(mPendingTask)' = Range(mPendingTask)
    OBVIOUS
  <2>3. QED
    BY <2>1, <2>2 DEF PassNodes
<1>7. PassNodes \subseteq Visited
  BY <1>0, <1>5, TaskFacts
<1>8. QED
  BY <1>1, <1>2, <1>4, <1>5, <1>6, <1>7

(* Reached and Precursors depend on the edges alone.                       *)
LEMMA SameEdges ==
  ASSUME successors' = successors
  PROVE  /\ \A s : Closed(s)' <=> Closed(s)
         /\ \A p : Precursors(p)' = Precursors(p)
         /\ Reached(raised)' = Reached(raised')
<1>1. \A s : Closed(s)' <=> Closed(s)
  BY DEF Closed
<1>2. \A p : Precursors(p)' = Precursors(p)
  BY DEF Precursors
<1>3. Reached(raised)' = Reached(raised')
  BY DEF Reached, Closed
<1>4. QED
  BY <1>1, <1>2, <1>3

LEMMA PrecursorFacts ==
  ASSUME TypeOK
  PROVE  \A n \in Node : /\ Precursors(n) \subseteq Node /\ IsFiniteSet(Precursors(n))
                         /\ \A p \in Node : p \in Precursors(n) <=>
                              \E j \in 1..Len(successors[p]) : successors[p][j] = n
                         /\ \A p \in Precursors(n) : p \in Nat /\ p < n
<1>1. TAKE n \in Node
<1>2. Precursors(n) \subseteq Node
  BY DEF Precursors
<1>3. IsFiniteSet(Precursors(n))
  BY <1>2, GraphFacts, FS_Subset
<1>4. \A p \in Node : p \in Precursors(n) <=> n \in Range(successors[p])
  BY DEF Precursors
<1>5. \A p \in Node : p \in Precursors(n) <=>
        \E j \in 1..Len(successors[p]) : successors[p][j] = n
  BY <1>4, GraphFacts
<1>6. \A p \in Precursors(n) : p \in Nat /\ p < n
  BY <1>2, <1>5, GraphFacts
<1>7. QED
  BY <1>2, <1>3, <1>5, <1>6

(* A node that is called for is larger than those whose calls are under    *)
(* way, and so not among them.                                             *)
LEMMA CalledFacts ==
  ASSUME TypeOK, StackInv, NEW n, Calls(n), stack # <<>>
  PROVE  /\ n \in Node /\ Top = stack[Len(stack)] /\ Len(stack) \in 1..Len(stack)
         /\ Top.node \in Node /\ n \in Range(successors[Top.node])
         /\ Top.next \in 1..Len(successors[Top.node])
         /\ \A i \in 1..Len(stack) : stack[i].node < n
<1>1. /\ Len(stack) \in Nat /\ Len(stack) \in 1..Len(stack) /\ DOMAIN stack = 1..Len(stack)
      /\ \A i \in 1..Len(stack) : stack[i].node \in Node
  BY StackFacts
<1>2. Top = stack[Len(stack)] /\ Top.node \in Node
  BY <1>1 DEF Top
<1>3. Top.next \in 1..(Len(successors[Top.node]) + 1)
  BY <1>1, <1>2 DEF StackInv
<1>4. Top.next \in 1..Len(successors[Top.node]) /\ n = successors[Top.node][Top.next]
  BY <1>2, <1>3, GraphFacts DEF Calls
<1>5. n \in Node /\ Top.node < n /\ n \in Range(successors[Top.node])
  <2>0. PICK x \in Node : x = Top.node
    BY <1>2
  <2>1. PICK j \in 1..Len(successors[x]) : n = successors[x][j]
    BY <1>4, <2>0
  <2>2. successors[x][j] \in Node /\ x < successors[x][j]
    BY GraphFacts
  <2>3. n \in Range(successors[x])
    BY <2>1, GraphFacts
  <2>4. QED
    BY <2>0, <2>1, <2>2, <2>3
<1>6. ASSUME NEW i \in 1..Len(stack)
      PROVE  stack[i].node < n
  <2>1. i = Len(stack) \/ i < Len(stack)
    <3>1. Len(stack) \in Nat /\ i \in 1..Len(stack)
      BY <1>1
    <3>2. QED
      BY ONLY <3>1
  <2>2. stack[i].node \in Nat /\ Top.node \in Nat /\ n \in Nat
    BY <1>1, <1>2, <1>5, GraphFacts
  <2>3. i < Len(stack) => stack[i].node < Top.node
    BY <1>1, <1>2 DEF StackInv
  <2>4. i = Len(stack) => stack[i].node = Top.node
    BY <1>2
  <2>5. QED
    BY <1>5, <2>1, <2>2, <2>3, <2>4
<1>7. QED
  BY <1>1, <1>2, <1>4, <1>5, <1>6

(* The calls under way, with the one that begins.                          *)
LEMMA StackGrows ==
  ASSUME TypeOK, NEW n, NEW t, HandedOut(n, t)
  PROVE  /\ Len(stack) \in Nat /\ DOMAIN stack = 1..Len(stack)
         /\ stack = <<>> <=> Len(stack) = 0
         /\ Len(stack') = Len(stack) + 1 /\ DOMAIN stack' = 1..(Len(stack) + 1)
         /\ \A i \in 1..Len(stack) : stack'[i] = stack[i]
         /\ stack'[Len(stack) + 1].node = n /\ stack'[Len(stack) + 1].task = t
         /\ stack'[Len(stack) + 1].next = 1
<1>1. /\ Len(stack) \in Nat /\ DOMAIN stack = 1..Len(stack)
      /\ stack = <<>> <=> Len(stack) = 0
  BY StackFacts
<1>2. /\ stack' \in Seq([node : Node, task : Task, next : Nat])
      /\ Len(stack') = Len(stack) + 1
      /\ \A i \in 1..Len(stack) : stack'[i] = stack[i]
      /\ stack'[Len(stack) + 1] = [node |-> n, task |-> t, next |-> 1]
  BY DEF HandedOut
<1>3. DOMAIN stack' = 1..Len(stack')
  BY <1>2, Members
<1>4. QED
  BY <1>1, <1>2, <1>3

LEMMA CreateKeepsStack ==
  ASSUME DispatcherInv, NEW n \in Node, NEW t \in Task, ~IsDispatched(n), HandedOut(n, t),
         Calls(n), UNCHANGED <<successors, workflowId, mPendingTask>>
  PROVE  StackInv'
<1> DEFINE L == Len(stack)
<1>0. TypeOK /\ StackInv
  BY DEF DispatcherInv
<1>1. /\ n \notin Visited /\ Visited' = Visited \cup {n}
      /\ \A m \in Visited : mLastDispatchedTask'[m] = mLastDispatchedTask[m]
      /\ PassNodes' = PassNodes /\ PassNodes \subseteq Visited
  BY HandedOutView
<1>2. /\ L \in Nat /\ DOMAIN stack = 1..L
      /\ \A i \in 1..L : stack[i].node \in Node
      /\ stack = <<>> <=> L = 0
  BY <1>0, StackFacts
<1>3. /\ Len(stack') = L + 1 /\ DOMAIN stack' = 1..(L + 1)
      /\ \A i \in 1..L : stack'[i] = stack[i]
      /\ stack'[L + 1].node = n /\ stack'[L + 1].task = t /\ stack'[L + 1].next = 1
      /\ mLastDispatchedTask'[n] = t
  BY <1>0, StackGrows DEF HandedOut
<1> HIDE DEF L
<1>4. \A i : i \in 1..(L + 1) <=> i \in 1..L \/ i = L + 1
  BY <1>2
<1>5. stack'[1].node \in raised'
  <2>1. CASE L = 0
    BY <1>2, <1>3, <2>1 DEF Calls
  <2>2. CASE L # 0
    <3>1. 1 \in 1..L /\ stack'[1] = stack[1]
      BY <1>2, <1>3, <2>2
    <3>2. stack[1].node \in raised /\ raised' = raised
      BY <1>0, <1>2, <2>2 DEF StackInv, Calls
    <3>3. QED
      BY <3>1, <3>2
  <2>3. QED
    BY <2>1, <2>2
<1>6. ASSUME NEW i \in 1..(L + 1)
      PROVE  /\ stack'[i].node \in Visited'
             /\ stack'[i].task = mLastDispatchedTask'[stack'[i].node]
             /\ stack'[i].next \in 1..(Len(successors[stack'[i].node]) + 1)
             /\ stack'[i].node \notin PassNodes
             /\ \A j \in 1..(stack'[i].next - 1) : successors[stack'[i].node][j] \in PassNodes
  <2>1. CASE i \in 1..L
    <3>1. /\ stack[i].node \in Visited /\ stack[i].task = mLastDispatchedTask[stack[i].node]
          /\ stack[i].next \in 1..(Len(successors[stack[i].node]) + 1)
          /\ stack[i].node \notin PassNodes
          /\ \A j \in 1..(stack[i].next - 1) : successors[stack[i].node][j] \in PassNodes
      BY <1>0, <1>2, <2>1 DEF StackInv, Visited
    <3>2. stack'[i] = stack[i]
      BY <1>3, <2>1
    <3>3. QED
      BY <1>1, <3>1, <3>2
  <2>2. CASE i = L + 1
    <3>1. Len(successors[n]) \in Nat
      BY <1>0, GraphFacts
    <3>2. \A j \in 1..(1 - 1) : successors[n][j] \in PassNodes
      OBVIOUS
    <3>3. 1 \in 1..(Len(successors[n]) + 1)
      BY <3>1
    <3>4. QED
      BY <1>1, <1>3, <2>2, <3>2, <3>3
  <2>3. QED
    BY <1>4, <2>1, <2>2
<1>7. ASSUME NEW i \in 1..L
      PROVE  /\ stack'[i].next <= Len(successors[stack'[i].node])
             /\ stack'[i + 1].node = successors[stack'[i].node][stack'[i].next]
  <2>1. CASE i = L
    <3>1. stack # <<>> /\ Top = stack[i]
      BY <1>2, <2>1 DEF Top, L
    <3>2. Top.next <= Len(successors[Top.node]) /\ n = successors[Top.node][Top.next]
      BY <3>1 DEF Calls
    <3>3. QED
      BY <1>3, <2>1, <3>1, <3>2
  <2>2. CASE i # L
    <3>1. i + 1 \in 1..L
      BY <1>2, <2>2
    <3>2. /\ stack[i].next <= Len(successors[stack[i].node])
          /\ stack[i + 1].node = successors[stack[i].node][stack[i].next]
      BY <1>0, <1>2, <3>1 DEF StackInv
    <3>3. QED
      BY <1>3, <3>1, <3>2
  <2>3. QED
    BY <2>1, <2>2
<1>8. ASSUME NEW i \in 1..(L + 1), NEW j \in 1..(L + 1), i < j
      PROVE  stack'[i].node < stack'[j].node
  <2>1. i \in 1..L
    BY <1>2, <1>8
  <2>2. CASE j = L + 1
    <3>1. stack # <<>>
      BY <1>2, <2>1
    <3>2. stack[i].node < n
      BY <1>0, <2>1, <3>1, CalledFacts DEF L
    <3>3. QED
      BY <1>3, <2>1, <2>2, <3>2
  <2>3. CASE j # L + 1
    <3>1. j \in 1..L
      BY <1>4, <2>3
    <3>2. QED
      BY <1>0, <1>2, <1>3, <1>8, <2>1, <3>1 DEF StackInv
  <2>4. QED
    BY <2>2, <2>3
<1>9. \A i \in 1..(L + 1) : i + 1 \in 1..(L + 1) => i \in 1..L
  BY <1>2
<1>10. \A i \in 1..(L + 1) : IsDispatched(stack[i].node)'
  BY <1>6 DEF Visited
<1>11. successors' = successors
  OBVIOUS
<1>12. QED
  BY <1>1, <1>3, <1>5, <1>6, <1>7, <1>8, <1>9, <1>10, <1>11 DEF StackInv

(* What creating a task leaves true of the rest of the state.              *)
LEMMA CreateKeepsPool ==
  ASSUME DispatcherInv, NEW n \in Node, NEW t \in Task, ~IsDispatched(n), HandedOut(n, t),
         workflowId' = workflowId
  PROVE  PoolInv'
<1>0. TypeOK /\ PoolInv
  BY DEF DispatcherInv
<1>1. ASSUME NEW m \in Node, mLastDispatchedTask'[m] # NoTask
      PROVE  NodeOf(mLastDispatchedTask[m])' = m
  <2>1. CASE m = n
    BY <2>1 DEF HandedOut, NodeOf
  <2>2. CASE m # n
    <3>1. mLastDispatchedTask'[m] = mLastDispatchedTask[m] /\ mLastDispatchedTask[m] # t
      BY <2>2 DEF HandedOut
    <3>2. mLastDispatchedTask[m] \in Task /\ NodeOf(mLastDispatchedTask[m]) = m
      BY <1>0, <1>1, <3>1, TaskFacts DEF PoolInv
    <3>3. tasks'[mLastDispatchedTask[m]] = tasks[mLastDispatchedTask[m]]
      BY <3>1, <3>2 DEF HandedOut
    <3>4. QED
      BY <3>1, <3>2, <3>3 DEF NodeOf
  <2>3. QED
    BY <2>1, <2>2
<1>2. ASSUME NEW u \in Task
      PROVE  tasks'[u].flow <= workflowId
  <2>1. workflowId \in Nat
    BY <1>0 DEF TypeOK
  <2>2. CASE u = t
    BY <2>1, <2>2 DEF HandedOut
  <2>3. CASE u # t
    BY <1>0, <2>3 DEF HandedOut, PoolInv
  <2>4. QED
    BY <2>2, <2>3
<1>3. QED
  BY <1>1, <1>2 DEF PoolInv

LEMMA CreateKeepsPending ==
  ASSUME DispatcherInv, NEW n \in Node, NEW t \in Task, ~IsDispatched(n), HandedOut(n, t),
         UNCHANGED <<successors, workflowId, mPendingTask>>
  PROVE  PendingInv'
<1>0. TypeOK /\ PendingInv
  BY DEF DispatcherInv
<1>1. /\ Visited' = Visited \cup {n} /\ PassNodes' = PassNodes
      /\ \A m \in Visited : mLastDispatchedTask'[m] = mLastDispatchedTask[m]
      /\ \A k \in DOMAIN mPendingTask : NodeOf(mPendingTask[k])' = NodeOf(mPendingTask[k])
  BY HandedOutView
<1>2. DOMAIN mPendingTask = 1..Len(mPendingTask) /\ Len(mPendingTask) \in Nat
  BY <1>0, TaskFacts
<1>3. ASSUME NEW k \in DOMAIN mPendingTask
      PROVE  /\ NodeOf(mPendingTask[k])' \in Visited'
             /\ mLastDispatchedTask'[NodeOf(mPendingTask[k])'] = mPendingTask[k]
             /\ \A m \in Range(successors[NodeOf(mPendingTask[k])']) :
                  \E j \in 1..(k - 1) : NodeOf(mPendingTask[j])' = m
  <2>1. /\ NodeOf(mPendingTask[k]) \in Visited
        /\ mLastDispatchedTask[NodeOf(mPendingTask[k])] = mPendingTask[k]
        /\ \A m \in Range(successors[NodeOf(mPendingTask[k])]) :
             \E j \in 1..(k - 1) : NodeOf(mPendingTask[j]) = m
    BY <1>0 DEF PendingInv
  <2>2. \A j \in 1..(k - 1) : j \in DOMAIN mPendingTask
    BY <1>2
  <2>3. QED
    BY <1>1, <2>1, <2>2
<1>4. \A j, k \in DOMAIN mPendingTask : mPendingTask[j] = mPendingTask[k] => j = k
  BY <1>0 DEF PendingInv
<1>5. Visited' \subseteq PassNodes' \cup OnStack'
  <2>1. Visited \subseteq PassNodes \cup OnStack
    BY <1>0 DEF PendingInv
  <2>2. /\ Len(stack) \in Nat /\ DOMAIN stack = 1..Len(stack)
        /\ DOMAIN stack' = 1..(Len(stack) + 1)
        /\ \A i \in 1..Len(stack) : stack'[i] = stack[i]
        /\ stack'[Len(stack) + 1].node = n
    BY <1>0, StackGrows
  <2>3. n \in OnStack'
    <3>1. Len(stack) + 1 \in DOMAIN stack'
      BY <2>2
    <3>2. QED
      BY <2>2, <3>1 DEF OnStack
  <2>4. OnStack \subseteq OnStack'
    <3>1. \A i \in DOMAIN stack : i \in DOMAIN stack' /\ stack'[i].node = stack[i].node
      BY <2>2
    <3>2. QED
      BY <3>1 DEF OnStack
  <2>5. QED
    BY <1>1, <2>1, <2>3, <2>4
<1>6. QED
  BY <1>3, <1>4, <1>5 DEF PendingInv

LEMMA CreateKeepsReach ==
  ASSUME DispatcherInv, NEW n \in Node, NEW t \in Task, ~IsDispatched(n), HandedOut(n, t),
         Calls(n), UNCHANGED <<successors, workflowId, mPendingTask>>
  PROVE  ReachInv'
<1>0. TypeOK /\ StackInv /\ ReachInv /\ raised \subseteq Node
  BY DEF DispatcherInv, TypeOK
<1>1. Visited' = Visited \cup {n}
  BY HandedOutView
<1>2. raised' \in SUBSET Node /\ raised \subseteq raised' /\ raised' \subseteq Visited'
  BY <1>0, <1>1 DEF Calls, ReachInv
<1>3. Visited \subseteq Reached(raised')
  BY <1>0, <1>2, ReachFacts DEF ReachInv
<1>4. n \in Reached(raised')
  <2>1. CASE stack = <<>>
    <3>1. n \in raised'
      BY <2>1 DEF Calls
    <3>2. QED
      BY <1>0, <1>2, <3>1, ReachFacts
  <2>2. CASE stack # <<>>
    <3>1. Top.node \in Visited /\ n \in Range(successors[Top.node])
      BY <1>0, <2>2, CalledFacts, StackFacts DEF StackInv, Visited
    <3>2. QED
      BY <1>0, <1>2, <1>3, <3>1, ReachFacts DEF Closed
  <2>3. QED
    BY <2>1, <2>2
<1>5. QED
  BY <1>1, <1>2, <1>3, <1>4, SameEdges DEF ReachInv

LEMMA CreateKeepsCount ==
  ASSUME DispatcherInv, NEW n \in Node, NEW t \in Task, ~IsDispatched(n), HandedOut(n, t),
         Calls(n), UNCHANGED <<successors, workflowId, mPendingTask>>
  PROVE  CountInv'
<1>0. TypeOK /\ StackInv /\ PendingInv /\ ReachInv /\ CountInv
  BY DEF DispatcherInv
<1>1. /\ n \notin Visited /\ Visited' = Visited \cup {n} /\ PassNodes' = PassNodes
      /\ PassNodes \subseteq Visited
      /\ \A m \in Visited : /\ m # n /\ mLastDispatchedTask'[m] = mLastDispatchedTask[m]
                            /\ tasks'[mLastDispatchedTask[m]] = tasks[mLastDispatchedTask[m]]
  BY HandedOutView
<1>2. /\ Len(stack) \in Nat /\ DOMAIN stack = 1..Len(stack)
      /\ stack = <<>> <=> Len(stack) = 0
      /\ DOMAIN stack' = 1..(Len(stack) + 1)
      /\ \A i \in 1..Len(stack) : stack'[i] = stack[i]
      /\ stack'[Len(stack) + 1].node = n /\ stack'[Len(stack) + 1].next = 1
  BY <1>0, StackGrows
<1>3. \A i : i \in 1..(Len(stack) + 1) <=> i \in 1..Len(stack) \/ i = Len(stack) + 1
  BY <1>2
<1>4. ASSUME NEW p \in Node, NEW m
      PROVE  PassedOn(p, m)' <=> PassedOn(p, m)
  <2> DEFINE By(s, i) == s[i].node = p /\ \E j \in 1..(s[i].next - 1) : successors[p][j] = m
  <2>1. \A i \in 1..Len(stack) : By(stack', i) <=> By(stack, i)
    BY <1>2
  <2>2. ~By(stack', Len(stack) + 1)
    BY <1>2
  <2>3. PassedOn(p, m) <=> p \in PassNodes \/ \E i \in 1..Len(stack) : By(stack, i)
    BY <1>2 DEF PassedOn
  <2>4. PassedOn(p, m)' <=> p \in PassNodes' \/ \E i \in 1..(Len(stack) + 1) : By(stack', i)
    BY <1>2 DEF PassedOn
  <2> HIDE DEF By
  <2>5. QED
    BY <1>1, <1>3, <2>1, <2>2, <2>3, <2>4
<1>5. ASSUME NEW m \in Node
      PROVE  {p \in Precursors(m) : PassedOn(p, m)}' = {p \in Precursors(m) : PassedOn(p, m)}
  <2>1. Precursors(m)' = Precursors(m) /\ Precursors(m) \subseteq Node
    BY <1>0, SameEdges, PrecursorFacts
  <2>2. QED
    BY <1>4, <2>1
<1>6. ASSUME NEW m \in Visited
      PROVE  /\ tasks'[mLastDispatchedTask'[m]].mWaitingLockCount =
                  Cardinality({p \in Precursors(m) : PassedOn(p, m)})'
             /\ tasks'[mLastDispatchedTask'[m]].mIsAcceptTrigger =
                  (m \in AlwaysAccept \/ (m \in raised' /\ (stack' = <<>> \/ stack'[1].node # m)))
  <2>1. m \in Node /\ m # n
    BY <1>0, <1>1, TaskFacts
  <2>2. tasks'[mLastDispatchedTask'[m]] = tasks[mLastDispatchedTask[m]]
    BY <1>1
  <2>3. m \in raised' <=> m \in raised
    BY <2>1 DEF Calls
  <2>4. (stack' = <<>> \/ stack'[1].node # m) <=> (stack = <<>> \/ stack[1].node # m)
    <3>1. stack' # <<>>
      BY <1>2
    <3>2. CASE stack = <<>>
      BY <1>2, <2>1, <3>1, <3>2
    <3>3. CASE stack # <<>>
      <4>1. 1 \in 1..Len(stack)
        BY <1>2, <3>3
      <4>2. QED
        BY <1>2, <3>1, <3>3, <4>1
    <3>4. QED
      BY <3>2, <3>3
  <2>5. /\ tasks[mLastDispatchedTask[m]].mWaitingLockCount =
             Cardinality({p \in Precursors(m) : PassedOn(p, m)})
        /\ tasks[mLastDispatchedTask[m]].mIsAcceptTrigger =
             (m \in AlwaysAccept \/ (m \in raised /\ (stack = <<>> \/ stack[1].node # m)))
    BY <1>0 DEF CountInv
  <2>6. QED
    BY <1>5, <2>1, <2>2, <2>3, <2>4, <2>5
<1>7. /\ tasks'[mLastDispatchedTask'[n]].mWaitingLockCount =
           Cardinality({p \in Precursors(n) : PassedOn(p, n)})'
      /\ tasks'[mLastDispatchedTask'[n]].mIsAcceptTrigger =
           (n \in AlwaysAccept \/ (n \in raised' /\ (stack' = <<>> \/ stack'[1].node # n)))
  <2>1. ASSUME NEW p \in Precursors(n), PassedOn(p, n)
        PROVE  FALSE
    <3>1. CASE p \in PassNodes
      <4>1. PICK k \in DOMAIN mPendingTask : NodeOf(mPendingTask[k]) = p
        BY <1>0, <3>1, TaskFacts
      <4>2. n \in Range(successors[p])
        BY DEF Precursors
      <4>3. PICK j \in 1..(k - 1) : NodeOf(mPendingTask[j]) = n
        BY <1>0, <4>1, <4>2 DEF PendingInv
      <4>4. j \in DOMAIN mPendingTask
        BY <1>0, TaskFacts
      <4>5. n \in PassNodes
        BY <1>0, <4>3, <4>4, TaskFacts
      <4>6. QED
        BY <1>1, <4>5
    <3>2. CASE p \notin PassNodes
      <4>1. PICK i \in DOMAIN stack : /\ stack[i].node = p
                                      /\ \E j \in 1..(stack[i].next - 1) : successors[p][j] = n
        BY <2>1, <3>2 DEF PassedOn
      <4>2. n \in PassNodes
        BY <1>0, <4>1 DEF StackInv
      <4>3. QED
        BY <1>1, <4>2
    <3>3. QED
      BY <3>1, <3>2
  <2>2. {p \in Precursors(n) : PassedOn(p, n)} = {}
    BY <2>1
  <2>3. Cardinality({p \in Precursors(n) : PassedOn(p, n)})' = 0
    BY <1>5, <2>2, FS_EmptySet
  <2>4. ~(n \in raised' /\ (stack' = <<>> \/ stack'[1].node # n))
    <3>1. CASE stack = <<>>
      BY <1>2, <3>1
    <3>2. CASE stack # <<>>
      <4>1. n \notin raised'
        BY <1>0, <1>1, <3>2 DEF Calls, ReachInv
      <4>2. QED
        BY <4>1
    <3>3. QED
      BY <3>1, <3>2
  <2>5. QED
    BY <2>3, <2>4 DEF HandedOut
<1>8. QED
  <2>1. ASSUME NEW m \in Visited'
        PROVE  /\ tasks'[mLastDispatchedTask'[m]].mWaitingLockCount =
                    Cardinality({p \in Precursors(m) : PassedOn(p, m)})'
               /\ tasks'[mLastDispatchedTask'[m]].mIsAcceptTrigger =
                    (m \in AlwaysAccept \/ (m \in raised' /\ (stack' = <<>> \/ stack'[1].node # m)))
    <3>1. CASE m = n
      BY <1>7, <3>1
    <3>2. CASE m # n
      BY <1>1, <1>6, <3>2
    <3>3. QED
      BY <3>1, <3>2
  <2>2. QED
    BY <2>1 DEF CountInv
-----------------------------------------------------------------------------
(* A call of VisitNode that ends.                                          *)

(* The call for n ends, and the caller goes on: the call at position l of  *)
(* the stack, or Run if l is 0.                                            *)
Ends(n, l) ==
  /\ n \in Visited /\ l \in Nat
  /\ \/ /\ l = Len(stack) /\ n \in PassNodes /\ mPendingTask' = mPendingTask
        /\ raised' = IF l = 0 THEN raised \cup {n} ELSE raised
     \/ /\ Len(stack) = l + 1 /\ n = stack[l + 1].node
        /\ stack[l + 1].next > Len(successors[n])
        /\ mPendingTask' = Append(mPendingTask, mLastDispatchedTask[n])
        /\ raised' = raised
  /\ l # 0 => /\ stack[l].next \in 1..Len(successors[stack[l].node])
              /\ n = successors[stack[l].node][stack[l].next]
  /\ stack' \in Seq([node : Node, task : Task, next : Nat]) /\ Len(stack') = l
  /\ \A i \in 1..l :
       /\ stack'[i].node = stack[i].node /\ stack'[i].task = stack[i].task
       /\ stack'[i].next = IF i = l THEN stack[i].next + 1 ELSE stack[i].next
  /\ mLastDispatchedTask' = mLastDispatchedTask
  /\ tasks' \in [Task -> [flow : Nat, node : Node \cup {0}, mIsAcceptTrigger : BOOLEAN,
                          mWaitingLockCount : Nat]]
  /\ \A u \in Task : tasks'[u].node = tasks[u].node /\ tasks'[u].flow = tasks[u].flow
  /\ \A u \in Task : u # mLastDispatchedTask[n] => tasks'[u] = tasks[u]
  /\ LET t == mLastDispatchedTask[n]
     IN  /\ tasks'[t].mIsAcceptTrigger = (tasks[t].mIsAcceptTrigger \/ l = 0)
         /\ tasks'[t].mWaitingLockCount =
              IF l = 0 THEN tasks[t].mWaitingLockCount ELSE tasks[t].mWaitingLockCount + 1

LEMMA TriggeredFacts ==
  ASSUME TypeOK, NEW t \in Task, NEW raise \in BOOLEAN,
         tasks' = [tasks EXCEPT ![t] = Triggered(@, raise)]
  PROVE  /\ tasks' \in [Task -> [flow : Nat, node : Node \cup {0}, mIsAcceptTrigger : BOOLEAN,
                                 mWaitingLockCount : Nat]]
         /\ \A u \in Task : tasks'[u].node = tasks[u].node /\ tasks'[u].flow = tasks[u].flow
         /\ \A u \in Task : u # t => tasks'[u] = tasks[u]
         /\ tasks'[t].mIsAcceptTrigger = (tasks[t].mIsAcceptTrigger \/ raise)
         /\ tasks'[t].mWaitingLockCount =
              IF raise THEN tasks[t].mWaitingLockCount ELSE tasks[t].mWaitingLockCount + 1
<1> DEFINE Pool == [flow : Nat, node : Node \cup {0}, mIsAcceptTrigger : BOOLEAN,
                    mWaitingLockCount : Nat]
           old == tasks[t]
           new == Triggered(old, raise)
<1>1. tasks \in [Task -> Pool] /\ old \in Pool
  BY DEF TypeOK
<1>2. /\ new \in Pool /\ new.node = old.node /\ new.flow = old.flow
      /\ new.mIsAcceptTrigger = (old.mIsAcceptTrigger \/ raise)
      /\ new.mWaitingLockCount =
           IF raise THEN old.mWaitingLockCount ELSE old.mWaitingLockCount + 1
  <2> HIDE DEF old
  <2>1. old.mIsAcceptTrigger \in BOOLEAN /\ old.mWaitingLockCount \in Nat
    BY <1>1
  <2>2. CASE raise
    BY <1>1, <2>1, <2>2 DEF Triggered
  <2>3. CASE ~raise
    BY <1>1, <2>1, <2>3 DEF Triggered
  <2>4. QED
    BY <2>2, <2>3
<1>3. tasks' = [tasks EXCEPT ![t] = new]
  OBVIOUS
<1> HIDE DEF Pool, new
<1>4. tasks' \in [Task -> Pool] /\ tasks'[t] = new /\ \A u \in Task : u # t => tasks'[u] = tasks[u]
  BY <1>1, <1>2, <1>3
<1>5. \A u \in Task : tasks'[u].node = tasks[u].node /\ tasks'[u].flow = tasks[u].flow
  BY <1>2, <1>4
<1>6. QED
  BY <1>2, <1>4, <1>5 DEF Pool

(* The iterator of the caller moves on.                                    *)
LEMMA ResumedFacts ==
  ASSUME NEW s \in Seq([node : Node, task : Task, next : Nat])
  PROVE  /\ Resumed(s) \in Seq([node : Node, task : Task, next : Nat])
         /\ Len(Resumed(s)) = Len(s)
         /\ \A i \in 1..Len(s) :
              /\ Resumed(s)[i].node = s[i].node /\ Resumed(s)[i].task = s[i].task
              /\ Resumed(s)[i].next = IF i = Len(s) THEN s[i].next + 1 ELSE s[i].next
<1> DEFINE Frame == [node : Node, task : Task, next : Nat]
<1>1. /\ Len(s) \in Nat /\ (s = <<>> <=> Len(s) = 0)
      /\ \A i \in 1..Len(s) : s[i] \in Frame
  BY Members
<1>2. CASE s = <<>>
  BY <1>1, <1>2 DEF Resumed
<1>3. CASE s # <<>>
  <2> DEFINE f == s[Len(s)]
             e == [f EXCEPT !.next = @ + 1]
  <2>1. Len(s) \in 1..Len(s) /\ f \in Frame
    BY <1>1, <1>3
  <2>2. e \in Frame /\ e.node = f.node /\ e.task = f.task /\ e.next = f.next + 1
    <3> HIDE DEF f
    <3>1. QED
      BY <2>1
  <2>3. Resumed(s) = [s EXCEPT ![Len(s)] = e]
    BY <1>3 DEF Resumed
  <2> HIDE DEF e, Frame
  <2>4. /\ Resumed(s) \in Seq(Frame) /\ Len(Resumed(s)) = Len(s)
        /\ \A j \in 1..Len(s) : Resumed(s)[j] = IF j = Len(s) THEN e ELSE s[j]
    <3>1. s \in Seq(Frame)
      BY DEF Frame
    <3>2. QED
      BY <2>1, <2>2, <2>3, <3>1, ExceptSeq
  <2>5. QED
    BY <2>2, <2>4 DEF Frame
<1>4. QED
  BY <1>2, <1>3

LEMMA MarkEnds ==
  ASSUME DispatcherInv, NEW n \in Node, Calls(n), IsDispatched(n),
         tasks' = [tasks EXCEPT ![mLastDispatchedTask[n]] = Triggered(@, stack = <<>>)],
         stack' = Resumed(stack), UNCHANGED <<mLastDispatchedTask, mPendingTask>>
  PROVE  Ends(n, Len(stack))
<1>0. TypeOK /\ StackInv /\ PendingInv
  BY DEF DispatcherInv
<1>1. n \in Visited /\ mLastDispatchedTask[n] \in Task
  <2>1. n \in Visited
    BY DEF Visited
  <2>2. QED
    BY <1>0, <2>1, TaskFacts
<1>2. /\ Len(stack) \in Nat /\ DOMAIN stack = 1..Len(stack) /\ (stack = <<>> <=> Len(stack) = 0)
  BY <1>0, StackFacts
<1>3. n \notin OnStack
  <2>1. CASE stack = <<>>
    BY <1>2, <2>1 DEF OnStack
  <2>2. CASE stack # <<>>
    <3>1. \A i \in 1..Len(stack) : stack[i].node < n /\ stack[i].node \in Nat
      BY <1>0, <2>2, CalledFacts, StackFacts, GraphFacts
    <3>2. QED
      BY <1>2, <3>1 DEF OnStack
  <2>3. QED
    BY <2>1, <2>2
<1>4. n \in PassNodes
  BY <1>0, <1>1, <1>3 DEF PendingInv
<1>5. Len(stack) # 0 => /\ Top = stack[Len(stack)]
                        /\ Top.next \in 1..Len(successors[Top.node])
                        /\ n = successors[Top.node][Top.next]
  BY <1>0, <1>2, CalledFacts DEF Calls
<1>6. raised' = IF Len(stack) = 0 THEN raised \cup {n} ELSE raised
  BY <1>2 DEF Calls
<1>7. stack \in Seq([node : Node, task : Task, next : Nat])
  BY <1>0 DEF TypeOK
<1>8. /\ stack' \in Seq([node : Node, task : Task, next : Nat]) /\ Len(stack') = Len(stack)
      /\ \A i \in 1..Len(stack) :
           /\ stack'[i].node = stack[i].node /\ stack'[i].task = stack[i].task
           /\ stack'[i].next = IF i = Len(stack) THEN stack[i].next + 1 ELSE stack[i].next
  BY <1>7, ResumedFacts
<1> DEFINE t == mLastDispatchedTask[n]
           raise == stack = <<>>
<1>9. /\ tasks' \in [Task -> [flow : Nat, node : Node \cup {0}, mIsAcceptTrigger : BOOLEAN,
                              mWaitingLockCount : Nat]]
      /\ \A u \in Task : tasks'[u].node = tasks[u].node /\ tasks'[u].flow = tasks[u].flow
      /\ \A u \in Task : u # t => tasks'[u] = tasks[u]
      /\ tasks'[t].mIsAcceptTrigger = (tasks[t].mIsAcceptTrigger \/ raise)
      /\ tasks'[t].mWaitingLockCount =
           IF raise THEN tasks[t].mWaitingLockCount ELSE tasks[t].mWaitingLockCount + 1
  <2>1. t \in Task /\ raise \in BOOLEAN /\ tasks' = [tasks EXCEPT ![t] = Triggered(@, raise)]
    BY <1>1
  <2> HIDE DEF t, raise
  <2>2. QED
    BY <1>0, <2>1, TriggeredFacts
<1>10. raise <=> Len(stack) = 0
  BY <1>2
<1> HIDE DEF raise
<1>11. /\ tasks'[t].mIsAcceptTrigger = (tasks[t].mIsAcceptTrigger \/ Len(stack) = 0)
       /\ tasks'[t].mWaitingLockCount =
            IF Len(stack) = 0 THEN tasks[t].mWaitingLockCount ELSE tasks[t].mWaitingLockCount + 1
  BY <1>9, <1>10
<1>12. QED
  BY <1>1, <1>2, <1>4, <1>5, <1>6, <1>8, <1>9, <1>11 DEF Ends

LEMMA ReturnEnds ==
  ASSUME DispatcherInv, Return
  PROVE  \E l \in Nat : Ends(Top.node, l)
<1>0. TypeOK /\ StackInv
  BY DEF DispatcherInv
<1>1. /\ Len(stack) \in Nat /\ DOMAIN stack = 1..Len(stack) /\ (stack = <<>> <=> Len(stack) = 0)
      /\ \A i \in 1..Len(stack) : stack[i].node \in Node /\ stack[i].next \in Nat
  BY <1>0, StackFacts
<1>2. stack # <<>>
  BY DEF Return
<1>3. PICK l \in Nat : Len(stack) = l + 1
  <2>1. Len(stack) \in Nat /\ Len(stack) # 0
    BY <1>1, <1>2
  <2>2. QED
    BY ONLY <2>1
<1> DEFINE n == Top.node
           t == mLastDispatchedTask[n]
           raise == Len(stack) = 1
<1>4. l + 1 \in 1..Len(stack) /\ Top = stack[l + 1] /\ n \in Node
  BY <1>1, <1>3 DEF Top
<1>5. n \in Visited /\ Top.task = t
  BY <1>0, <1>1, <1>4 DEF StackInv, Visited
<1>6. t \in Task
  BY <1>0, <1>5, TaskFacts
<1>7. l # 0 => /\ stack[l].next \in 1..Len(successors[stack[l].node])
               /\ n = successors[stack[l].node][stack[l].next]
  <2>1. SUFFICES ASSUME l # 0
                 PROVE  /\ stack[l].next \in 1..Len(successors[stack[l].node])
                        /\ n = successors[stack[l].node][stack[l].next]
    OBVIOUS
  <2>2. l \in DOMAIN stack /\ l + 1 \in DOMAIN stack
    BY <1>1, <1>3, <2>1
  <2>3. /\ stack[l].next <= Len(successors[stack[l].node])
        /\ stack[l + 1].node = successors[stack[l].node][stack[l].next]
        /\ stack[l].next \in 1..(Len(successors[stack[l].node]) + 1)
    BY <1>0, <2>2 DEF StackInv
  <2>4. Len(successors[stack[l].node]) \in Nat
    BY <1>0, <1>1, <2>2, GraphFacts
  <2>5. QED
    BY <1>4, <2>3, <2>4
<1>8. stack \in Seq([node : Node, task : Task, next : Nat])
  BY <1>0 DEF TypeOK
<1>9. /\ Front(stack) \in Seq([node : Node, task : Task, next : Nat])
      /\ Len(Front(stack)) = l
      /\ \A i \in 1..l : Front(stack)[i] = stack[i]
  <2>1. /\ Front(stack) \in Seq([node : Node, task : Task, next : Nat])
        /\ Len(stack) = Len(Front(stack)) + 1
        /\ \A i \in 1..Len(Front(stack)) : Front(stack)[i] = stack[i]
    BY <1>2, <1>8, FrontFacts
  <2>2. Len(Front(stack)) \in Nat
    BY <2>1, LenProperties
  <2>3. Len(Front(stack)) = l
    BY <1>3, <2>1, <2>2
  <2>4. QED
    BY <2>1, <2>3
<1>10. stack' = Resumed(Front(stack))
  BY DEF Return
<1>11. /\ stack' \in Seq([node : Node, task : Task, next : Nat]) /\ Len(stack') = l
       /\ \A i \in 1..l :
            /\ stack'[i].node = stack[i].node /\ stack'[i].task = stack[i].task
            /\ stack'[i].next = IF i = l THEN stack[i].next + 1 ELSE stack[i].next
  <2> DEFINE s == Front(stack)
  <2>1. /\ s \in Seq([node : Node, task : Task, next : Nat]) /\ Len(s) = l
        /\ \A i \in 1..l : s[i] = stack[i]
    BY <1>9
  <2>2. stack' = Resumed(s)
    BY <1>10
  <2> HIDE DEF s
  <2>3. /\ Resumed(s) \in Seq([node : Node, task : Task, next : Nat])
        /\ Len(Resumed(s)) = Len(s)
        /\ \A i \in 1..Len(s) :
             /\ Resumed(s)[i].node = s[i].node /\ Resumed(s)[i].task = s[i].task
             /\ Resumed(s)[i].next = IF i = Len(s) THEN s[i].next + 1 ELSE s[i].next
    BY <2>1, ResumedFacts
  <2>4. QED
    BY <2>1, <2>2, <2>3
<1>12. /\ tasks' \in [Task -> [flow : Nat, node : Node \cup {0}, mIsAcceptTrigger : BOOLEAN,
                               mWaitingLockCount : Nat]]
       /\ \A u \in Task : tasks'[u].node = tasks[u].node /\ tasks'[u].flow = tasks[u].flow
       /\ \A u \in Task : u # t => tasks'[u] = tasks[u]
       /\ tasks'[t].mIsAcceptTrigger = (tasks[t].mIsAcceptTrigger \/ raise)
       /\ tasks'[t].mWaitingLockCount =
            IF raise THEN tasks[t].mWaitingLockCount ELSE tasks[t].mWaitingLockCount + 1
  <2>1. t \in Task /\ raise \in BOOLEAN /\ tasks' = [tasks EXCEPT ![t] = Triggered(@, raise)]
    BY <1>5, <1>6 DEF Return
  <2> HIDE DEF t, raise
  <2>2. QED
    BY <1>0, <2>1, TriggeredFacts
<1>13. raise <=> l = 0
  BY <1>3
<1> HIDE DEF raise
<1>14. /\ tasks'[t].mIsAcceptTrigger = (tasks[t].mIsAcceptTrigger \/ l = 0)
       /\ tasks'[t].mWaitingLockCount =
            IF l = 0 THEN tasks[t].mWaitingLockCount ELSE tasks[t].mWaitingLockCount + 1
  BY <1>12, <1>13
<1>15. /\ stack[l + 1].next > Len(successors[n])
       /\ mPendingTask' = Append(mPendingTask, t)
       /\ UNCHANGED <<mLastDispatchedTask, raised>>
  BY <1>4, <1>5 DEF Return
<1>16. Ends(n, l)
  BY <1>3, <1>4, <1>5, <1>7, <1>11, <1>12, <1>14, <1>15 DEF Ends
<1>17. QED
  BY <1>16

(* The caller's frame after the call, and those below it.                  *)
LEMMA EndsFrames ==
  ASSUME TypeOK, StackInv, NEW n, NEW l, Ends(n, l)
  PROVE  /\ n \in Node /\ l \in Nat /\ Len(stack) \in Nat
         /\ DOMAIN stack = 1..Len(stack) /\ DOMAIN stack' = 1..l
         /\ stack = <<>> <=> Len(stack) = 0
         /\ stack' = <<>> <=> l = 0
         /\ \A i \in 1..l : i \in 1..Len(stack) /\ stack[i].node \in Node /\ stack[i].next \in Nat
         /\ \A i \in 1..l : stack[i].node < n \/ n \in PassNodes
         /\ Len(stack) = l \/ (Len(stack) = l + 1 /\ l + 1 \in 1..Len(stack) /\ n = stack[l + 1].node)
         /\ \A i : i \in 1..Len(stack) => i \in 1..l \/ (i = l + 1 /\ Len(stack) = l + 1)
         /\ l # l + 1 /\ (l # 0 => l \in 1..l) /\ \A i \in 1..l : i # l => i < l
<1>1. l \in Nat /\ (Len(stack) = l \/ (Len(stack) = l + 1 /\ n = stack[l + 1].node))
  BY DEF Ends
<1>2. /\ Len(stack) \in Nat /\ DOMAIN stack = 1..Len(stack)
      /\ stack = <<>> <=> Len(stack) = 0
      /\ \A i \in 1..Len(stack) : stack[i].node \in Node /\ stack[i].next \in Nat
  BY StackFacts
<1>3. stack' \in Seq([node : Node, task : Task, next : Nat]) /\ Len(stack') = l
  BY DEF Ends
<1>4. DOMAIN stack' = 1..l /\ (stack' = <<>> <=> l = 0)
  <2>1. DOMAIN stack' = 1..Len(stack')
    BY <1>3, Members
  <2>2. stack' = <<>> <=> Len(stack') = 0
    BY <1>3, Members
  <2>3. QED
    BY <1>3, <2>1, <2>2
<1>5. \A i \in 1..l : i \in 1..Len(stack)
  <2>1. l \in Nat /\ Len(stack) \in Nat /\ (Len(stack) = l \/ Len(stack) = l + 1)
    BY <1>1, <1>2
  <2>2. QED
    BY ONLY <2>1
<1>6. n \in Node
  BY TaskFacts DEF Ends
<1>7. ASSUME NEW i \in 1..l
      PROVE  stack[i].node < n \/ n \in PassNodes
  <2>1. CASE Len(stack) = l
    <3>1. l # l + 1
      BY <1>1
    <3>2. n \in PassNodes
      BY <2>1, <3>1 DEF Ends
    <3>3. QED
      BY <3>2
  <2>2. CASE Len(stack) = l + 1
    <3>1. l + 1 \in 1..Len(stack) /\ i \in 1..Len(stack) /\ i < l + 1
      BY <1>1, <2>2
    <3>2. stack[i].node < stack[l + 1].node
      BY <1>2, <3>1 DEF StackInv
    <3>3. l # l + 1
      BY <1>1
    <3>4. n = stack[l + 1].node
      BY <1>1, <2>2, <3>3
    <3>5. QED
      BY <3>2, <3>4
  <2>3. QED
    BY <1>1, <2>1, <2>2
<1>8. Len(stack) = l + 1 => l + 1 \in 1..Len(stack)
  BY <1>1
<1>9. \A i : i \in 1..Len(stack) => i \in 1..l \/ (i = l + 1 /\ Len(stack) = l + 1)
  <2>1. CASE Len(stack) = l
    BY <2>1
  <2>2. CASE Len(stack) = l + 1
    BY <1>1, <2>2
  <2>3. QED
    BY <1>1, <2>1, <2>2
<1>10. l # l + 1 /\ (l # 0 => l \in 1..l) /\ \A i \in 1..l : i # l => i < l
  <2>1. l \in Nat
    BY <1>1
  <2>2. QED
    BY ONLY <2>1
<1>11. QED
  BY <1>1, <1>2, <1>4, <1>5, <1>6, <1>7, <1>8, <1>9, <1>10

LEMMA EndsView ==
  ASSUME DispatcherInv, NEW n, NEW l, Ends(n, l), workflowId' = workflowId
  PROVE  /\ Visited' = Visited
         /\ \A u \in Task : NodeOf(u)' = NodeOf(u)
         /\ PassNodes' = PassNodes \cup {n}
         /\ raised \subseteq raised' /\ raised' \subseteq raised \cup {n}
<1>0. TypeOK /\ PoolInv
  BY DEF DispatcherInv
<1>1. \A u \in Task : NodeOf(u)' = NodeOf(u)
  BY DEF Ends, NodeOf
<1>2. Visited' = Visited
  <2>1. \A m \in Node : mLastDispatchedTask[m] # NoTask => mLastDispatchedTask[m] \in Task
    BY <1>0, TaskFacts
  <2>2. \A m \in Node : mLastDispatchedTask[m] # NoTask =>
          tasks'[mLastDispatchedTask[m]].flow = tasks[mLastDispatchedTask[m]].flow
    BY <2>1 DEF Ends
  <2>3. mLastDispatchedTask' = mLastDispatchedTask
    BY DEF Ends
  <2>4. QED
    BY <2>2, <2>3 DEF Visited, IsDispatched
<1>3. mPendingTask \in Seq(Task) /\ \A u \in Range(mPendingTask) : u \in Task
  <2>1. mPendingTask \in Seq(Task)
    BY <1>0 DEF TypeOK
  <2>2. QED
    BY <2>1, Members
<1>4. PassNodes' = PassNodes \cup {n}
  <2>1. CASE n \in PassNodes /\ mPendingTask' = mPendingTask
    <3>1. Range(mPendingTask)' = Range(mPendingTask)
      BY <2>1
    <3>2. PassNodes' = PassNodes
      BY <1>1, <1>3, <3>1 DEF PassNodes
    <3>3. QED
      BY <2>1, <3>2
  <2>2. CASE mPendingTask' = Append(mPendingTask, mLastDispatchedTask[n])
    <3>1. n \in Node /\ mLastDispatchedTask[n] \in Task /\ mLastDispatchedTask[n] # NoTask
      BY <1>0, TaskFacts DEF Ends
    <3>2. Range(mPendingTask)' = Range(mPendingTask) \cup {mLastDispatchedTask[n]}
      BY <1>3, <2>2, <3>1, AppendFacts
    <3>3. tasks'[mLastDispatchedTask[n]].node = n
      BY <1>0, <1>1, <3>1 DEF PoolInv, NodeOf
    <3>4. /\ PassNodes = {tasks[u].node : u \in Range(mPendingTask)}
          /\ PassNodes' = {tasks'[u].node : u \in Range(mPendingTask)'}
      BY DEF PassNodes, NodeOf
    <3>5. \A u \in Range(mPendingTask) : tasks'[u].node = tasks[u].node
      BY <1>1, <1>3 DEF NodeOf
    <3>6. QED
      BY <3>2, <3>3, <3>4, <3>5
  <2>3. QED
    BY <2>1, <2>2 DEF Ends
<1>5. raised \subseteq raised' /\ raised' \subseteq raised \cup {n}
  BY DEF Ends
<1>6. QED
  BY <1>1, <1>2, <1>4, <1>5

LEMMA EndsKeepsPool ==
  ASSUME DispatcherInv, NEW n, NEW l, Ends(n, l), workflowId' = workflowId
  PROVE  PoolInv'
<1>0. TypeOK /\ PoolInv
  BY DEF DispatcherInv
<1>1. \A u \in Task : NodeOf(u)' = NodeOf(u) /\ tasks'[u].flow = tasks[u].flow
  BY DEF Ends, NodeOf
<1>2. mLastDispatchedTask' = mLastDispatchedTask
  BY DEF Ends
<1>3. ASSUME NEW m \in Node, mLastDispatchedTask[m] # NoTask
      PROVE  NodeOf(mLastDispatchedTask[m])' = m
  <2>1. mLastDispatchedTask[m] \in Task /\ NodeOf(mLastDispatchedTask[m]) = m
    BY <1>0, <1>3, TaskFacts DEF PoolInv
  <2>2. QED
    BY <1>1, <1>2, <2>1 DEF NodeOf
<1>4. \A u \in Task : tasks'[u].flow <= workflowId
  BY <1>0, <1>1 DEF PoolInv
<1>5. QED
  BY <1>2, <1>3, <1>4 DEF PoolInv

LEMMA EndsKeepsReach ==
  ASSUME DispatcherInv, NEW n, NEW l, Ends(n, l), UNCHANGED <<successors, workflowId>>
  PROVE  ReachInv'
<1>0. TypeOK /\ ReachInv /\ raised \subseteq Node
  BY DEF DispatcherInv, TypeOK
<1>1. Visited' = Visited /\ raised \subseteq raised' /\ raised' \subseteq raised \cup {n}
  BY EndsView
<1>2. n \in Visited /\ Visited \subseteq Node
  BY <1>0, TaskFacts DEF Ends
<1>3. raised' \subseteq Visited /\ raised' \in SUBSET Node
  BY <1>0, <1>1, <1>2 DEF ReachInv
<1>4. Visited \subseteq Reached(raised')
  BY <1>0, <1>1, <1>3, ReachFacts DEF ReachInv
<1>5. QED
  BY <1>1, <1>3, <1>4, SameEdges DEF ReachInv

LEMMA EndsKeepsStack ==
  ASSUME DispatcherInv, NEW n, NEW l, Ends(n, l), UNCHANGED <<successors, workflowId>>
  PROVE  StackInv'
<1>0. TypeOK /\ StackInv
  BY DEF DispatcherInv
<1>1. /\ Visited' = Visited /\ PassNodes' = PassNodes \cup {n} /\ raised \subseteq raised'
  BY EndsView
<1>2. /\ n \in Node /\ l \in Nat /\ DOMAIN stack = 1..Len(stack) /\ DOMAIN stack' = 1..l
      /\ stack = <<>> <=> Len(stack) = 0
      /\ stack' = <<>> <=> l = 0
      /\ \A i \in 1..l : i \in 1..Len(stack) /\ stack[i].node \in Node /\ stack[i].next \in Nat
      /\ \A i \in 1..l : stack[i].node < n \/ n \in PassNodes
  BY <1>0, EndsFrames
<1>3. \A i \in 1..l :
        /\ stack'[i].node = stack[i].node /\ stack'[i].task = stack[i].task
        /\ stack'[i].next = IF i = l THEN stack[i].next + 1 ELSE stack[i].next
  BY DEF Ends
<1>4. mLastDispatchedTask' = mLastDispatchedTask
  BY DEF Ends
<1>5. stack' # <<>> => stack'[1].node \in raised'
  <2>1. SUFFICES ASSUME stack' # <<>>
                 PROVE  stack'[1].node \in raised'
    OBVIOUS
  <2>2. 1 \in 1..l
    BY <1>2, <2>1
  <2>3. stack # <<>> /\ stack'[1].node = stack[1].node
    BY <1>2, <1>3, <2>2
  <2>4. QED
    BY <1>0, <1>1, <2>3 DEF StackInv
<1>6. ASSUME NEW i \in 1..l
      PROVE  /\ stack'[i].node \in Visited'
             /\ stack'[i].task = mLastDispatchedTask'[stack'[i].node]
             /\ stack'[i].next \in 1..(Len(successors[stack'[i].node]) + 1)
             /\ stack'[i].node \notin PassNodes'
             /\ \A j \in 1..(stack'[i].next - 1) : successors[stack'[i].node][j] \in PassNodes'
  <2>1. /\ stack[i].node \in Visited /\ stack[i].task = mLastDispatchedTask[stack[i].node]
        /\ stack[i].next \in 1..(Len(successors[stack[i].node]) + 1)
        /\ stack[i].node \notin PassNodes
        /\ \A j \in 1..(stack[i].next - 1) : successors[stack[i].node][j] \in PassNodes
    BY <1>0, <1>2 DEF StackInv, Visited
  <2>2. stack[i].node # n
    BY <1>0, <1>2, <2>1, GraphFacts
  <2>3. /\ stack'[i].next \in 1..(Len(successors[stack[i].node]) + 1)
        /\ \A j \in 1..(stack'[i].next - 1) :
             successors[stack[i].node][j] \in PassNodes \cup {n}
    <3>1. CASE i = l
      <4>1. /\ stack[i].next \in 1..Len(successors[stack[i].node])
            /\ n = successors[stack[i].node][stack[i].next]
        BY <3>1, <1>2 DEF Ends
      <4>2. stack'[i].next = stack[i].next + 1
        BY <1>3, <3>1
      <4>3. Len(successors[stack[i].node]) \in Nat /\ stack[i].next \in Nat
        BY <1>0, <1>2, GraphFacts
      <4>4. \A j \in 1..(stack'[i].next - 1) : j \in 1..(stack[i].next - 1) \/ j = stack[i].next
        BY <4>2, <4>3
      <4>5. stack'[i].next \in 1..(Len(successors[stack[i].node]) + 1)
        BY <4>1, <4>2, <4>3
      <4>6. QED
        BY <2>1, <4>1, <4>4, <4>5
    <3>2. CASE i # l
      BY <1>3, <2>1, <3>2
    <3>3. QED
      BY <3>1, <3>2
  <2>4. stack'[i].node = stack[i].node /\ stack'[i].task = stack[i].task
    BY <1>3
  <2>5. QED
    BY <1>1, <1>4, <2>1, <2>2, <2>3, <2>4
<1>7. ASSUME NEW i \in 1..l, i + 1 \in 1..l
      PROVE  /\ stack'[i].next <= Len(successors[stack'[i].node])
             /\ stack'[i + 1].node = successors[stack'[i].node][stack'[i].next]
  <2>1. i # l
    BY <1>2, <1>7
  <2>2. /\ stack[i].next <= Len(successors[stack[i].node])
        /\ stack[i + 1].node = successors[stack[i].node][stack[i].next]
    BY <1>0, <1>2, <1>7 DEF StackInv
  <2>3. QED
    BY <1>3, <1>7, <2>1, <2>2
<1>8. ASSUME NEW i \in 1..l, NEW j \in 1..l, i < j
      PROVE  stack'[i].node < stack'[j].node
  <2>1. stack[i].node < stack[j].node
    BY <1>0, <1>2, <1>8 DEF StackInv
  <2>2. QED
    BY <1>3, <2>1
<1>9. \A i \in 1..l : IsDispatched(stack[i].node)'
  BY <1>6 DEF Visited
<1>10. successors' = successors
  OBVIOUS
<1>11. QED
  BY <1>2, <1>5, <1>6, <1>7, <1>8, <1>9, <1>10 DEF StackInv

LEMMA EndsKeepsPending ==
  ASSUME DispatcherInv, NEW n, NEW l, Ends(n, l), UNCHANGED <<successors, workflowId>>
  PROVE  PendingInv'
<1>0. TypeOK /\ PoolInv /\ StackInv /\ PendingInv
  BY DEF DispatcherInv
<1>1. /\ Visited' = Visited /\ PassNodes' = PassNodes \cup {n}
      /\ \A u \in Task : NodeOf(u)' = NodeOf(u)
  BY EndsView
<1>2. /\ n \in Node /\ l \in Nat /\ DOMAIN stack = 1..Len(stack) /\ DOMAIN stack' = 1..l
      /\ \A i : i \in 1..Len(stack) => i \in 1..l \/ (i = l + 1 /\ Len(stack) = l + 1)
      /\ l # l + 1
  BY <1>0, EndsFrames
<1>3. mLastDispatchedTask' = mLastDispatchedTask /\ \A i \in 1..l : stack'[i].node = stack[i].node
  BY DEF Ends
<1>4. /\ DOMAIN mPendingTask = 1..Len(mPendingTask) /\ Len(mPendingTask) \in Nat
      /\ \A k \in DOMAIN mPendingTask : mPendingTask[k] \in Task
      /\ mPendingTask \in Seq(Task)
  BY <1>0, TaskFacts DEF TypeOK
<1>5. /\ n \in Visited /\ mLastDispatchedTask[n] \in Task /\ mLastDispatchedTask[n] # NoTask
      /\ NodeOf(mLastDispatchedTask[n]) = n
  <2>1. n \in Visited /\ n \in Node /\ mLastDispatchedTask[n] \in Task
    BY <1>0, TaskFacts DEF Ends
  <2>2. mLastDispatchedTask[n] # NoTask
    BY <2>1, <1>0, TaskFacts
  <2>3. QED
    BY <1>0, <2>1, <2>2 DEF PoolInv
<1>6. Visited' \subseteq PassNodes' \cup OnStack'
  <2>1. ASSUME NEW m \in OnStack
        PROVE  m \in OnStack' \cup {n} \cup PassNodes
    <3>1. PICK i \in 1..Len(stack) : m = stack[i].node
      BY <1>2 DEF OnStack
    <3>2. CASE i \in 1..l
      BY <1>2, <1>3, <3>1, <3>2 DEF OnStack
    <3>3. CASE i = l + 1 /\ Len(stack) = l + 1
      <4>1. l # l + 1
        BY <1>2
      <4>2. m = n
        BY <3>1, <3>3, <4>1 DEF Ends
      <4>3. QED
        BY <4>2
    <3>4. QED
      BY <1>2, <3>2, <3>3
  <2>2. QED
    BY <1>0, <1>1, <2>1 DEF PendingInv
<1>7. CASE mPendingTask' = mPendingTask
  <2>1. ASSUME NEW k \in DOMAIN mPendingTask
        PROVE  /\ NodeOf(mPendingTask[k])' \in Visited'
               /\ mLastDispatchedTask[NodeOf(mPendingTask[k])'] = mPendingTask[k]
               /\ \A m \in Range(successors[NodeOf(mPendingTask[k])']) :
                    \E j \in 1..(k - 1) : NodeOf(mPendingTask[j])' = m
    <3>1. /\ NodeOf(mPendingTask[k]) \in Visited
          /\ mLastDispatchedTask[NodeOf(mPendingTask[k])] = mPendingTask[k]
          /\ \A m \in Range(successors[NodeOf(mPendingTask[k])]) :
               \E j \in 1..(k - 1) : NodeOf(mPendingTask[j]) = m
      BY <1>0 DEF PendingInv
    <3>2. \A j \in DOMAIN mPendingTask : NodeOf(mPendingTask[j])' = NodeOf(mPendingTask[j])
      BY <1>4, <1>7, <1>1 DEF NodeOf
    <3>3. \A j \in 1..(k - 1) : j \in DOMAIN mPendingTask
      BY <1>4
    <3>4. QED
      BY <1>1, <3>1, <3>2, <3>3
  <2>2. \A j, k \in DOMAIN mPendingTask : mPendingTask[j] = mPendingTask[k] => j = k
    BY <1>0 DEF PendingInv
  <2>3. QED
    BY <1>3, <1>6, <1>7, <2>1, <2>2 DEF PendingInv
<1>8. CASE mPendingTask' # mPendingTask
  <2> DEFINE q == mPendingTask'
             t == mLastDispatchedTask[n]
             N == Len(mPendingTask)
  <2>1. /\ Len(stack) = l + 1 /\ n = stack[l + 1].node
        /\ stack[l + 1].next > Len(successors[n]) /\ q = Append(mPendingTask, t)
    BY <1>8 DEF Ends
  <2>2. /\ Len(q) = N + 1 /\ DOMAIN q = 1..(N + 1) /\ q[N + 1] = t
        /\ \A k \in 1..N : q[k] = mPendingTask[k]
    <3>1. /\ q \in Seq(Task) /\ Len(q) = N + 1 /\ q[N + 1] = t
          /\ \A k \in 1..N : q[k] = mPendingTask[k]
      BY <1>4, <1>5, <2>1, AppendFacts
    <3>2. DOMAIN q = 1..Len(q)
      BY <3>1, Members
    <3>3. QED
      BY <3>1, <3>2
  <2>3. n \notin PassNodes
    <3>1. l + 1 \in DOMAIN stack
      BY <1>2, <2>1
    <3>2. QED
      BY <1>0, <2>1, <3>1 DEF StackInv
  <2>4. ASSUME NEW m \in Range(successors[n])
        PROVE  \E j \in 1..N : tasks'[q[j]].node = m
    <3>1. PICK i \in 1..Len(successors[n]) : successors[n][i] = m
      BY <1>0, <1>2, GraphFacts
    <3>2. l + 1 \in DOMAIN stack
      BY <1>2, <2>1
    <3>3. i \in 1..(stack[l + 1].next - 1)
      <4>1. stack[l + 1].next \in Nat /\ Len(successors[n]) \in Nat
        BY <1>0, <1>2, <3>2, StackFacts, GraphFacts
      <4>2. QED
        BY <2>1, <4>1
    <3>4. m \in PassNodes
      BY <1>0, <2>1, <3>1, <3>2, <3>3 DEF StackInv
    <3>5. PICK j \in DOMAIN mPendingTask : NodeOf(mPendingTask[j]) = m
      BY <1>0, <3>4, TaskFacts
    <3>6. j \in 1..N /\ q[j] = mPendingTask[j] /\ mPendingTask[j] \in Task
      BY <1>4, <2>2
    <3>7. tasks'[q[j]].node = m
      BY <1>1, <3>5, <3>6 DEF NodeOf
    <3>8. QED
      BY <3>6, <3>7
  <2>5. ASSUME NEW k \in 1..N
        PROVE  /\ tasks'[q[k]].node \in Visited
               /\ mLastDispatchedTask[tasks'[q[k]].node] = q[k]
               /\ \A m \in Range(successors[tasks'[q[k]].node]) :
                    \E j \in 1..(k - 1) : tasks'[q[j]].node = m
               /\ q[k] # t
    <3>1. k \in DOMAIN mPendingTask
      BY <1>4
    <3>2. /\ NodeOf(mPendingTask[k]) \in Visited
          /\ mLastDispatchedTask[NodeOf(mPendingTask[k])] = mPendingTask[k]
          /\ \A m \in Range(successors[NodeOf(mPendingTask[k])]) :
               \E j \in 1..(k - 1) : NodeOf(mPendingTask[j]) = m
      BY <1>0, <3>1 DEF PendingInv
    <3>3. \A j \in 1..N : tasks'[q[j]].node = NodeOf(mPendingTask[j])
      <4>1. \A u \in Task : tasks'[u].node = NodeOf(u)
        BY <1>1 DEF NodeOf
      <4>2. QED
        BY <1>4, <2>2, <4>1
    <3>4. \A j \in 1..(k - 1) : j \in 1..N
      BY <1>4
    <3>5. q[k] # t
      <4>1. NodeOf(mPendingTask[k]) \in PassNodes
        BY <1>0, <3>1, TaskFacts
      <4>2. QED
        BY <1>5, <2>2, <2>3, <4>1
    <3>6. QED
      BY <2>2, <3>2, <3>3, <3>4, <3>5
  <2>6. tasks'[q[N + 1]].node = n
    BY <1>1, <1>5, <2>2 DEF NodeOf
  <2>7. \A k : k \in DOMAIN q <=> k \in 1..N \/ k = N + 1
    BY <1>4, <2>2
  <2>8. ASSUME NEW k \in DOMAIN q
        PROVE  /\ tasks'[q[k]].node \in Visited'
               /\ mLastDispatchedTask[tasks'[q[k]].node] = q[k]
               /\ \A m \in Range(successors[tasks'[q[k]].node]) :
                    \E j \in 1..(k - 1) : tasks'[q[j]].node = m
    <3>1. CASE k \in 1..N
      BY <1>1, <2>5, <3>1
    <3>2. CASE k = N + 1
      <4>1. k - 1 = N
        BY <1>4, <3>2
      <4>2. q[k] = t /\ tasks'[q[k]].node = n
        BY <2>2, <2>6, <3>2
      <4> HIDE DEF q, N, t
      <4>3. QED
        BY <1>1, <1>5, <2>4, <4>1, <4>2 DEF t
    <3>3. QED
      BY <2>7, <3>1, <3>2
  <2>9. ASSUME NEW j \in DOMAIN q, NEW k \in DOMAIN q, q[j] = q[k]
        PROVE  j = k
    <3>1. CASE j \in 1..N /\ k \in 1..N
      BY <1>0, <1>4, <2>2, <2>9, <3>1 DEF PendingInv
    <3>2. CASE ~(j \in 1..N /\ k \in 1..N)
      BY <2>2, <2>5, <2>7, <2>9, <3>2
    <3>3. QED
      BY <3>1, <3>2
  <2>10. successors' = successors
    OBVIOUS
  <2>11. QED
    BY <1>3, <1>6, <2>8, <2>9, <2>10 DEF PendingInv, NodeOf
<1>9. QED
  BY <1>7, <1>8

(* Of the calls for m, the one that ends is the only one more to return.   *)
LEMMA EndsPassesOn ==
  ASSUME DispatcherInv, NEW n, NEW l, Ends(n, l), UNCHANGED <<successors, workflowId>>,
         NEW m \in Node
  PROVE  /\ \A p \in Precursors(m) : PassedOn(p, m)' <=>
              PassedOn(p, m) \/ (l # 0 /\ p = stack[l].node /\ m = n)
         /\ l # 0 => stack[l].node \in Precursors(n) /\ ~PassedOn(stack[l].node, n)
<1>0. TypeOK /\ StackInv
  BY DEF DispatcherInv
<1>1. PassNodes' = PassNodes \cup {n}
  BY EndsView
<1>2. /\ n \in Node /\ l \in Nat /\ DOMAIN stack = 1..Len(stack) /\ DOMAIN stack' = 1..l
      /\ \A i \in 1..l : i \in 1..Len(stack) /\ stack[i].node \in Node /\ stack[i].next \in Nat
      /\ \A i : i \in 1..Len(stack) => i \in 1..l \/ (i = l + 1 /\ Len(stack) = l + 1)
      /\ l # l + 1 /\ (l # 0 => l \in 1..l) /\ \A i \in 1..l : i # l => i < l
  BY <1>0, EndsFrames
<1>3. \A i \in 1..l :
        /\ stack'[i].node = stack[i].node
        /\ stack'[i].next = IF i = l THEN stack[i].next + 1 ELSE stack[i].next
  BY DEF Ends
<1>4. l # 0 => /\ l \in 1..l /\ stack[l].node \in Node
               /\ stack[l].next \in 1..Len(successors[stack[l].node])
               /\ n = successors[stack[l].node][stack[l].next]
  <2>1. l # 0 => l \in 1..l
    BY <1>2
  <2>2. QED
    BY <1>2, <2>1 DEF Ends
<1>5. \A i \in 1..l : stack[i].node = stack[l].node => i = l
  <2>1. SUFFICES ASSUME NEW i \in 1..l, i # l
                 PROVE  stack[i].node # stack[l].node
    OBVIOUS
  <2>2. i < l /\ l \in 1..l
    <3>1. l \in Nat /\ i \in 1..l /\ i # l
      BY <1>2, <2>1
    <3>2. QED
      BY ONLY <3>1
  <2>3. i \in DOMAIN stack /\ l \in DOMAIN stack
    BY <1>2, <2>2
  <2>4. stack[i].node < stack[l].node
    BY <1>0, <2>2, <2>3 DEF StackInv
  <2>5. stack[i].node \in Nat /\ stack[l].node \in Nat
    BY <1>0, <1>2, <2>2, GraphFacts
  <2>6. QED
    BY ONLY <2>4, <2>5
<1>6. ASSUME l # 0
      PROVE  stack[l].node \in Precursors(n) /\ ~PassedOn(stack[l].node, n)
  <2> DEFINE p == stack[l].node
  <2>1. p \in Precursors(n)
    BY <1>0, <1>2, <1>4, <1>6, PrecursorFacts
  <2>2. l \in DOMAIN stack /\ p \notin PassNodes
    BY <1>0, <1>2, <1>4, <1>6 DEF StackInv
  <2>3. ASSUME NEW i \in DOMAIN stack, stack[i].node = p,
               NEW j \in 1..(stack[i].next - 1), successors[p][j] = n
        PROVE  FALSE
    <3>1. i = l
      <4>1. CASE i \in 1..l
        BY <1>5, <2>3, <4>1
      <4>2. CASE i = l + 1 /\ Len(stack) = l + 1
        <5>1. stack[l].node < stack[i].node
          BY <1>0, <1>2, <2>2, <4>2 DEF StackInv
        <5>2. stack[l].node \in Nat
          BY <1>0, <1>4, <1>6, GraphFacts
        <5>3. QED
          BY <2>3, <5>1, <5>2
      <4>3. QED
        BY <1>2, <4>1, <4>2
    <3>2. Len(successors[p]) \in Nat /\ stack[l].next \in Nat
      BY <1>0, <1>2, <1>4, <1>6, GraphFacts
    <3>3. j \in 1..Len(successors[p]) /\ j # stack[l].next
      BY <1>4, <1>6, <2>3, <3>1, <3>2
    <3>4. QED
      BY <1>0, <1>4, <1>6, <2>3, <3>3, GraphFacts
  <2>4. QED
    BY <2>1, <2>2, <2>3 DEF PassedOn
<1>7. ASSUME NEW p \in Precursors(m), PassedOn(p, m)'
      PROVE  PassedOn(p, m) \/ (l # 0 /\ p = stack[l].node /\ m = n)
  <2>0. p \in Node
    BY DEF Precursors
  <2>1. CASE p \in PassNodes
    BY <2>1 DEF PassedOn
  <2>2. CASE p \notin PassNodes /\ p = n
    <3>1. Len(stack) = l + 1 /\ n = stack[l + 1].node /\ stack[l + 1].next > Len(successors[n])
      BY <2>2 DEF Ends
    <3>2. PICK j \in 1..Len(successors[p]) : successors[p][j] = m
      BY <1>0, <2>0, PrecursorFacts
    <3>3. l + 1 \in DOMAIN stack
      BY <1>2, <3>1
    <3>4. j \in 1..(stack[l + 1].next - 1)
      <4>1. stack[l + 1].next \in Nat /\ Len(successors[n]) \in Nat
        BY <1>0, <1>2, <3>3, StackFacts, GraphFacts
      <4>2. QED
        BY <2>2, <3>1, <4>1
    <3>5. QED
      BY <2>2, <3>1, <3>2, <3>3, <3>4 DEF PassedOn
  <2>3. CASE p \notin PassNodes /\ p # n
    <3>1. PICK i \in DOMAIN stack' : /\ stack'[i].node = p
                                     /\ \E j \in 1..(stack'[i].next - 1) : successors[p][j] = m
      BY <1>1, <1>7, <2>3 DEF PassedOn
    <3>2. PICK j \in 1..(stack'[i].next - 1) : successors[p][j] = m
      BY <3>1
    <3>3. i \in 1..l /\ i \in DOMAIN stack /\ stack[i].node = p /\ stack[i].next \in Nat
      BY <1>2, <1>3, <3>1
    <3>4. CASE j \in 1..(stack[i].next - 1)
      BY <3>2, <3>3, <3>4 DEF PassedOn
    <3>5. CASE j \notin 1..(stack[i].next - 1)
      <4>1. i = l /\ j = stack[i].next
        <5>1. stack'[i].next = IF i = l THEN stack[i].next + 1 ELSE stack[i].next
          BY <1>3, <3>3
        <5>2. stack[i].next \in Nat /\ j \in 1..(stack'[i].next - 1)
          BY <3>3
        <5>3. QED
          BY ONLY <5>1, <5>2, <3>5
      <4>2. l # 0
        <5>1. l \in Nat /\ i \in 1..l
          BY <1>2, <3>3
        <5>2. QED
          BY ONLY <5>1
      <4>3. QED
        BY <1>4, <3>2, <3>3, <4>1, <4>2
    <3>6. QED
      BY <3>4, <3>5
  <2>4. QED
    BY <2>1, <2>2, <2>3
<1>8. ASSUME NEW p \in Precursors(m), PassedOn(p, m)
      PROVE  PassedOn(p, m)'
  <2>1. CASE p \in PassNodes
    BY <1>1, <2>1 DEF PassedOn
  <2>2. CASE p \notin PassNodes
    <3>1. PICK i \in DOMAIN stack : /\ stack[i].node = p
                                    /\ \E j \in 1..(stack[i].next - 1) : successors[p][j] = m
      BY <1>8, <2>2 DEF PassedOn
    <3>2. PICK j \in 1..(stack[i].next - 1) : successors[p][j] = m
      BY <3>1
    <3>3. CASE i \in 1..l
      <4>1. i \in DOMAIN stack' /\ stack'[i].node = p
        BY <1>2, <1>3, <3>1, <3>3
      <4>2. j \in 1..(stack'[i].next - 1)
        <5>1. stack[i].next \in Nat
          BY <1>2, <3>3
        <5>2. QED
          BY <1>3, <3>3, <5>1
      <4>3. successors'[p][j] = m
        BY <3>2
      <4>4. QED
        BY <4>1, <4>2, <4>3 DEF PassedOn
    <3>4. CASE i = l + 1 /\ Len(stack) = l + 1
      <4>1. l # l + 1
        BY <1>2
      <4>2. p = n
        BY <3>1, <3>4, <4>1 DEF Ends
      <4>3. QED
        BY <1>1, <4>2 DEF PassedOn
    <3>5. QED
      BY <1>2, <3>3, <3>4
  <2>3. QED
    BY <2>1, <2>2
<1>9. ASSUME NEW p \in Precursors(m), l # 0, p = stack[l].node, m = n
      PROVE  PassedOn(p, m)'
  <2>1. l \in DOMAIN stack' /\ stack'[l].node = p
    BY <1>2, <1>3, <1>4, <1>9
  <2>2. stack[l].next \in 1..(stack'[l].next - 1)
    <3>1. stack[l].next \in Nat /\ stack[l].next # 0 /\ stack'[l].next = stack[l].next + 1
      <4>1. l \in 1..l /\ stack[l].next \in 1..Len(successors[stack[l].node])
        BY <1>4, <1>9
      <4>2. stack'[l].next = stack[l].next + 1
        BY <1>3, <4>1
      <4>3. stack[l].next \in Nat
        BY <1>2, <4>1
      <4>4. stack[l].next # 0
        BY <4>1
      <4>5. QED
        BY <4>2, <4>3, <4>4
    <3>2. QED
      BY <3>1
  <2>3. successors'[p][stack[l].next] = m
    BY <1>4, <1>9
  <2>4. QED
    BY <2>1, <2>2, <2>3 DEF PassedOn
<1>10. QED
  BY <1>6, <1>7, <1>8, <1>9

LEMMA EndsKeepsCount ==
  ASSUME DispatcherInv, NEW n, NEW l, Ends(n, l), UNCHANGED <<successors, workflowId>>
  PROVE  CountInv'
<1>0. TypeOK /\ PoolInv /\ StackInv /\ CountInv
  BY DEF DispatcherInv
<1>1. Visited' = Visited /\ mLastDispatchedTask' = mLastDispatchedTask
  <2>1. Visited' = Visited
    BY EndsView
  <2>2. QED
    BY <2>1 DEF Ends
<1>2. /\ n \in Node /\ l \in Nat /\ Len(stack) \in Nat
      /\ stack = <<>> <=> Len(stack) = 0
      /\ stack' = <<>> <=> l = 0
      /\ Len(stack) = l \/ (Len(stack) = l + 1 /\ l + 1 \in 1..Len(stack) /\ n = stack[l + 1].node)
  BY <1>0, EndsFrames
<1>3. ASSUME NEW m \in Visited
      PROVE  /\ tasks'[mLastDispatchedTask[m]].mWaitingLockCount =
                  Cardinality({p \in Precursors(m) : PassedOn(p, m)})'
             /\ tasks'[mLastDispatchedTask[m]].mIsAcceptTrigger =
                  (m \in AlwaysAccept \/ (m \in raised' /\ (stack' = <<>> \/ stack'[1].node # m)))
  <2> DEFINE t == mLastDispatchedTask[m]
             S == {p \in Precursors(m) : PassedOn(p, m)}
             T == {p \in Precursors(m) : PassedOn(p, m)}'
  <2>1. m \in Node /\ t \in Task
    BY <1>0, TaskFacts
  <2>2. /\ tasks[t].mWaitingLockCount = Cardinality(S)
        /\ tasks[t].mIsAcceptTrigger =
             (m \in AlwaysAccept \/ (m \in raised /\ (stack = <<>> \/ stack[1].node # m)))
    BY <1>0 DEF CountInv
  <2>3. IsFiniteSet(S)
    BY <1>0, <2>1, PrecursorFacts, FS_Subset
  <2>4. Precursors(m)' = Precursors(m)
    BY SameEdges
  <2>5. \A p \in Precursors(m) : PassedOn(p, m)' <=>
          PassedOn(p, m) \/ (l # 0 /\ p = stack[l].node /\ m = n)
    BY <2>1, EndsPassesOn
  <2>6. l # 0 => /\ stack'[1].node = stack[1].node /\ stack # <<>> /\ stack' # <<>>
                 /\ stack[l].node \in Precursors(n) /\ ~PassedOn(stack[l].node, n)
    <3>1. l # 0 => 1 \in 1..l /\ stack # <<>> /\ stack' # <<>>
      BY <1>2
    <3>2. \A i \in 1..l : stack'[i].node = stack[i].node
      BY DEF Ends
    <3>3. QED
      BY <1>2, <3>1, <3>2, EndsPassesOn
  <2>7. CASE m # n
    <3>1. T = S
      BY <2>4, <2>5, <2>7
    <3>2. tasks'[t] = tasks[t]
      <4>1. t # mLastDispatchedTask[n]
        <5>1. t # NoTask
          BY <1>0, <2>1, TaskFacts
        <5>2. NodeOf(t) = m
          BY <1>0, <2>1, <5>1 DEF PoolInv
        <5>3. t = mLastDispatchedTask[n] => NodeOf(t) = n
          BY <1>0, <1>2, <5>1 DEF PoolInv
        <5>4. QED
          BY <2>7, <5>2, <5>3
      <4>2. QED
        BY <2>1, <4>1 DEF Ends
    <3>3. m \in raised' <=> m \in raised
      BY <2>7, EndsView
    <3>4. (stack' = <<>> \/ stack'[1].node # m) <=> (stack = <<>> \/ stack[1].node # m)
      <4>1. CASE l # 0
        BY <2>6, <4>1
      <4>2. CASE l = 0 /\ Len(stack) = l
        BY <1>2, <4>2
      <4>3. CASE l = 0 /\ Len(stack) # l
        <5>1. n = stack[l + 1].node /\ l + 1 = 1
          BY <1>2, <4>3
        <5>2. QED
          BY <1>2, <2>7, <4>3, <5>1
      <4>4. QED
        BY <4>1, <4>2, <4>3
    <3>5. QED
      BY <2>2, <3>1, <3>2, <3>3, <3>4
  <2>8. CASE m = n /\ l # 0
    <3>1. T = S \cup {stack[l].node} /\ stack[l].node \notin S
      BY <2>4, <2>5, <2>6, <2>8
    <3>2. Cardinality(T) = Cardinality(S) + 1
      BY <2>3, <3>1, FS_AddElement
    <3>3. /\ tasks'[t].mWaitingLockCount = tasks[t].mWaitingLockCount + 1
          /\ tasks'[t].mIsAcceptTrigger = tasks[t].mIsAcceptTrigger
      <4>1. tasks[t].mIsAcceptTrigger \in BOOLEAN
        BY <1>0, <2>1, TaskFacts
      <4>2. QED
        BY <2>8, <4>1 DEF Ends
    <3>4. raised' = raised
      BY <2>8 DEF Ends
    <3>5. QED
      BY <2>2, <2>6, <2>8, <3>2, <3>3, <3>4
  <2>9. CASE m = n /\ l = 0
    <3>1. T = S
      BY <2>4, <2>5, <2>9
    <3>2. /\ tasks'[t].mWaitingLockCount = tasks[t].mWaitingLockCount
          /\ tasks'[t].mIsAcceptTrigger = TRUE
      BY <2>9 DEF Ends
    <3>3. n \in raised'
      <4>1. CASE Len(stack) = l
        <5>1. l # l + 1
          BY <1>2
        <5>2. QED
          BY <2>9, <4>1, <5>1 DEF Ends
      <4>2. CASE Len(stack) = l + 1 /\ n = stack[l + 1].node
        <5>1. stack # <<>> /\ l + 1 = 1
          BY <1>2, <2>9, <4>2
        <5>2. n \in raised
          BY <1>0, <4>2, <5>1 DEF StackInv
        <5>3. QED
          BY <5>2, EndsView
      <4>3. QED
        BY <1>2, <4>1, <4>2
    <3>4. stack' = <<>>
      BY <1>2, <2>9
    <3>5. QED
      BY <2>2, <2>9, <3>1, <3>2, <3>3, <3>4
  <2>10. QED
    BY <2>7, <2>8, <2>9
<1>4. QED
  BY <1>1, <1>3 DEF CountInv
-----------------------------------------------------------------------------
(* Where the tasks of a pass are registered.                               *)

(* Steps that leave the nodes and what is pending as they are.             *)
LEMMA SamePending ==
  ASSUME UNCHANGED <<successors, tasks, mPendingTask>>
  PROVE  /\ \A u : NodeOf(u)' = NodeOf(u)
         /\ PassNodes' = PassNodes
         /\ \A n : Precursors(n)' = Precursors(n)
<1>1. \A u : NodeOf(u)' = NodeOf(u)
  BY DEF NodeOf
<1>2. PassNodes' = PassNodes
  BY DEF PassNodes, NodeOf
<1>3. QED
  BY <1>1, <1>2, SameEdges

LEMMA SameVisit ==
  ASSUME DispatcherInv, UNCHANGED <<successors, workflowId, visitVars, raised>>
  PROVE  PoolInv' /\ StackInv' /\ PendingInv' /\ ReachInv' /\ CountInv'
<1>0. PoolInv /\ StackInv /\ PendingInv /\ ReachInv /\ CountInv
  BY DEF DispatcherInv
<1>1. UNCHANGED <<successors, workflowId, mLastDispatchedTask, tasks, mPendingTask, stack, raised>>
  BY DEF visitVars, poolVars
<1>2. /\ \A u : NodeOf(u)' = NodeOf(u)
      /\ PassNodes' = PassNodes
      /\ \A n : Precursors(n)' = Precursors(n)
      /\ Reached(raised)' = Reached(raised')
  BY <1>1, SamePending, SameEdges
<1>3. /\ \A n : IsDispatched(n)' = IsDispatched(n)
      /\ Visited' = Visited /\ OnStack' = OnStack
  BY <1>1 DEF IsDispatched, Visited, OnStack
<1>4. PoolInv'
  BY <1>0, <1>1, <1>2 DEF PoolInv, NodeOf
<1>5. StackInv'
  BY <1>0, <1>1, <1>2, <1>3 DEF StackInv, IsDispatched
<1>6. PendingInv'
  BY <1>0, <1>1, <1>2, <1>3 DEF PendingInv, NodeOf
<1>7. ReachInv'
  BY <1>0, <1>1, <1>2, <1>3 DEF ReachInv
<1>8. CountInv'
  <2>1. \A p, n : PassedOn(p, n)' <=> PassedOn(p, n)
    BY <1>1, <1>2 DEF PassedOn
  <2>2. \A n : {p \in Precursors(n) : PassedOn(p, n)}' = {p \in Precursors(n) : PassedOn(p, n)}
    BY <1>2, <2>1
  <2>3. QED
    BY <1>0, <1>1, <1>3, <2>2 DEF CountInv
<1>9. QED
  BY <1>4, <1>5, <1>6, <1>7, <1>8

(* Before the pass registers, nothing is.                                  *)
LEMMA NothingRegistered ==
  ASSUME TypeOK, WaitersInv, RegisteredCount = 0, NEW n \in Node
  PROVE  DOMAIN waiters[n] = {}
<1>1. \A k \in DOMAIN mPendingTask : ~IsRegistered(k)
  BY TaskFacts DEF IsRegistered
<1>2. QED
  BY <1>1 DEF WaitersInv

LEMMA NoWaiters ==
  ASSUME TypeOK', RegisteredCount' = 0, \A n \in Node : DOMAIN waiters'[n] = {}
  PROVE  WaitersInv'
<1>1. mPendingTask' \in Seq(Task)
  BY DEF TypeOK
<1>2. DOMAIN mPendingTask' = 1..Len(mPendingTask') /\ Len(mPendingTask') \in Nat
  BY <1>1, Members
<1>3. \A k \in DOMAIN mPendingTask' : ~IsRegistered(k)'
  BY <1>2 DEF IsRegistered
<1>4. QED
  BY <1>3 DEF WaitersInv

LEMMA SameWaiters ==
  ASSUME WaitersInv, UNCHANGED <<successors, tasks, mPendingTask, waiters>>,
         RegisteredCount' = RegisteredCount
  PROVE  WaitersInv'
<1>1. /\ \A u : NodeOf(u)' = NodeOf(u)
      /\ PassNodes' = PassNodes
      /\ \A n : Precursors(n)' = Precursors(n)
  BY SamePending
<1>2. \A k : IsRegistered(k)' <=> IsRegistered(k)
  BY DEF IsRegistered
<1>3. QED
  BY <1>1, <1>2 DEF WaitersInv, NodeOf

(* The tasks of a pass are of different nodes, successors come before.     *)
LEMMA PendingFacts ==
  ASSUME TypeOK, PendingInv, NEW j \in DOMAIN mPendingTask, NEW k \in DOMAIN mPendingTask
  PROVE  /\ NodeOf(mPendingTask[j]) = NodeOf(mPendingTask[k]) => j = k
         /\ NodeOf(mPendingTask[j]) \in Precursors(NodeOf(mPendingTask[k])) => k < j
         /\ NodeOf(mPendingTask[k]) \in Node /\ NodeOf(mPendingTask[k]) \in PassNodes
<1>1. /\ \A i \in DOMAIN mPendingTask : mLastDispatchedTask[NodeOf(mPendingTask[i])] = mPendingTask[i]
      /\ \A i, h \in DOMAIN mPendingTask : mPendingTask[i] = mPendingTask[h] => i = h
  BY DEF PendingInv
<1>2. \A i, h \in DOMAIN mPendingTask :
        NodeOf(mPendingTask[i]) = NodeOf(mPendingTask[h]) => i = h
  BY <1>1
<1>3. ASSUME NodeOf(mPendingTask[j]) \in Precursors(NodeOf(mPendingTask[k]))
      PROVE  k < j
  <2>1. NodeOf(mPendingTask[k]) \in Range(successors[NodeOf(mPendingTask[j])])
    BY <1>3 DEF Precursors
  <2>2. PICK i \in 1..(j - 1) : NodeOf(mPendingTask[i]) = NodeOf(mPendingTask[k])
    BY <2>1 DEF PendingInv
  <2>3. j \in 1..Len(mPendingTask) /\ Len(mPendingTask) \in Nat
    BY TaskFacts
  <2>4. i \in 1..Len(mPendingTask) /\ i < j
    BY <2>3
  <2>5. i \in DOMAIN mPendingTask
    BY <2>4, TaskFacts
  <2>6. i = k
    BY <1>2, <2>2, <2>5
  <2>7. QED
    BY <2>4, <2>6
<1>4. NodeOf(mPendingTask[k]) \in Visited
  BY DEF PendingInv
<1>5. NodeOf(mPendingTask[k]) \in Node /\ NodeOf(mPendingTask[k]) \in PassNodes
  BY <1>4, TaskFacts
<1>6. QED
  BY <1>2, <1>3, <1>5

LEMMA RegisterKeepsWaiters ==
  ASSUME DispatcherInv, Register
  PROVE  WaitersInv'
<1>0. TypeOK /\ PendingInv /\ WaitersInv
  BY DEF DispatcherInv
<1>1. /\ step = "register" /\ step' = "register" /\ position < Len(mPendingTask)
      /\ position' = position + 1 /\ UNCHANGED <<successors, tasks, mPendingTask>>
  BY DEF Register, visitVars, poolVars
<1>2. PICK N \in Nat : N = Len(mPendingTask)
  BY <1>0, TaskFacts
<1>3. /\ DOMAIN mPendingTask = 1..N /\ position \in Nat /\ position < N
      /\ \A k \in 1..N : mPendingTask[k] \in Task
  <2>1. DOMAIN mPendingTask = 1..N /\ \A k \in DOMAIN mPendingTask : mPendingTask[k] \in Task
    BY <1>0, <1>2, TaskFacts
  <2>2. position \in 0..N
    BY <1>0, <1>2 DEF TypeOK
  <2>3. QED
    BY <1>1, <1>2, <2>1, <2>2
<1>4. PICK c \in 1..N : c = N - position
  BY ONLY <1>2, <1>3
<1>5. /\ \A k \in 1..N : IsRegistered(k) <=> c < k
      /\ \A k \in 1..N : IsRegistered(k)' <=> c < k \/ k = c
  <2>1. RegisteredCount = position /\ RegisteredCount' = position + 1
    BY <1>1 DEF RegisteredCount
  <2>2. Len(mPendingTask') = N
    BY <1>1, <1>2
  <2>3. ASSUME NEW k \in 1..N
        PROVE  /\ IsRegistered(k) <=> k + position > N
               /\ IsRegistered(k)' <=> k + (position + 1) > N
    BY <1>2, <2>1, <2>2 DEF IsRegistered
  <2>4. \A k \in 1..N : /\ k + position > N <=> c < k
                        /\ k + (position + 1) > N <=> c < k \/ k = c
    <3>1. position \in Nat /\ N \in Nat /\ c = N - position
      BY <1>3, <1>4
    <3>2. QED
      BY ONLY <3>1
  <2>5. QED
    BY <2>3, <2>4
<1>6. PICK t \in Task, m \in Node : t = mPendingTask[c] /\ m = NodeOf(t)
  BY <1>0, <1>3, PendingFacts
<1> DEFINE Uses(n) == n = m \/ n \in Precursors(m)
           e(n) == [pTask |-> t, IsWriter |-> n = m]
<1>16. /\ \A u : NodeOf(u)' = NodeOf(u)
       /\ PassNodes' = PassNodes
       /\ \A n : Precursors(n)' = Precursors(n)
  BY <1>1, SamePending
<1>7. ASSUME NEW n \in Node
      PROVE  /\ Len(waiters[n]) \in Nat /\ DOMAIN waiters[n] = 1..Len(waiters[n])
             /\ Uses(n) => /\ DOMAIN waiters'[n] = 1..(Len(waiters[n]) + 1)
                           /\ \A i \in 1..Len(waiters[n]) : waiters'[n][i] = waiters[n][i]
                           /\ waiters'[n][Len(waiters[n]) + 1] = e(n)
             /\ ~Uses(n) => waiters'[n] = waiters[n]
  <2>1. waiters[n] \in Seq([pTask : Task, IsWriter : BOOLEAN])
    BY <1>0 DEF TypeOK
  <2>2. e(n) \in [pTask : Task, IsWriter : BOOLEAN]
    OBVIOUS
  <2>3. Len(waiters[n]) \in Nat /\ DOMAIN waiters[n] = 1..Len(waiters[n])
    BY <2>1, Members
  <2>4. Current = t
    BY <1>2, <1>4, <1>6 DEF Current
  <2>5. waiters'[n] = IF Uses(n) THEN Append(waiters[n], e(n)) ELSE waiters[n]
    BY <1>6, <2>4 DEF Register, NodeOf
  <2>6. CASE Uses(n)
    <3>1. waiters'[n] = Append(waiters[n], e(n))
      BY <2>5, <2>6
    <3> HIDE DEF e
    <3>2. /\ waiters'[n] \in Seq([pTask : Task, IsWriter : BOOLEAN])
          /\ Len(waiters'[n]) = Len(waiters[n]) + 1
          /\ \A i \in 1..Len(waiters[n]) : waiters'[n][i] = waiters[n][i]
          /\ waiters'[n][Len(waiters[n]) + 1] = e(n)
      BY <2>1, <2>2, <3>1, AppendFacts
    <3>3. DOMAIN waiters'[n] = 1..Len(waiters'[n])
      BY <3>2, Members
    <3>4. QED
      BY <2>3, <2>6, <3>2, <3>3
  <2>7. CASE ~Uses(n)
    BY <2>3, <2>5, <2>7
  <2>8. QED
    BY <2>6, <2>7
<1>8. \A n \in Node : \A i \in DOMAIN waiters[n] :
        i \in DOMAIN waiters'[n] /\ waiters'[n][i] = waiters[n][i]
  <2>1. TAKE n \in Node
  <2>2. TAKE i \in DOMAIN waiters[n]
  <2>3. i \in 1..Len(waiters[n]) /\ Len(waiters[n]) \in Nat
    BY <1>7
  <2>7. i \in 1..(Len(waiters[n]) + 1)
    BY ONLY <2>3
  <2>4. CASE Uses(n)
    BY <1>7, <2>3, <2>7, <2>4
  <2>5. CASE ~Uses(n)
    BY <1>7, <2>5
  <2>6. QED
    BY <2>4, <2>5
<1>9. \A n \in Node : \A i \in DOMAIN waiters'[n] :
        \/ i \in DOMAIN waiters[n] /\ waiters'[n][i] = waiters[n][i]
        \/ Uses(n) /\ i = Len(waiters[n]) + 1 /\ waiters'[n][i] = e(n)
  <2>1. TAKE n \in Node
  <2>2. TAKE i \in DOMAIN waiters'[n]
  <2>3. CASE Uses(n)
    <3>1. i \in 1..(Len(waiters[n]) + 1) /\ Len(waiters[n]) \in Nat
      BY <1>7, <2>3
    <3>2. i \in 1..Len(waiters[n]) \/ i = Len(waiters[n]) + 1
      BY ONLY <3>1
    <3>3. QED
      BY <1>7, <2>3, <3>2
  <2>4. CASE ~Uses(n)
    BY <1>7, <2>4
  <2>5. QED
    BY <2>3, <2>4
<1>10. ASSUME NEW n \in Node, NEW i \in DOMAIN waiters[n]
       PROVE  /\ \E k \in 1..N : mPendingTask[k] = waiters[n][i].pTask /\ c < k
              /\ n = NodeOf(waiters[n][i].pTask) \/ n \in Precursors(NodeOf(waiters[n][i].pTask))
              /\ waiters[n][i].IsWriter = (n = NodeOf(waiters[n][i].pTask))
              /\ n \in PassNodes => waiters[n][i].IsWriter = (i = 1)
              /\ waiters[n][i].pTask # t
  <2>1. /\ \E k \in DOMAIN mPendingTask : mPendingTask[k] = waiters[n][i].pTask /\ IsRegistered(k)
        /\ n = NodeOf(waiters[n][i].pTask) \/ n \in Precursors(NodeOf(waiters[n][i].pTask))
        /\ waiters[n][i].IsWriter = (n = NodeOf(waiters[n][i].pTask))
        /\ n \in PassNodes => waiters[n][i].IsWriter = (i = 1)
    BY <1>0 DEF WaitersInv
  <2>2. PICK k \in 1..N : mPendingTask[k] = waiters[n][i].pTask /\ c < k
    BY <1>3, <1>6, <1>5, <2>1
  <2>6. c # k
    BY ONLY <1>2, <1>4, <2>2
  <2>3. c # k /\ c \in DOMAIN mPendingTask /\ k \in DOMAIN mPendingTask
    BY <1>3, <1>4, <2>2, <2>6
  <2>4. waiters[n][i].pTask # t
    BY <1>0, <1>6, <2>2, <2>3 DEF PendingInv
  <2>5. QED
    BY <2>1, <2>2, <2>4
(* A node's own task is registered before its readers are.                 *)
<1>11. DOMAIN waiters[m] = {}
  <2>1. SUFFICES ASSUME NEW i \in DOMAIN waiters[m]
                 PROVE  FALSE
    OBVIOUS
  <2>2. PICK k \in 1..N : mPendingTask[k] = waiters[m][i].pTask /\ c < k
    BY <1>6, <1>10
  <2>3. c \in DOMAIN mPendingTask /\ k \in DOMAIN mPendingTask /\ m = NodeOf(mPendingTask[c])
    BY <1>3, <1>6
  <2>4. ~(k < c) /\ k # c
    BY <1>3, <1>6, <2>2
  <2>5. m # NodeOf(mPendingTask[k]) /\ m \notin Precursors(NodeOf(mPendingTask[k]))
    BY <1>0, <2>3, <2>4, PendingFacts
  <2>6. QED
    BY <1>6, <1>10, <2>2, <2>5
<1>12. ASSUME NEW n \in Precursors(m), n \in PassNodes
       PROVE  DOMAIN waiters[n] # {}
  <2>1. n \in Node
    BY DEF Precursors
  <2>2. PICK k \in DOMAIN mPendingTask : NodeOf(mPendingTask[k]) = n
    BY <1>0, <1>12, TaskFacts
  <2>3. c \in DOMAIN mPendingTask /\ m = NodeOf(mPendingTask[c])
    BY <1>3, <1>6
  <2>4. c < k
    BY <1>0, <2>2, <2>3, PendingFacts
  <2>5. IsRegistered(k)
    BY <1>3, <1>6, <1>5, <2>4
  <2>6. QED
    BY <1>0, <2>2, <2>5 DEF WaitersInv
<1>13. ASSUME NEW n \in Node, NEW i \in DOMAIN waiters'[n]
       PROVE  /\ \E k \in DOMAIN mPendingTask : mPendingTask[k] = waiters'[n][i].pTask /\ IsRegistered(k)'
              /\ n = NodeOf(waiters'[n][i].pTask) \/ n \in Precursors(NodeOf(waiters'[n][i].pTask))
              /\ waiters'[n][i].IsWriter = (n = NodeOf(waiters'[n][i].pTask))
              /\ n \in PassNodes => waiters'[n][i].IsWriter = (i = 1)
  <2>1. CASE i \in DOMAIN waiters[n] /\ waiters'[n][i] = waiters[n][i]
    BY <1>3, <1>6, <1>5, <1>10, <2>1
  <2>2. CASE Uses(n) /\ i = Len(waiters[n]) + 1 /\ waiters'[n][i] = e(n)
    <3>1. waiters'[n][i].pTask = t /\ waiters'[n][i].IsWriter = (n = m) /\ m = NodeOf(t)
      BY <1>6, <2>2
    <3>2. c \in DOMAIN mPendingTask /\ mPendingTask[c] = t /\ IsRegistered(c)'
      BY <1>3, <1>6, <1>5
    <3>3. n \in PassNodes => ((n = m) <=> (i = 1))
      <4>1. Len(waiters[n]) \in Nat /\ DOMAIN waiters[n] = 1..Len(waiters[n])
        BY <1>7
      <4>2. CASE n = m
        <5>1. 1..Len(waiters[n]) = {}
          BY <1>11, <4>1, <4>2
        <5>4. Len(waiters[n]) \in Nat
          BY <4>1
        <5>5. 1 \notin 1..Len(waiters[n])
          BY <5>1
        <5>2. Len(waiters[n]) = 0
          BY ONLY <5>5, <5>4
        <5>3. QED
          BY <2>2, <4>2, <5>2
      <4>3. CASE n # m
        <5>1. n \in PassNodes => 1..Len(waiters[n]) # {}
          BY <1>12, <2>2, <4>1, <4>3
        <5>2. n \in PassNodes => Len(waiters[n]) # 0
          BY <5>1
        <5>3. QED
          BY <2>2, <4>1, <4>3, <5>2
      <4>4. QED
        BY <4>2, <4>3
    <3>4. QED
      BY <2>2, <3>1, <3>2, <3>3
  <2>3. QED
    BY <1>9, <2>1, <2>2
<1>14. ASSUME NEW n \in Node, NEW i \in DOMAIN waiters'[n], NEW j \in DOMAIN waiters'[n],
              waiters'[n][i].pTask = waiters'[n][j].pTask
       PROVE  i = j
  <2>1. CASE i \in DOMAIN waiters[n] /\ j \in DOMAIN waiters[n]
    BY <1>0, <1>8, <1>14, <2>1 DEF WaitersInv
  <2>2. e(n).pTask = t
    OBVIOUS
  <2> HIDE DEF e, Uses
  <2>3. \A h \in DOMAIN waiters'[n] :
          \/ h \in DOMAIN waiters[n] /\ waiters'[n][h].pTask # t
          \/ h = Len(waiters[n]) + 1 /\ waiters'[n][h].pTask = t
    BY <1>9, <1>10, <2>2
  <2>4. CASE i \in DOMAIN waiters[n] /\ j \notin DOMAIN waiters[n]
    BY <1>14, <2>3, <2>4, <1>9, <2>2, <1>10
  <2>5. CASE j \in DOMAIN waiters[n] /\ i \notin DOMAIN waiters[n]
    BY <1>14, <2>3, <2>5, <1>9, <2>2, <1>10
  <2>6. CASE i \notin DOMAIN waiters[n] /\ j \notin DOMAIN waiters[n]
    BY <2>3, <2>6
  <2>7. QED
    BY <2>1, <2>4, <2>5, <2>6
<1>15. ASSUME NEW k \in DOMAIN mPendingTask, IsRegistered(k)',
              NEW n \in Precursors(NodeOf(mPendingTask[k])) \cup {NodeOf(mPendingTask[k])}
       PROVE  \E i \in DOMAIN waiters'[n] : waiters'[n][i].pTask = mPendingTask[k]
  <2>0. n \in Node
    BY <1>0, PendingFacts DEF Precursors
  <2>1. CASE k = c
    <3>1. Uses(n) /\ mPendingTask[k] = t
      BY <1>6, <1>15, <2>1
    <3>2. Len(waiters[n]) + 1 \in DOMAIN waiters'[n] /\ waiters'[n][Len(waiters[n]) + 1] = e(n)
      BY <1>7, <2>0, <3>1
    <3>3. QED
      BY <3>1, <3>2
  <2>2. CASE k # c
    <3>1. IsRegistered(k)
      BY <1>3, <1>6, <1>5, <1>15, <2>2
    <3>2. \E i \in DOMAIN waiters[n] : waiters[n][i].pTask = mPendingTask[k]
      BY <1>0, <3>1 DEF WaitersInv
    <3>3. QED
      BY <1>8, <2>0, <3>2
  <2>3. QED
    BY <2>1, <2>2
<1>17. QED
  BY <1>1, <1>16, <1>13, <1>14, <1>15, SMTT(30) DEF WaitersInv, NodeOf
-----------------------------------------------------------------------------
(* The types, after a step of the visit.                                   *)

LEMMA CreateTyped ==
  ASSUME TypeOK, NEW n \in Node, NEW t \in Task, HandedOut(n, t),
         UNCHANGED <<successors, queueVars, fromWorker, workflowId, mPendingTask, step, position,
                     waiters, mDispatchedTasks>>,
         consumed' \in Seq(Node), raised' \subseteq Node
  PROVE  TypeOK'
<1>1. /\ mLastDispatchedTask' \in [Node -> Task \cup {NoTask}]
      /\ tasks' \in [Task -> [flow : Nat, node : Node \cup {0}, mIsAcceptTrigger : BOOLEAN,
                              mWaitingLockCount : Nat]]
      /\ mNextTaskPos' \in [Worker -> Nat] /\ Loop' \in 0..WorkerCount
      /\ stack' \in Seq([node : Node, task : Task, next : Nat])
  BY DEF HandedOut
<1>2. QED
  BY <1>1 DEF TypeOK, queueVars

LEMMA EndsTyped ==
  ASSUME DispatcherInv, NEW n, NEW l, Ends(n, l),
         UNCHANGED <<successors, queueVars, fromWorker, workflowId, mNextTaskPos, Loop, step,
                     position, waiters, mDispatchedTasks>>,
         consumed' \in Seq(Node)
  PROVE  TypeOK'
<1>0. TypeOK /\ StackInv
  BY DEF DispatcherInv
<1>1. /\ mLastDispatchedTask' \in [Node -> Task \cup {NoTask}]
      /\ tasks' \in [Task -> [flow : Nat, node : Node \cup {0}, mIsAcceptTrigger : BOOLEAN,
                              mWaitingLockCount : Nat]]
      /\ stack' \in Seq([node : Node, task : Task, next : Nat])
  BY <1>0 DEF Ends, TypeOK
<1>2. n \in Node /\ n \in Visited
  <2>1. n \in Node
    BY <1>0, EndsFrames
  <2>2. QED
    BY <2>1 DEF Ends
<1>3. raised' \subseteq Node
  BY <1>0, <1>2 DEF Ends, TypeOK
<1>4. mPendingTask' \in Seq(Task) /\ position' \in 0..Len(mPendingTask')
  <2>1. mPendingTask \in Seq(Task) /\ mLastDispatchedTask[n] \in Task
    BY <1>0, <1>2, TaskFacts DEF TypeOK
  <2>2. position \in 0..Len(mPendingTask) /\ position' = position
    BY <1>0 DEF TypeOK
  <2>3. CASE mPendingTask' = mPendingTask
    BY <2>1, <2>2, <2>3
  <2>4. CASE mPendingTask' = Append(mPendingTask, mLastDispatchedTask[n])
    <3>1. mPendingTask' \in Seq(Task) /\ Len(mPendingTask') = Len(mPendingTask) + 1
      BY <2>1, <2>4, AppendFacts
    <3>2. Len(mPendingTask) \in Nat
      BY <2>1, Members
    <3>3. position' \in 0..Len(mPendingTask')
      BY ONLY <2>2, <3>1, <3>2
    <3>4. QED
      BY <3>1, <3>3
  <2>5. QED
    BY <2>3, <2>4 DEF Ends
<1>5. QED
  BY <1>0, <1>1, <1>3, <1>4 DEF TypeOK, queueVars

-----------------------------------------------------------------------------
(* Each step keeps the invariant.                                          *)

(* Nothing is registered while nodes are visited.                          *)
LEMMA VisitKeepsWaiters ==
  ASSUME DispatcherInv, TypeOK', step = "consume", UNCHANGED <<step, waiters>>
  PROVE  WaitersInv' /\ PhaseInv'
<1>0. TypeOK /\ WaitersInv
  BY DEF DispatcherInv
<1>1. RegisteredCount = 0 /\ RegisteredCount' = 0
  BY DEF RegisteredCount
<1>2. \A n \in Node : DOMAIN waiters'[n] = {}
  BY <1>0, <1>1, NothingRegistered
<1>3. QED
  BY <1>1, <1>2, NoWaiters DEF PhaseInv

LEMMA CreateKeepsInv ==
  ASSUME DispatcherInv, step = "consume", NEW n \in Node, ~IsDispatched(n), Calls(n),
         CreateTask(n), Fresh(Top'.task, Top'.node),
         UNCHANGED <<successors, queueVars, fromWorker, workflowId, step, position,
                     waiters, mDispatchedTasks>>,
         consumed' \in Seq(Node), raised' \subseteq Node
  PROVE  DispatcherInv'
<1>0. TypeOK /\ HandedInv
  BY DEF DispatcherInv
<1>1. PICK t \in Task : HandedOut(n, t)
  BY <1>0, CreateHandsOut
<1>2. mPendingTask' = mPendingTask
  BY DEF CreateTask, NewTask
<1>3. TypeOK'
  BY <1>0, <1>1, <1>2, CreateTyped
<1>4. PoolInv' /\ StackInv' /\ PendingInv' /\ ReachInv' /\ CountInv'
  BY <1>1, <1>2, CreateKeepsPool, CreateKeepsStack, CreateKeepsPending, CreateKeepsReach,
     CreateKeepsCount
<1>5. WaitersInv' /\ PhaseInv'
  BY <1>3, VisitKeepsWaiters
<1>6. HandedInv'
  <2>1. /\ Visited' = Visited \cup {n}
        /\ \A m \in Visited : mLastDispatchedTask'[m] = mLastDispatchedTask[m]
    BY <1>1, <1>2, HandedOutView
  <2>2. \A w \in Worker : mLastDispatchedTask'[n] \notin Range(mDispatchedTasks[w])
    BY <1>1 DEF HandedOut
  <2>3. \A m \in Visited, w \in Worker : mLastDispatchedTask[m] \notin Range(mDispatchedTasks[w])
    BY <1>0 DEF HandedInv
  <2>4. QED
    BY <2>1, <2>2, <2>3 DEF HandedInv
<1>7. QED
  BY <1>3, <1>4, <1>5, <1>6 DEF DispatcherInv

LEMMA EndsKeepsInv ==
  ASSUME DispatcherInv, step = "consume", NEW n, NEW l, Ends(n, l),
         UNCHANGED <<successors, queueVars, fromWorker, workflowId, mNextTaskPos, Loop, step,
                     position, waiters, mDispatchedTasks>>,
         consumed' \in Seq(Node)
  PROVE  DispatcherInv'
<1>1. TypeOK'
  BY EndsTyped
<1>2. PoolInv' /\ StackInv' /\ PendingInv' /\ ReachInv' /\ CountInv'
  BY EndsKeepsPool, EndsKeepsStack, EndsKeepsPending, EndsKeepsReach, EndsKeepsCount
<1>3. WaitersInv' /\ PhaseInv'
  BY <1>1, VisitKeepsWaiters
<1>4. HandedInv'
  <2>1. Visited' = Visited
    BY EndsView
  <2>2. HandedInv
    BY DEF DispatcherInv
  <2>3. mLastDispatchedTask' = mLastDispatchedTask
    BY DEF Ends
  <2>4. QED
    BY <2>1, <2>2, <2>3 DEF HandedInv
<1>5. QED
  BY <1>1, <1>2, <1>3, <1>4 DEF DispatcherInv

(* A call of VisitNode: it creates a task, or it ends at once.             *)
LEMMA CallKeepsInv ==
  ASSUME DispatcherInv, step = "consume", NEW n \in Node, Calls(n), VisitNode(n),
         mNextTaskPos' # mNextTaskPos => Fresh(Top'.task, Top'.node),
         UNCHANGED <<successors, queueVars, fromWorker, workflowId, step, position,
                     waiters, mDispatchedTasks>>,
         consumed' \in Seq(Node), raised' \subseteq Node
  PROVE  DispatcherInv'
<1>1. CASE ~IsDispatched(n) /\ CreateTask(n)
  <2>1. mNextTaskPos' # mNextTaskPos
    <3>1. mNextTaskPos \in [Worker -> Nat] /\ SelectWorker \in Worker
      <4>1. TypeOK
        BY DEF DispatcherInv
      <4>2. Loop \in Nat /\ WorkerCount \in Nat \ {0}
        BY <4>1, ConstantsAssumption DEF TypeOK
      <4>3. Loop % WorkerCount \in 0..(WorkerCount - 1)
        BY <4>2
      <4>4. QED
        BY <4>1, <4>2, <4>3 DEF TypeOK, SelectWorker, Worker
    <3>2. mNextTaskPos' = [mNextTaskPos EXCEPT ![SelectWorker] = @ + 1]
      BY <1>1 DEF CreateTask, NewTask
    <3>3. mNextTaskPos'[SelectWorker] = mNextTaskPos[SelectWorker] + 1
      BY <3>1, <3>2
    <3>4. mNextTaskPos[SelectWorker] \in Nat
      BY <3>1
    <3>5. QED
      BY <3>3, <3>4
  <2>2. QED
    BY <1>1, <2>1, CreateKeepsInv
<1>2. CASE /\ IsDispatched(n)
           /\ tasks' = [tasks EXCEPT ![mLastDispatchedTask[n]] = Triggered(@, stack = <<>>)]
           /\ stack' = Resumed(stack)
           /\ UNCHANGED <<mLastDispatchedTask, mNextTaskPos, Loop, mPendingTask>>
  <2>1. Ends(n, Len(stack))
    BY <1>2, MarkEnds
  <2>2. QED
    BY <1>2, <2>1, EndsKeepsInv
<1>3. QED
  BY <1>1, <1>2 DEF VisitNode

LEMMA VisitSuccessorKeepsInv ==
  ASSUME DispatcherInv, VisitSuccessor,
         mNextTaskPos' # mNextTaskPos => Fresh(Top'.task, Top'.node)
  PROVE  DispatcherInv'
<1> DEFINE n == successors[Top.node][Top.next]
<1>0. TypeOK /\ StackInv /\ PhaseInv
  BY DEF DispatcherInv
<1>1. Calls(n)
  BY DEF VisitSuccessor, Calls
<1>2. n \in Node /\ step = "consume"
  BY <1>0, <1>1, CalledFacts DEF VisitSuccessor, PhaseInv
<1>3. consumed' \in Seq(Node) /\ raised' \subseteq Node
  BY <1>0 DEF VisitSuccessor, TypeOK
<1>4. VisitNode(n) /\ UNCHANGED <<successors, queueVars, fromWorker, workflowId, step, position,
                                  waiters, mDispatchedTasks>>
  BY DEF VisitSuccessor
<1> HIDE DEF n
<1>5. QED
  BY <1>1, <1>2, <1>3, <1>4, CallKeepsInv

LEMMA VisitRaisedKeepsInv ==
  ASSUME DispatcherInv, VisitRaised,
         mNextTaskPos' # mNextTaskPos => Fresh(Top'.task, Top'.node)
  PROVE  DispatcherInv'
<1> DEFINE n == Head(consumed)
<1>0. TypeOK /\ PhaseInv
  BY DEF DispatcherInv
<1>1. Calls(n) /\ step = "consume"
  BY <1>0 DEF VisitRaised, Calls, PhaseInv
<1>2. n \in Node /\ consumed' \in Seq(Node)
  <2>1. consumed \in Seq(Node) /\ consumed # <<>> /\ consumed' = Tail(consumed)
    BY <1>0 DEF VisitRaised, TypeOK
  <2>2. QED
    BY <2>1, HeadTailProperties
<1>3. raised' \subseteq Node
  BY <1>0, <1>2 DEF VisitRaised, TypeOK
<1>4. VisitNode(n) /\ UNCHANGED <<successors, queueVars, fromWorker, workflowId, step, position,
                                  waiters, mDispatchedTasks>>
  BY DEF VisitRaised
<1> HIDE DEF n
<1>5. QED
  BY <1>1, <1>2, <1>3, <1>4, CallKeepsInv

LEMMA ReturnKeepsInv ==
  ASSUME DispatcherInv, Return
  PROVE  DispatcherInv'
<1>0. TypeOK /\ PhaseInv
  BY DEF DispatcherInv
<1>1. PICK l \in Nat : Ends(Top.node, l)
  BY ReturnEnds
<1>2. step = "consume" /\ consumed' \in Seq(Node)
  BY <1>0 DEF Return, PhaseInv, TypeOK
<1>3. UNCHANGED <<successors, queueVars, fromWorker, workflowId, mNextTaskPos, Loop, step,
                  position, waiters, mDispatchedTasks>>
  BY DEF Return
<1>4. PICK n : n = Top.node
  OBVIOUS
<1>5. Ends(n, l)
  BY <1>1, <1>4
<1>6. QED
  BY <1>2, <1>3, <1>5, EndsKeepsInv

LEMMA SameHanded ==
  ASSUME HandedInv, UNCHANGED <<workflowId, mLastDispatchedTask, tasks>>,
         step' # "dispatch" => step # "dispatch",
         \A w \in Worker : Range(mDispatchedTasks'[w]) \subseteq Range(mDispatchedTasks[w])
  PROVE  HandedInv'
<1>1. Visited' = Visited
  BY DEF Visited, IsDispatched
<1>2. QED
  BY <1>1 DEF HandedInv

LEMMA RaiseKeepsInv ==
  ASSUME DispatcherInv, NEW h \in Thread, NEW n \in Node, Raise(h, n)
  PROVE  DispatcherInv'
<1>0. TypeOK /\ WaitersInv /\ PhaseInv /\ HandedInv
  BY DEF DispatcherInv
<1>1. UNCHANGED <<successors, workflowId, visitVars, raised, mLastDispatchedTask, tasks,
                  mPendingTask, waiters, step, position, mDispatchedTasks, stack, consumed>>
  BY DEF Raise, visitVars, poolVars
<1>2. PoolInv' /\ StackInv' /\ PendingInv' /\ ReachInv' /\ CountInv'
  BY <1>1, SameVisit
<1>3. WaitersInv'
  BY <1>0, <1>1, SameWaiters DEF RegisteredCount
<1>4. HandedInv' /\ PhaseInv'
  BY <1>0, <1>1, SameHanded DEF PhaseInv
<1>5. TypeOK'
  <2>1. mPendingNodes' \in [Thread -> Seq(Node)]
    <3>1. mPendingNodes[h] \in Seq(Node)
      BY <1>0 DEF TypeOK
    <3>2. Append(mPendingNodes[h], n) \in Seq(Node)
      BY <3>1, AppendFacts
    <3>3. QED
      BY <1>0, <3>2 DEF Raise, TypeOK
  <2>2. raises' \in 0..MaxRaises
    BY <1>0, ConstantsAssumption DEF Raise, TypeOK
  <2>3. QED
    BY <1>0, <2>1, <2>2 DEF Raise, TypeOK, visitVars, poolVars
<1>6. QED
  BY <1>2, <1>3, <1>4, <1>5 DEF DispatcherInv

LEMMA ConsumeKeepsInv ==
  ASSUME DispatcherInv, Consume
  PROVE  DispatcherInv'
<1>0. TypeOK /\ WaitersInv /\ PhaseInv /\ HandedInv
  BY DEF DispatcherInv
<1>1. UNCHANGED <<successors, workflowId, visitVars, raised, mLastDispatchedTask, tasks,
                  mPendingTask, waiters, step, position, mDispatchedTasks, stack>>
  BY DEF Consume, visitVars, poolVars
<1>2. PoolInv' /\ StackInv' /\ PendingInv' /\ ReachInv' /\ CountInv'
  BY <1>1, SameVisit
<1>3. WaitersInv'
  BY <1>0, <1>1, SameWaiters DEF RegisteredCount
<1>4. HandedInv'
  BY <1>0, <1>1, SameHanded
<1>5. PhaseInv'
  BY <1>1 DEF Consume, PhaseInv
<1>6. TypeOK'
  <2>1. ThreadCount \in Nat /\ fromWorker \in 1..(ThreadCount + 1) /\ fromWorker <= ThreadCount
    BY <1>0, ConstantsAssumption DEF Consume, TypeOK
  <2>2. fromWorker \in Thread /\ fromWorker + 1 \in 1..(ThreadCount + 1)
    BY <2>1 DEF Thread
  <2>3. consumed' \in Seq(Node) /\ mPendingNodes' \in [Thread -> Seq(Node)]
    <3>1. <<>> \in Seq(Node)
      OBVIOUS
    <3>2. QED
      BY <1>0, <2>2, <3>1 DEF Consume, TypeOK
  <2>4. QED
    BY <1>0, <2>2, <2>3 DEF Consume, TypeOK, visitVars, poolVars
<1>7. QED
  BY <1>2, <1>3, <1>4, <1>5, <1>6 DEF DispatcherInv

LEMMA EndConsumeKeepsInv ==
  ASSUME DispatcherInv, EndConsume
  PROVE  DispatcherInv'
<1>0. TypeOK /\ WaitersInv /\ HandedInv
  BY DEF DispatcherInv
<1>1. UNCHANGED <<successors, workflowId, visitVars, raised, mLastDispatchedTask, tasks,
                  mPendingTask, waiters, mDispatchedTasks, stack, consumed>>
  BY DEF EndConsume, visitVars, poolVars
<1>2. PoolInv' /\ StackInv' /\ PendingInv' /\ ReachInv' /\ CountInv'
  BY <1>1, SameVisit
<1>3. step = "consume" /\ step' = "register" /\ position' = 0
  BY DEF EndConsume
<1>4. WaitersInv'
  BY <1>0, <1>1, <1>3, SameWaiters DEF RegisteredCount
<1>5. HandedInv'
  BY <1>0, <1>1, <1>3, SameHanded
<1>6. PhaseInv'
  BY <1>1 DEF EndConsume, PhaseInv
<1>7. TypeOK'
  <2>1. Len(mPendingTask) \in Nat
    BY <1>0, TaskFacts
  <2>2. 0 \in 0..Len(mPendingTask)
    BY <2>1
  <2>3. QED
    BY <1>0, <1>3, <2>2 DEF EndConsume, TypeOK, visitVars, poolVars, queueVars
<1>8. QED
  BY <1>2, <1>4, <1>5, <1>6, <1>7 DEF DispatcherInv

(* The task that the loops over mPendingTask have come to.                 *)
LEMMA CurrentFacts ==
  ASSUME TypeOK, position < Len(mPendingTask)
  PROVE  /\ position + 1 \in 0..Len(mPendingTask)
         /\ Current \in Task /\ Current[1] \in Worker
<1>1. PICK N \in Nat : N = Len(mPendingTask)
  BY TaskFacts
<1>2. position \in 0..N /\ position < N
  BY <1>1 DEF TypeOK
<1>3. position + 1 \in 0..N /\ N - position \in 1..N
  BY ONLY <1>1, <1>2
<1>4. Current \in Task
  BY <1>1, <1>3, TaskFacts DEF Current
<1>5. QED
  BY <1>1, <1>3, <1>4 DEF Task

LEMMA RegisterKeepsInv ==
  ASSUME DispatcherInv, Register
  PROVE  DispatcherInv'
<1>0. TypeOK /\ HandedInv /\ PhaseInv
  BY DEF DispatcherInv
<1>1. UNCHANGED <<successors, workflowId, visitVars, raised, mLastDispatchedTask, tasks,
                  mPendingTask, mDispatchedTasks, stack, consumed, step>>
  BY DEF Register, visitVars, poolVars
<1>2. PoolInv' /\ StackInv' /\ PendingInv' /\ ReachInv' /\ CountInv'
  BY <1>1, SameVisit
<1>3. WaitersInv'
  BY RegisterKeepsWaiters
<1>4. HandedInv'
  BY <1>0, <1>1, SameHanded
<1>5. PhaseInv'
  BY <1>0, <1>1 DEF PhaseInv
<1>6. TypeOK'
  <2>1. position + 1 \in 0..Len(mPendingTask) /\ Current \in Task
    BY <1>0, CurrentFacts DEF Register
  <2>2. waiters' \in [Node -> Seq([pTask : Task, IsWriter : BOOLEAN])]
    <3>1. ASSUME NEW n \in Node, NEW b \in BOOLEAN
          PROVE  Append(waiters[n], [pTask |-> Current, IsWriter |-> b])
                   \in Seq([pTask : Task, IsWriter : BOOLEAN])
      <4>1. waiters[n] \in Seq([pTask : Task, IsWriter : BOOLEAN])
        BY <1>0 DEF TypeOK
      <4>2. [pTask |-> Current, IsWriter |-> b] \in [pTask : Task, IsWriter : BOOLEAN]
        BY <2>1
      <4>3. QED
        BY <4>1, <4>2, AppendFacts
    <3>2. \A n \in Node : waiters[n] \in Seq([pTask : Task, IsWriter : BOOLEAN])
      BY <1>0 DEF TypeOK
    <3>3. PICK node : node = tasks[Current].node
      OBVIOUS
    <3>4. waiters' = [n \in Node |->
            IF n = node \/ n \in Precursors(node)
              THEN Append(waiters[n], [pTask |-> Current, IsWriter |-> n = node])
              ELSE waiters[n]]
      BY <3>3 DEF Register
    <3>5. QED
      BY <3>1, <3>2, <3>4
  <2>3. QED
    BY <1>0, <1>1, <2>1, <2>2 DEF Register, TypeOK, visitVars, poolVars, queueVars
<1>7. QED
  BY <1>2, <1>3, <1>4, <1>5, <1>6 DEF DispatcherInv

LEMMA EndRegisterKeepsInv ==
  ASSUME DispatcherInv, EndRegister
  PROVE  DispatcherInv'
<1>0. TypeOK /\ WaitersInv /\ PhaseInv
  BY DEF DispatcherInv
<1>1. UNCHANGED <<successors, workflowId, visitVars, raised, mLastDispatchedTask, tasks,
                  mPendingTask, waiters, mDispatchedTasks, stack, consumed>>
  BY DEF EndRegister, visitVars, poolVars
<1>2. PoolInv' /\ StackInv' /\ PendingInv' /\ ReachInv' /\ CountInv'
  BY <1>1, SameVisit
<1>3. step = "register" /\ step' = "dispatch" /\ position' = 0 /\ position = Len(mPendingTask)
  BY DEF EndRegister
<1>4. WaitersInv'
  BY <1>0, <1>1, <1>3, SameWaiters DEF RegisteredCount
<1>5. HandedInv' /\ PhaseInv'
  BY <1>0, <1>1, <1>3 DEF HandedInv, PhaseInv
<1>6. TypeOK'
  <2>1. Len(mPendingTask) \in Nat
    BY <1>0, TaskFacts
  <2>2. 0 \in 0..Len(mPendingTask)
    BY <2>1
  <2>3. QED
    BY <1>0, <1>3, <2>2 DEF EndRegister, TypeOK, visitVars, poolVars, queueVars
<1>7. QED
  BY <1>2, <1>4, <1>5, <1>6 DEF DispatcherInv

LEMMA DispatchKeepsInv ==
  ASSUME DispatcherInv, Dispatch
  PROVE  DispatcherInv'
<1>0. TypeOK /\ WaitersInv /\ PhaseInv
  BY DEF DispatcherInv
<1>1. UNCHANGED <<successors, workflowId, visitVars, raised, mLastDispatchedTask, tasks,
                  mPendingTask, waiters, stack, consumed, step>>
  BY DEF Dispatch, visitVars, poolVars
<1>2. PoolInv' /\ StackInv' /\ PendingInv' /\ ReachInv' /\ CountInv'
  BY <1>1, SameVisit
<1>3. step = "dispatch" /\ step' = "dispatch"
  BY DEF Dispatch
<1>4. WaitersInv'
  BY <1>0, <1>1, <1>3, SameWaiters DEF RegisteredCount
<1>5. HandedInv' /\ PhaseInv'
  BY <1>0, <1>1, <1>3 DEF HandedInv, PhaseInv
<1>6. TypeOK'
  <2>1. position + 1 \in 0..Len(mPendingTask) /\ Current \in Task /\ Current[1] \in Worker
    BY <1>0, CurrentFacts DEF Dispatch
  <2>2. Append(mDispatchedTasks[Current[1]], Current) \in Seq(Task)
    <3>1. mDispatchedTasks[Current[1]] \in Seq(Task)
      BY <1>0, <2>1 DEF TypeOK
    <3>2. QED
      BY <2>1, <3>1, AppendFacts
  <2>3. mDispatchedTasks' \in [Worker -> Seq(Task)]
    BY <1>0, <2>1, <2>2 DEF Dispatch, TypeOK
  <2>4. QED
    BY <1>0, <1>1, <2>1, <2>3 DEF Dispatch, TypeOK, visitVars, poolVars, queueVars
<1>7. QED
  BY <1>2, <1>4, <1>5, <1>6 DEF DispatcherInv

LEMMA TakeKeepsInv ==
  ASSUME DispatcherInv, NEW v \in Worker, Take(v)
  PROVE  DispatcherInv'
<1>0. TypeOK /\ WaitersInv /\ PhaseInv /\ HandedInv
  BY DEF DispatcherInv
<1>1. UNCHANGED <<successors, workflowId, visitVars, raised, mLastDispatchedTask, tasks,
                  mPendingTask, waiters, stack, consumed, step, position>>
  BY DEF Take, visitVars, poolVars
<1>2. PoolInv' /\ StackInv' /\ PendingInv' /\ ReachInv' /\ CountInv'
  BY <1>1, SameVisit
<1>3. WaitersInv'
  BY <1>0, <1>1, SameWaiters DEF RegisteredCount
<1>4. /\ Tail(mDispatchedTasks[v]) \in Seq(Task)
      /\ Range(Tail(mDispatchedTasks[v])) \subseteq Range(mDispatchedTasks[v])
  <2>1. PICK s \in Seq(Task) : s = mDispatchedTasks[v] /\ s # <<>>
    BY <1>0 DEF Take, TypeOK
  <2>2. /\ Tail(s) \in Seq(Task) /\ Len(Tail(s)) = Len(s) - 1
        /\ \A i \in 1..Len(Tail(s)) : Tail(s)[i] = s[i + 1]
    BY <2>1, HeadTailProperties
  <2>3. Len(s) \in Nat /\ \A x : x \in Range(s) <=> \E i \in 1..Len(s) : s[i] = x
    BY Members
  <2>4. \A x : x \in Range(Tail(s)) <=> \E i \in 1..Len(Tail(s)) : Tail(s)[i] = x
    BY <2>2, Members
  <2>5. \A i \in 1..Len(Tail(s)) : i + 1 \in 1..Len(s)
    BY ONLY <2>2, <2>3
  <2>6. Range(Tail(s)) \subseteq Range(s)
    BY <2>2, <2>3, <2>4, <2>5
  <2>7. QED
    BY <2>1, <2>2, <2>6
<1>5. /\ mDispatchedTasks' \in [Worker -> Seq(Task)]
      /\ \A w \in Worker : Range(mDispatchedTasks'[w]) \subseteq Range(mDispatchedTasks[w])
  <2>1. /\ mDispatchedTasks \in [Worker -> Seq(Task)]
        /\ mDispatchedTasks' = [mDispatchedTasks EXCEPT ![v] = Tail(mDispatchedTasks[v])]
    BY <1>0 DEF Take, TypeOK
  <2>2. /\ mDispatchedTasks' \in [Worker -> Seq(Task)]
        /\ mDispatchedTasks'[v] = Tail(mDispatchedTasks[v])
        /\ \A w \in Worker : w # v => mDispatchedTasks'[w] = mDispatchedTasks[w]
    BY <1>4, <2>1
  <2>3. QED
    BY <1>4, <2>2
<1>6. HandedInv' /\ PhaseInv'
  BY <1>0, <1>1, <1>5, SameHanded DEF PhaseInv
<1>7. TypeOK'
  BY <1>0, <1>5 DEF Take, TypeOK, visitVars, poolVars, queueVars
<1>8. QED
  BY <1>2, <1>3, <1>6, <1>7 DEF DispatcherInv

(* A pass that consumed a raise ends its workflow, and one that did not    *)
(* has visited no node.                                                    *)
LEMMA EndPassKeepsInv ==
  ASSUME DispatcherInv, EndPass
  PROVE  DispatcherInv'
<1>0. TypeOK /\ PoolInv /\ ReachInv /\ PhaseInv
  BY DEF DispatcherInv
<1>1. /\ step = "dispatch" /\ step' = "consume" /\ stack = <<>> /\ stack' = <<>>
      /\ consumed = <<>> /\ consumed' = <<>> /\ mPendingTask' = <<>> /\ raised' = {}
      /\ waiters' = [n \in Node |-> <<>>]
      /\ UNCHANGED <<successors, mLastDispatchedTask, tasks, mDispatchedTasks>>
  BY <1>0 DEF EndPass, PhaseInv, poolVars
<1>2. /\ workflowId \in Nat /\ workflowId' \in Nat /\ workflowId <= workflowId'
      /\ raised # {} => workflowId' = workflowId + 1
      /\ raised = {} => workflowId' = workflowId
  BY <1>0 DEF EndPass, TypeOK
<1>3. \A u \in Task : tasks[u].flow \in Nat /\ tasks[u].flow <= workflowId
  BY <1>0, TaskFacts DEF PoolInv
<1>4. PoolInv'
  <2>1. \A u : NodeOf(u)' = NodeOf(u)
    BY <1>1 DEF NodeOf
  <2>2. \A u \in Task : tasks[u].flow <= workflowId'
    BY <1>2, <1>3
  <2>3. QED
    BY <1>0, <1>1, <2>1, <2>2 DEF PoolInv
<1>5. Visited' = {}
  <2>1. SUFFICES ASSUME NEW n \in Visited'
                 PROVE  FALSE
    OBVIOUS
  <2>2. /\ n \in Node /\ mLastDispatchedTask[n] \in Task
        /\ workflowId' <= tasks[mLastDispatchedTask[n]].flow
    BY <1>0, <1>1, <2>1, TaskFacts DEF Visited, IsDispatched
  <2>3. raised = {}
    BY <1>2, <1>3, <2>2
  <2>4. n \in Visited
    BY <1>0, <1>2, <2>2, <2>3, TaskFacts DEF Visited, IsDispatched
  <2>5. n \in Reached(raised)
    BY <1>0, <2>4 DEF ReachInv
  <2>6. Closed({})
    BY DEF Closed
  <2>7. Reached(raised) \subseteq {}
    BY <1>0, <2>3, <2>6, ReachFacts
  <2>8. QED
    BY <2>5, <2>7
<1>6. DOMAIN stack' = {} /\ DOMAIN mPendingTask' = {}
  BY <1>1
<1>7. StackInv' /\ PendingInv' /\ ReachInv' /\ CountInv' /\ HandedInv' /\ PhaseInv'
  <2>1. StackInv'
    BY <1>1, <1>6 DEF StackInv
  <2>2. PendingInv'
    BY <1>5, <1>6 DEF PendingInv
  <2>3. ReachInv' /\ CountInv' /\ HandedInv' /\ PhaseInv'
    BY <1>1, <1>5 DEF ReachInv, CountInv, HandedInv, PhaseInv
  <2>4. QED
    BY <2>1, <2>2, <2>3
<1>8. TypeOK'
  <2>1. /\ mPendingTask' \in Seq(Task) /\ stack' \in Seq([node : Node, task : Task, next : Nat])
        /\ waiters' \in [Node -> Seq([pTask : Task, IsWriter : BOOLEAN])]
        /\ consumed' \in Seq(Node) /\ raised' \subseteq Node
    BY <1>1
  <2>2. position' \in 0..Len(mPendingTask')
    BY <1>1 DEF EndPass
  <2>3. fromWorker' \in 1..(ThreadCount + 1)
    BY ConstantsAssumption DEF EndPass
  <2>4. QED
    BY <1>0, <1>1, <1>2, <2>1, <2>2, <2>3 DEF EndPass, TypeOK, poolVars, queueVars
<1>9. WaitersInv'
  <2>1. RegisteredCount' = 0
    BY <1>1 DEF RegisteredCount
  <2>2. \A n \in Node : DOMAIN waiters'[n] = {}
    BY <1>1
  <2>3. QED
    BY <1>8, <2>1, <2>2, NoWaiters
<1>10. QED
  BY <1>4, <1>7, <1>8, <1>9 DEF DispatcherInv

-----------------------------------------------------------------------------
LEMMA InitInv ==
  ASSUME Init
  PROVE  DispatcherInv
<1>1. TypeOK
  <2>1. /\ MaxRaises \in Nat /\ ThreadCount \in Nat /\ WorkerCount \in Nat
        /\ 0 \in 0..MaxRaises /\ 1 \in 1..(ThreadCount + 1) /\ 0 \in 0..WorkerCount
    BY ConstantsAssumption
  <2>2. /\ <<>> \in Seq(Node) /\ <<>> \in Seq(Task)
        /\ <<>> \in Seq([node : Node, task : Task, next : Nat])
        /\ <<>> \in Seq([pTask : Task, IsWriter : BOOLEAN])
        /\ 0 \in 0..Len(<<>>)
    OBVIOUS
  <2>3. tasks \in [Task -> [flow : Nat, node : Node \cup {0}, mIsAcceptTrigger : BOOLEAN,
                            mWaitingLockCount : Nat]]
    BY DEF Init
  <2>4. /\ mPendingNodes \in [Thread -> Seq(Node)]
        /\ waiters \in [Node -> Seq([pTask : Task, IsWriter : BOOLEAN])]
        /\ mDispatchedTasks \in [Worker -> Seq(Task)]
    BY <2>2 DEF Init
  <2>5. QED
    BY <2>1, <2>2, <2>3, <2>4 DEF Init, TypeOK
<1>2. Visited = {} /\ DOMAIN stack = {} /\ DOMAIN mPendingTask = {}
  BY DEF Init, Visited, IsDispatched
<1>3. PoolInv
  <2>1. \A t \in Task : tasks[t].flow <= workflowId
    BY DEF Init
  <2>2. QED
    BY <2>1 DEF Init, PoolInv
<1>4. StackInv
  BY <1>2 DEF Init, StackInv
<1>5. PendingInv
  BY <1>2 DEF PendingInv
<1>6. ReachInv /\ CountInv /\ HandedInv /\ PhaseInv
  BY <1>2 DEF Init, ReachInv, CountInv, HandedInv, PhaseInv
<1>7. WaitersInv
  BY <1>2 DEF Init, WaitersInv
<1>8. QED
  BY <1>1, <1>3, <1>4, <1>5, <1>6, <1>7 DEF DispatcherInv

LEMMA StepInv ==
  ASSUME DispatcherInv, [FreshNext]_vars
  PROVE  DispatcherInv'
<1>1. CASE FreshNext
  <2>1. mNextTaskPos' # mNextTaskPos => Fresh(Top'.task, Top'.node)
    BY <1>1 DEF FreshNext
  <2>2. ASSUME NEW t \in Thread, NEW n \in Node, Raise(t, n)
        PROVE  DispatcherInv'
    BY <2>2, RaiseKeepsInv
  <2>3. CASE Consume
    BY <2>3, ConsumeKeepsInv
  <2>4. CASE VisitRaised
    BY <2>1, <2>4, VisitRaisedKeepsInv
  <2>5. CASE VisitSuccessor
    BY <2>1, <2>5, VisitSuccessorKeepsInv
  <2>6. CASE Return
    BY <2>6, ReturnKeepsInv
  <2>7. CASE EndConsume
    BY <2>7, EndConsumeKeepsInv
  <2>8. CASE Register
    BY <2>8, RegisterKeepsInv
  <2>9. CASE EndRegister
    BY <2>9, EndRegisterKeepsInv
  <2>10. CASE Dispatch
    BY <2>10, DispatchKeepsInv
  <2>11. CASE EndPass
    BY <2>11, EndPassKeepsInv
  <2>12. ASSUME NEW w \in Worker, Take(w)
         PROVE  DispatcherInv'
    BY <2>12, TakeKeepsInv
  <2>13. QED
    BY <1>1, <2>2, <2>3, <2>4, <2>5, <2>6, <2>7, <2>8, <2>9, <2>10, <2>11, <2>12
    DEF FreshNext, Next
<1>2. CASE UNCHANGED vars
  <2>1. /\ UNCHANGED <<successors, workflowId, visitVars, raised, mLastDispatchedTask, tasks,
                       mPendingTask, waiters, stack, consumed, step, position,
                       mDispatchedTasks>>
        /\ UNCHANGED <<queueVars, poolVars, fromWorker>>
    BY <1>2 DEF vars, visitVars, poolVars
  <2>2. TypeOK /\ WaitersInv /\ PhaseInv /\ HandedInv
    BY DEF DispatcherInv
  <2>3. PoolInv' /\ StackInv' /\ PendingInv' /\ ReachInv' /\ CountInv'
    BY <2>1, SameVisit
  <2>4. WaitersInv'
    BY <2>1, <2>2, SameWaiters DEF RegisteredCount
  <2>5. HandedInv' /\ PhaseInv'
    BY <2>1, <2>2, SameHanded DEF PhaseInv
  <2>6. TypeOK'
    BY <2>1, <2>2 DEF TypeOK, queueVars, poolVars
  <2>7. QED
    BY <2>3, <2>4, <2>5, <2>6 DEF DispatcherInv
<1>3. QED
  BY <1>1, <1>2

-----------------------------------------------------------------------------
(* What the invariant says of a pass.                                      *)

LEMMA PassVisits ==
  ASSUME DispatcherInv, stack = <<>>
  PROVE  PassNodes = Visited
<1>1. TypeOK /\ PendingInv
  BY DEF DispatcherInv
<1>2. OnStack = {}
  BY DEF OnStack
<1>3. Visited \subseteq PassNodes
  BY <1>1, <1>2 DEF PendingInv
<1>4. PassNodes \subseteq Visited
  BY <1>1, TaskFacts DEF PendingInv
<1>5. QED
  BY <1>3, <1>4

LEMMA InvDispatchedThroughOne ==
  ASSUME DispatcherInv
  PROVE  DispatchedThroughOne
<1> SUFFICES ASSUME stack = <<>>
             PROVE  /\ PassNodes = Reached(raised)
                    /\ Len(mPendingTask) = Cardinality(PassNodes)
  BY DEF DispatchedThroughOne
<1>0. TypeOK /\ PendingInv /\ ReachInv
  BY DEF DispatcherInv
<1>1. PassNodes = Visited /\ PassNodes \subseteq Node
  BY <1>0, PassVisits, TaskFacts
<1>2. Closed(PassNodes)
  <2>1. ASSUME NEW n \in PassNodes, NEW m \in Range(successors[n])
        PROVE  m \in PassNodes
    <3>1. PICK k \in DOMAIN mPendingTask : NodeOf(mPendingTask[k]) = n
      BY <1>0, TaskFacts
    <3>2. PICK j \in 1..(k - 1) : NodeOf(mPendingTask[j]) = m
      BY <1>0, <2>1, <3>1 DEF PendingInv
    <3>3. k \in 1..Len(mPendingTask) /\ Len(mPendingTask) \in Nat
      BY <1>0, TaskFacts
    <3>4. j \in 1..Len(mPendingTask)
      BY <3>2, <3>3
    <3>5. QED
      BY <1>0, <3>2, <3>4, TaskFacts
  <2>2. QED
    BY <2>1 DEF Closed
<1>3. PassNodes = Reached(raised)
  <2>1. Reached(raised) \subseteq PassNodes
    BY <1>0, <1>1, <1>2, ReachFacts DEF ReachInv, TypeOK
  <2>2. QED
    BY <1>0, <1>1, <2>1 DEF ReachInv
<1>4. Len(mPendingTask) = Cardinality(PassNodes)
  <2> DEFINE f == [k \in 1..Len(mPendingTask) |-> NodeOf(mPendingTask[k])]
  <2>1. Len(mPendingTask) \in Nat /\ DOMAIN mPendingTask = 1..Len(mPendingTask)
    BY <1>0, TaskFacts
  <2>2. /\ f \in [1..Len(mPendingTask) -> PassNodes]
        /\ \A n \in PassNodes : \E k \in 1..Len(mPendingTask) : f[k] = n
    BY <1>0, <2>1, TaskFacts
  <2>3. \A j, k \in 1..Len(mPendingTask) : f[j] = f[k] => j = k
    BY <1>0, <2>1, PendingFacts
  <2>4. f \in Injection(1..Len(mPendingTask), PassNodes)
    BY <2>2, <2>3, Fun_IsInj
  <2>5. f \in Surjection(1..Len(mPendingTask), PassNodes)
    BY <2>2, Fun_IsSurj
  <2>6. ExistsBijection(1..Len(mPendingTask), PassNodes)
    BY <2>4, <2>5 DEF ExistsBijection, Bijection
  <2>7. /\ IsFiniteSet(1..Len(mPendingTask))
        /\ Cardinality(1..Len(mPendingTask)) = Len(mPendingTask)
    BY <2>1, FS_Interval
  <2>8. QED
    BY <2>6, <2>7, FS_Bijection
<1>5. QED
  BY <1>3, <1>4

LEMMA InvWaitingLockCounts ==
  ASSUME DispatcherInv
  PROVE  WaitingLockCounts
<1> SUFFICES ASSUME NEW t \in Range(mPendingTask), step # "consume"
             PROVE  /\ tasks[t].mWaitingLockCount =
                         Cardinality(Precursors(NodeOf(t)) \cap PassNodes)
                    /\ tasks[t].mIsAcceptTrigger = (NodeOf(t) \in raised \cup AlwaysAccept)
  BY DEF WaitingLockCounts
<1>0. TypeOK /\ PendingInv /\ CountInv /\ PhaseInv
  BY DEF DispatcherInv
<1>1. stack = <<>>
  BY <1>0 DEF PhaseInv
<1>2. NodeOf(t) \in Visited /\ mLastDispatchedTask[NodeOf(t)] = t
  BY <1>0 DEF PendingInv, Range
<1>3. \A p : PassedOn(p, NodeOf(t)) <=> p \in PassNodes
  BY <1>1 DEF PassedOn
<1>4. {p \in Precursors(NodeOf(t)) : PassedOn(p, NodeOf(t))} = Precursors(NodeOf(t)) \cap PassNodes
  BY <1>3
<1>5. /\ tasks[t].mWaitingLockCount =
           Cardinality({p \in Precursors(NodeOf(t)) : PassedOn(p, NodeOf(t))})
      /\ tasks[t].mIsAcceptTrigger =
           (NodeOf(t) \in AlwaysAccept \/ (NodeOf(t) \in raised
                 /\ (stack = <<>> \/ stack[1].node # NodeOf(t))))
  <2>1. PICK n \in Visited : n = NodeOf(t) /\ mLastDispatchedTask[n] = t
    BY <1>2
  <2>2. /\ tasks[mLastDispatchedTask[n]].mWaitingLockCount =
             Cardinality({p \in Precursors(n) : PassedOn(p, n)})
        /\ tasks[mLastDispatchedTask[n]].mIsAcceptTrigger =
             (n \in AlwaysAccept \/ (n \in raised /\ (stack = <<>> \/ stack[1].node # n)))
    BY <1>0 DEF CountInv
  <2>3. QED
    BY <2>1, <2>2, Zenon
<1>6. (NodeOf(t) \in AlwaysAccept \/ (NodeOf(t) \in raised
         /\ (stack = <<>> \/ stack[1].node # NodeOf(t))))
        <=> NodeOf(t) \in raised \cup AlwaysAccept
  BY <1>1
<1>7. tasks[t].mIsAcceptTrigger = (NodeOf(t) \in raised \cup AlwaysAccept)
  BY ONLY <1>5, <1>6
<1>8. QED
  BY <1>4, <1>5, <1>7

(* Once the pass dispatches, all its tasks are registered.                 *)
LEMMA AllRegistered ==
  ASSUME DispatcherInv, step = "dispatch",
         NEW k \in DOMAIN mPendingTask,
         NEW n \in Precursors(NodeOf(mPendingTask[k])) \cup {NodeOf(mPendingTask[k])}
  PROVE  \E i \in DOMAIN waiters[n] : waiters[n][i].pTask = mPendingTask[k]
<1>1. k \in 1..Len(mPendingTask) /\ Len(mPendingTask) \in Nat
  BY TaskFacts DEF DispatcherInv
<1>2. k + Len(mPendingTask) > Len(mPendingTask)
  BY ONLY <1>1
<1>3. IsRegistered(k)
  BY <1>2 DEF IsRegistered, RegisteredCount
<1>4. QED
  BY <1>3 DEF DispatcherInv, WaitersInv

LEMMA InvOwnTaskFirst ==
  ASSUME DispatcherInv
  PROVE  OwnTaskFirst
<1> SUFFICES ASSUME step = "dispatch", NEW n \in Node
             PROVE  LET own == {k \in DOMAIN waiters[n] : waiters[n][k].IsWriter}
                        readers == [k \in DOMAIN waiters[n] |-> NodeOf(waiters[n][k].pTask)]
                    IN  /\ own = IF n \in PassNodes THEN {1} ELSE {}
                        /\ Range(readers) \ {n} = Range(successors[n]) \cap PassNodes
                        /\ IsInjective(readers)
  BY DEF OwnTaskFirst
<1> DEFINE own == {k \in DOMAIN waiters[n] : waiters[n][k].IsWriter}
           readers == [k \in DOMAIN waiters[n] |-> NodeOf(waiters[n][k].pTask)]
<1>0. TypeOK /\ PendingInv /\ WaitersInv
  BY DEF DispatcherInv
<1>1. ASSUME NEW i \in DOMAIN waiters[n]
      PROVE  /\ \E k \in DOMAIN mPendingTask : mPendingTask[k] = waiters[n][i].pTask
             /\ NodeOf(waiters[n][i].pTask) \in PassNodes /\ NodeOf(waiters[n][i].pTask) \in Node
             /\ n = NodeOf(waiters[n][i].pTask) \/ n \in Precursors(NodeOf(waiters[n][i].pTask))
             /\ waiters[n][i].IsWriter = (n = NodeOf(waiters[n][i].pTask))
             /\ n \in PassNodes => waiters[n][i].IsWriter = (i = 1)
  <2>1. PICK k \in DOMAIN mPendingTask : mPendingTask[k] = waiters[n][i].pTask
    BY <1>0 DEF WaitersInv
  <2>2. NodeOf(waiters[n][i].pTask) \in PassNodes /\ NodeOf(waiters[n][i].pTask) \in Node
    BY <1>0, <2>1, PendingFacts
  <2>3. QED
    BY <1>0, <2>1, <2>2 DEF WaitersInv
<1>2. own = IF n \in PassNodes THEN {1} ELSE {}
  <2>1. CASE n \in PassNodes
    <3>1. PICK k \in DOMAIN mPendingTask : NodeOf(mPendingTask[k]) = n
      BY <1>0, <2>1, TaskFacts
    <3>2. PICK i \in DOMAIN waiters[n] : waiters[n][i].pTask = mPendingTask[k]
      BY <3>1, AllRegistered
    <3>3. i = 1 /\ waiters[n][i].IsWriter
      BY <1>1, <2>1, <3>1, <3>2
    <3>4. QED
      BY <1>1, <2>1, <3>3
  <2>2. CASE n \notin PassNodes
    BY <1>1, <2>2
  <2>3. QED
    BY <2>1, <2>2
<1>3. Range(readers) \ {n} = Range(successors[n]) \cap PassNodes
  <2>1. ASSUME NEW m \in Range(readers), m # n
        PROVE  m \in Range(successors[n]) \cap PassNodes
    <3>1. PICK i \in DOMAIN waiters[n] : m = NodeOf(waiters[n][i].pTask)
      BY DEF Range
    <3>2. n \in Precursors(m) /\ m \in PassNodes
      BY <1>1, <2>1, <3>1
    <3>3. QED
      BY <3>2 DEF Precursors
  <2>2. ASSUME NEW m \in Range(successors[n]), m \in PassNodes
        PROVE  m \in Range(readers) \ {n}
    <3>1. PICK k \in DOMAIN mPendingTask : NodeOf(mPendingTask[k]) = m
      BY <1>0, <2>2, TaskFacts
    <3>2. n \in Precursors(m)
      BY <2>2 DEF Precursors
    <3>3. PICK i \in DOMAIN waiters[n] : waiters[n][i].pTask = mPendingTask[k]
      BY <3>1, <3>2, AllRegistered
    <3>4. m \in Range(readers)
      BY <3>1, <3>3 DEF Range
    <3>5. m # n
      <4>1. PICK j \in 1..Len(successors[n]) : successors[n][j] = m
        BY <1>0, <2>2, GraphFacts
      <4>2. n \in Nat /\ n < m
        BY <1>0, <4>1, GraphFacts
      <4>3. QED
        BY ONLY <4>2
    <3>6. QED
      BY <3>4, <3>5
  <2>3. QED
    BY <2>1, <2>2
<1>4. IsInjective(readers)
  <2>1. ASSUME NEW i \in DOMAIN waiters[n], NEW j \in DOMAIN waiters[n],
               NodeOf(waiters[n][i].pTask) = NodeOf(waiters[n][j].pTask)
        PROVE  i = j
    <3>1. PICK h \in DOMAIN mPendingTask : mPendingTask[h] = waiters[n][i].pTask
      BY <1>1
    <3>2. PICK k \in DOMAIN mPendingTask : mPendingTask[k] = waiters[n][j].pTask
      BY <1>1
    <3>3. h = k
      BY <1>0, <2>1, <3>1, <3>2, PendingFacts
    <3>4. QED
      BY <1>0, <3>1, <3>2, <3>3 DEF WaitersInv
  <2>2. QED
    BY <2>1 DEF IsInjective
<1>5. QED
  BY <1>2, <1>3, <1>4

LEMMA InvRegisteredBeforeDispatch ==
  ASSUME DispatcherInv
  PROVE  RegisteredBeforeDispatch
<1> SUFFICES ASSUME NEW w \in Worker, NEW u \in Range(mDispatchedTasks[w]),
                    u \in Range(mPendingTask), NEW t \in Range(mPendingTask)
             PROVE  [pTask |-> t, IsWriter |-> TRUE] \in Range(waiters[NodeOf(t)])
  BY DEF RegisteredBeforeDispatch
<1>0. TypeOK /\ PendingInv /\ WaitersInv /\ HandedInv
  BY DEF DispatcherInv
<1>1. step = "dispatch"
  <2>1. NodeOf(u) \in Visited /\ mLastDispatchedTask[NodeOf(u)] = u
    BY <1>0 DEF PendingInv, Range
  <2>2. QED
    BY <1>0, <2>1 DEF HandedInv
<1>2. PICK k \in DOMAIN mPendingTask : mPendingTask[k] = t
  BY DEF Range
<1>3. NodeOf(t) \in Node
  BY <1>0, <1>2, PendingFacts
<1>4. PICK i \in DOMAIN waiters[NodeOf(t)] : waiters[NodeOf(t)][i].pTask = t
  BY <1>1, <1>2, AllRegistered
<1>5. waiters[NodeOf(t)][i].IsWriter = TRUE
  <2>1. waiters[NodeOf(t)][i].IsWriter = (NodeOf(t) = NodeOf(waiters[NodeOf(t)][i].pTask))
    BY <1>0, <1>3 DEF WaitersInv
  <2>2. QED
    BY <1>4, <2>1
<1>6. waiters[NodeOf(t)][i] \in [pTask : Task, IsWriter : BOOLEAN]
  <2>1. waiters[NodeOf(t)] \in Seq([pTask : Task, IsWriter : BOOLEAN])
    BY <1>0, <1>3 DEF TypeOK
  <2>2. PICK s \in Seq([pTask : Task, IsWriter : BOOLEAN]) : s = waiters[NodeOf(t)]
    BY <2>1
  <2>3. i \in 1..Len(s)
    BY <1>4, <2>2, Members
  <2>4. QED
    BY <2>2, <2>3, Members
<1>7. waiters[NodeOf(t)][i] = [pTask |-> t, IsWriter |-> TRUE]
  BY <1>4, <1>5, <1>6
<1>8. QED
  BY <1>7 DEF Range

-----------------------------------------------------------------------------
(* In every state of the specification, as long as the tasks that the pool *)
(* hands out are fresh: the calls of VisitNode under way, the tasks        *)
(* created, their counts and their places in the queues of the locks are   *)
(* what the raises consumed so far make them (Dispatcher.cpp:52, 101).     *)
THEOREM DispatcherInvariant == FreshSpec => []DispatcherInv
<1>1. Init => DispatcherInv
  BY InitInv
<1>2. DispatcherInv /\ [FreshNext]_vars => DispatcherInv'
  BY StepInv
<1>3. QED
  BY <1>1, <1>2, PTL DEF FreshSpec

(* However the raises of a pass overlap, for any graph: every node they    *)
(* reach is dispatched in it, through one task (Dispatcher.cpp:54).        *)
THEOREM PassDispatchesReached == FreshSpec => []DispatchedThroughOne
<1>1. DispatcherInv => DispatchedThroughOne
  BY InvDispatchedThroughOne
<1>2. QED
  BY <1>1, DispatcherInvariant, PTL

(* A task waits for each of its node's precursors that the pass dispatches *)
(* once, and is accepted at once iff its node was raised or always accepts *)
(* (Dispatcher.cpp:81, 120).                                               *)
THEOREM TasksWaitForPrecursors == FreshSpec => []WaitingLockCounts
<1>1. DispatcherInv => WaitingLockCounts
  BY InvWaitingLockCounts
<1>2. QED
  BY <1>1, DispatcherInvariant, PTL

(* What SharedMutex relies on: when a pass is dispatched, every lock has   *)
(* its node's own task first, and the readers of the pass once each        *)
(* behind it (Dispatcher.cpp:129).                                         *)
THEOREM LocksHaveOwnTaskFirst == FreshSpec => []OwnTaskFirst
<1>1. DispatcherInv => OwnTaskFirst
  BY InvOwnTaskFirst
<1>2. QED
  BY <1>1, DispatcherInvariant, PTL

(* A worker has a task of the pass only when all of the pass is registered *)
(* (Dispatcher.cpp:129-148).                                               *)
THEOREM PassRegisteredFirst == FreshSpec => []RegisteredBeforeDispatch
<1>1. DispatcherInv => RegisteredBeforeDispatch
  BY InvRegisteredBeforeDispatch
<1>2. QED
  BY <1>1, DispatcherInvariant, PTL
=============================================================================
