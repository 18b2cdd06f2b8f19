----------------------------- MODULE Dispatcher -----------------------------
(***************************************************************************)
(* The dispatcher thread (Dispatcher.cpp).  Any thread raises nodes into   *)
(* its own queue; one pass of Run consumes the queues, creates a task for  *)
(* every node reached from a raised one, registers all of them with the    *)
(* locks of their nodes and of their precursors, and only then hands them  *)
(* to their workers.  What a worker does with a task is not part of this   *)
(* module: taking it ends it here.                                         *)
(***************************************************************************)
EXTENDS Integers, Sequences, FiniteSets, SequencesExt

CONSTANTS
  NodeCount,      \* nodes 1..NodeCount, numbered along the edges
  ThreadCount,    \* threads that raise, each with a queue of its own
  WorkerCount,
  PoolSize,       \* TASK_POOL_SIZE
  AlwaysAccept,   \* the nodes with mAlwaysAccept
  MaxRaises       \* bound on the raises of one behaviour

ASSUME ConstantsAssumption ==
  /\ NodeCount \in Nat /\ ThreadCount \in Nat /\ MaxRaises \in Nat
  /\ WorkerCount \in Nat \ {0} /\ PoolSize \in Nat \ {0}
  /\ AlwaysAccept \subseteq 1..NodeCount

VARIABLES
  successors,     \* mSuccessors of each node, in the order of Connect
  mPendingNodes,  \* the raises each thread has queued
  raises,         \* how many raises there were
  fromWorker,     \* the queue the pass consumes next
  consumed,       \* what consume_all took and has not yet passed to VisitNode
  workflowId,
  mLastDispatchedTask,
  tasks,          \* the pools, by worker and position
  mNextTaskPos, Loop,
  mPendingTask,
  stack,          \* the calls of VisitNode under way, with their iterators
  step,           \* "consume", "register", "dispatch"
  position,       \* tasks of the pass registered, or handed out, so far
  waiters,        \* what this pass pushed into each node's mWaiters
  mDispatchedTasks, \* tasks handed to each worker and not taken yet
  raised          \* the nodes whose raises this pass consumed

poolVars == <<mLastDispatchedTask, tasks, mNextTaskPos, Loop>>
visitVars == <<poolVars, mPendingTask, stack>>
queueVars == <<mPendingNodes, raises>>
vars == <<successors, queueVars, fromWorker, consumed, workflowId, visitVars, step,
          position, waiters, mDispatchedTasks, raised>>

Node == 1..NodeCount
Thread == 1..ThreadCount
Worker == 1..WorkerCount
Task == Worker \X (0..(PoolSize - 1))
NoTask == <<0, 0>>

(* Every acyclic graph with every order of Connect calls.                  *)
SuccessorLists(n) ==
  UNION {SetToSeqs(later) : later \in SUBSET {m \in Node : m > n}}
Graphs == {g \in [Node -> UNION {SuccessorLists(n) : n \in Node}] :
             \A n \in Node : g[n] \in SuccessorLists(n)}

Precursors(n) == {p \in Node : n \in Range(successors[p])}

Init ==
  /\ successors \in Graphs
  /\ mPendingNodes = [t \in Thread |-> <<>>]
  /\ raises = 0
  /\ fromWorker = 1 /\ consumed = <<>>
  /\ workflowId = 1
  /\ mLastDispatchedTask = [n \in Node |-> NoTask]
  /\ tasks = [t \in Task |-> [flow |-> 0, node |-> 0, mIsAcceptTrigger |-> FALSE,
                              mWaitingLockCount |-> 0]]
  /\ mNextTaskPos = [w \in Worker |-> 0]
  /\ Loop = 0
  /\ mPendingTask = <<>> /\ stack = <<>>
  /\ step = "consume" /\ position = 0
  /\ waiters = [n \in Node |-> <<>>]
  /\ mDispatchedTasks = [w \in Worker |-> <<>>]
  /\ raised = {}

Raise(t, n) ==
  /\ raises < MaxRaises
  /\ raises' = raises + 1
  /\ mPendingNodes' = [mPendingNodes EXCEPT ![t] = Append(@, n)]
  /\ UNCHANGED <<successors, fromWorker, consumed, workflowId, visitVars, step, position,
                 waiters, mDispatchedTasks, raised>>
-----------------------------------------------------------------------------
(* VisitNode calls itself for every successor.  A step is a call, or a     *)
(* return; raises may come between any two.                                *)

SelectWorker == (Loop % WorkerCount) + 1

AllocateTaskFromPool(w) == <<w, mNextTaskPos[w] % PoolSize>>

(* Mutant: a task of this workflow does not count.                         *)
IsDispatched_Later(n) ==
  LET task == mLastDispatchedTask[n]
  IN  task # NoTask /\ workflowId < tasks[task].flow
IsDispatched(n) ==
  LET task == mLastDispatchedTask[n]
  IN  task # NoTask /\ workflowId <= tasks[task].flow

NewTask(n, accept) ==
  LET w == SelectWorker
      task == AllocateTaskFromPool(w)
  IN  /\ Loop' = w
      /\ mNextTaskPos' = [mNextTaskPos EXCEPT ![w] = @ + 1]
      /\ tasks' = [tasks EXCEPT ![task] = [flow |-> workflowId, node |-> n,
                      mIsAcceptTrigger |-> accept, mWaitingLockCount |-> 0]]
      /\ mLastDispatchedTask' = [mLastDispatchedTask EXCEPT ![n] = task]
      /\ stack' = Append(stack, [node |-> n, task |-> task, next |-> 1])
      /\ UNCHANGED mPendingTask

(* Mutant: mAlwaysAccept is ignored.                                       *)
CreateTask_Unaccepted(n) == NewTask(n, FALSE)
CreateTask(n) == NewTask(n, n \in AlwaysAccept)

(* The end of a call: Run calls for a raise, VisitNode for a precursor.    *)
Triggered(task, isSelfRaise) ==
  IF isSelfRaise THEN [task EXCEPT !.mIsAcceptTrigger = TRUE]
                 ELSE [task EXCEPT !.mWaitingLockCount = @ + 1]

(* The caller goes on to its next successor.                               *)
Resumed(frames) ==
  IF frames = <<>> THEN frames ELSE [frames EXCEPT ![Len(frames)].next = @ + 1]

VisitNode(n) ==
  \/ /\ ~IsDispatched(n)
     /\ CreateTask(n)
  \/ /\ IsDispatched(n)
     /\ tasks' = [tasks EXCEPT ![mLastDispatchedTask[n]] = Triggered(@, stack = <<>>)]
     /\ stack' = Resumed(stack)
     /\ UNCHANGED <<mLastDispatchedTask, mNextTaskPos, Loop, mPendingTask>>

Top == stack[Len(stack)]

VisitSuccessor ==
  /\ stack # <<>> /\ Top.next <= Len(successors[Top.node])
  /\ VisitNode(successors[Top.node][Top.next])
  /\ UNCHANGED <<successors, queueVars, fromWorker, consumed, workflowId, step, position,
                 waiters, mDispatchedTasks, raised>>

(* All successors are visited, and the call returns.                       *)
Return ==
  /\ stack # <<>> /\ Top.next > Len(successors[Top.node])
  /\ mPendingTask' = Append(mPendingTask, Top.task)
  /\ tasks' = [tasks EXCEPT ![Top.task] = Triggered(@, Len(stack) = 1)]
  /\ stack' = Resumed(Front(stack))
  /\ UNCHANGED <<successors, queueVars, fromWorker, consumed, workflowId,
                 mLastDispatchedTask, mNextTaskPos, Loop, step, position, waiters,
                 mDispatchedTasks, raised>>

(* consume_all takes what the queue holds when it is called.               *)
Consume ==
  /\ step = "consume" /\ stack = <<>> /\ consumed = <<>> /\ fromWorker <= ThreadCount
  /\ consumed' = mPendingNodes[fromWorker]
  /\ mPendingNodes' = [mPendingNodes EXCEPT ![fromWorker] = <<>>]
  /\ fromWorker' = fromWorker + 1
  /\ UNCHANGED <<successors, raises, workflowId, visitVars, step, position, waiters,
                 mDispatchedTasks, raised>>

VisitRaised ==
  /\ stack = <<>> /\ consumed # <<>>
  /\ VisitNode(Head(consumed))
  /\ consumed' = Tail(consumed)
  /\ raised' = raised \cup {Head(consumed)}
  /\ UNCHANGED <<successors, queueVars, fromWorker, workflowId, step, position, waiters,
                 mDispatchedTasks>>

EndConsume ==
  /\ step = "consume" /\ stack = <<>> /\ consumed = <<>> /\ fromWorker > ThreadCount
  /\ step' = "register" /\ position' = 0
  /\ UNCHANGED <<successors, queueVars, fromWorker, consumed, workflowId, visitVars, waiters,
                 mDispatchedTasks, raised>>

(* Both loops over mPendingTask run from its end.                          *)
(* Mutant: they run from its front.                                        *)
Current_FromFront == mPendingTask[position + 1]
Current == mPendingTask[Len(mPendingTask) - position]

(* LockShared on every precursor, then Lock on the own node.               *)
Register ==
  /\ step = "register" /\ position < Len(mPendingTask)
  /\ LET node == tasks[Current].node
     IN  waiters' = [n \in Node |->
           IF n = node \/ n \in Precursors(node)
             THEN Append(waiters[n], [pTask |-> Current, IsWriter |-> n = node])
             ELSE waiters[n]]
  /\ position' = position + 1
  /\ UNCHANGED <<successors, queueVars, fromWorker, consumed, workflowId, visitVars, step,
                 mDispatchedTasks, raised>>

(* Mutant: a task is dispatched before the others are registered.          *)
EndRegister_Early ==
  /\ step = "register"
  /\ step' = "dispatch" /\ position' = 0
  /\ UNCHANGED <<successors, queueVars, fromWorker, consumed, workflowId, visitVars, waiters,
                 mDispatchedTasks, raised>>
EndRegister ==
  /\ step = "register" /\ position = Len(mPendingTask)
  /\ step' = "dispatch" /\ position' = 0
  /\ UNCHANGED <<successors, queueVars, fromWorker, consumed, workflowId, visitVars, waiters,
                 mDispatchedTasks, raised>>

Dispatch ==
  /\ step = "dispatch" /\ position < Len(mPendingTask)
  /\ mDispatchedTasks' = [mDispatchedTasks EXCEPT ![Current[1]] = Append(@, Current)]
  /\ position' = position + 1
  /\ UNCHANGED <<successors, queueVars, fromWorker, consumed, workflowId, visitVars, step,
                 waiters, raised>>

EndPass ==
  /\ step = "dispatch" /\ position = Len(mPendingTask)
  /\ step' = "consume" /\ position' = 0 /\ fromWorker' = 1
  /\ workflowId' = IF raised = {} THEN workflowId ELSE workflowId + 1
  /\ mPendingTask' = <<>>
  /\ waiters' = [n \in Node |-> <<>>]
  /\ raised' = {}
  /\ UNCHANGED <<successors, queueVars, consumed, poolVars, stack, mDispatchedTasks>>

Take(w) ==
  /\ mDispatchedTasks[w] # <<>>
  /\ mDispatchedTasks' = [mDispatchedTasks EXCEPT ![w] = Tail(@)]
  /\ UNCHANGED <<successors, queueVars, fromWorker, consumed, workflowId, visitVars, step,
                 position, waiters, raised>>

Next ==
  \/ \E t \in Thread, n \in Node : Raise(t, n)
  \/ Consume \/ VisitRaised \/ VisitSuccessor \/ Return \/ EndConsume \/ Register \/ EndRegister
  \/ Dispatch \/ EndPass
  \/ \E w \in Worker : Take(w)

Spec == Init /\ [][Next]_vars

(* The pool hands out by position, and does not ask (Worker.cpp:73).  A    *)
(* task that it hands out is fresh if it is not the last of another node,  *)
(* nor still with its worker.                                              *)
Fresh(task, n) ==
  /\ \A m \in Node : mLastDispatchedTask[m] = task => m = n
  /\ \A w \in Worker : task \notin Range(mDispatchedTasks[w])
FreshNext ==
  /\ Next
  /\ mNextTaskPos' # mNextTaskPos => Fresh(Top'.task, Top'.node)
FreshSpec == Init /\ [][FreshNext]_vars
-----------------------------------------------------------------------------
TypeOK ==
  /\ successors \in Graphs
  /\ mPendingNodes \in [Thread -> Seq(Node)]
  /\ raises \in 0..MaxRaises
  /\ fromWorker \in 1..(ThreadCount + 1)
  /\ consumed \in Seq(Node)
  /\ workflowId \in Nat
  /\ mLastDispatchedTask \in [Node -> Task \cup {NoTask}]
  /\ tasks \in [Task -> [flow : Nat, node : Node \cup {0}, mIsAcceptTrigger : BOOLEAN,
                         mWaitingLockCount : Nat]]
  /\ mNextTaskPos \in [Worker -> Nat]
  /\ Loop \in 0..WorkerCount
  /\ mPendingTask \in Seq(Task)
  /\ stack \in Seq([node : Node, task : Task, next : Nat])
  /\ step \in {"consume", "register", "dispatch"}
  /\ position \in 0..Len(mPendingTask)
  /\ waiters \in [Node -> Seq([pTask : Task, IsWriter : BOOLEAN])]
  /\ mDispatchedTasks \in [Worker -> Seq(Task)]
  /\ raised \subseteq Node

(* The nodes a raise of some node in from reaches: they are in every set   *)
(* that holds from and the successors of its own members.                  *)
Closed(s) == \A n \in s : Range(successors[n]) \subseteq s
Reached(from) == {n \in Node : \A s \in SUBSET Node : from \subseteq s /\ Closed(s) => n \in s}

NodeOf(task) == tasks[task].node
PassNodes == {NodeOf(t) : t \in Range(mPendingTask)}

(* However the raises of a pass overlap, every node reached is dispatched  *)
(* in it through exactly one of the raises and precursors that reach it    *)
(* (Dispatcher.cpp:54).                                                    *)
DispatchedThroughOne ==
  stack = <<>> =>
  /\ PassNodes = Reached(raised)
  /\ Len(mPendingTask) = Cardinality(PassNodes)

(* What a task waits for before it may run unaccepted: once per precursor  *)
(* in the same pass.  It is accepted at once iff it was raised itself or   *)
(* its node always accepts.                                                *)
WaitingLockCounts ==
  \A t \in Range(mPendingTask) : step # "consume" =>
    /\ tasks[t].mWaitingLockCount = Cardinality(Precursors(NodeOf(t)) \cap PassNodes)
    /\ tasks[t].mIsAcceptTrigger = (NodeOf(t) \in raised \cup AlwaysAccept)

(* SharedMutex relies on the order of a pass: a node's own task comes      *)
(* before the readers of the same workflow, which are the tasks of its     *)
(* successors, each once.                                                  *)
OwnTaskFirst ==
  step = "dispatch" =>
    \A n \in Node :
      LET own == {k \in DOMAIN waiters[n] : waiters[n][k].IsWriter}
          readers == [k \in DOMAIN waiters[n] |-> NodeOf(waiters[n][k].pTask)]
      IN  /\ own = IF n \in PassNodes THEN {1} ELSE {}
          /\ Range(readers) \ {n} = Range(successors[n]) \cap PassNodes
          /\ IsInjective(readers)

(* No worker gets a task of a pass before all of the pass is registered:   *)
(* a writer that ran earlier would not wake, nor count for, a reader that  *)
(* is registered behind its back.                                          *)
RegisteredBeforeDispatch ==
  \A w \in Worker : Range(mDispatchedTasks[w]) \cap Range(mPendingTask) # {} =>
    \A t \in Range(mPendingTask) :
      [pTask |-> t, IsWriter |-> TRUE] \in Range(waiters[NodeOf(t)])
=============================================================================
