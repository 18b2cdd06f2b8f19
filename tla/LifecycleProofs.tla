-------------------------- MODULE LifecycleProofs --------------------------
(***************************************************************************)
(* Context::Stop leaves no task behind, for every number of workers and    *)
(* raises, whether or not Start and Stop come at the moments that          *)
(* Timely excludes: tasks are counted when they are created, and a worker  *)
(* compares the counts only after the dispatcher has finished.             *)
(***************************************************************************)
EXTENDS Lifecycle, TLAPS, FiniteSetTheorems

WorkerLabel == {"waitStart", "toSleep", "sleeping", "running", "readDispatcher",
                "readTasks", "work", "exited"}

(* What the counters and labels are; how many there can be does not matter.*)
CountersInv ==
  /\ mPendingNodes \in Nat
  /\ workerPc \in [Worker -> WorkerLabel]
  /\ created \in [Worker -> Nat] /\ mDispatchedTasks \in [Worker -> Nat]
  /\ running \in [Worker -> Nat] /\ mFinishedTasks \in [Worker -> Nat]
  /\ mNextTaskPos \in [Worker -> Nat]

(* A task is counted at its creation and is in one place until it ends.    *)
TasksInv ==
  /\ \A w \in Worker : mNextTaskPos[w] =
       created[w] + mDispatchedTasks[w] + running[w] + mFinishedTasks[w]
  /\ dispatcherPc # "dispatch" => \A w \in Worker : created[w] = 0

(* The dispatcher says that it has finished when it creates no more tasks, *)
(* a worker asks for the tasks only after that, and leaves with none.      *)
LeavingInv ==
  /\ mStopFinished => dispatcherPc = "done"
  /\ \A w \in Worker : workerPc[w] \in {"readTasks", "exited"} => mStopFinished
  /\ \A w \in Worker : workerPc[w] = "exited" => mFinishedTasks[w] = mNextTaskPos[w]
  /\ userPc = "stopped" => \A w \in Worker : workerPc[w] = "exited"

(* The inductive invariant.                                                *)
DrainInv == CountersInv /\ TasksInv /\ LeavingInv

(* The tasks of a pass are counted in natural numbers.                     *)
LEMMA NewTasksType ==
  ASSUME NEW n \in Nat
  PROVE  NewTasks(n) \in [Worker -> Nat]
<1>1. ASSUME NEW w \in Worker
      PROVE  Cardinality({k \in 1..n : ((Loop + k - 1) % WorkerCount) + 1 = w}) \in Nat
  <2>1. IsFiniteSet(1..n)
    BY FS_Interval
  <2>2. {k \in 1..n : ((Loop + k - 1) % WorkerCount) + 1 = w} \subseteq 1..n
    OBVIOUS
  <2>3. QED
    BY <2>1, <2>2, FS_Subset, FS_CardinalityType
<1>2. QED
  BY <1>1 DEF NewTasks

(* Everything is idle at first.                                            *)
LEMMA InitDrain == Init => DrainInv
BY DEF Init, DrainInv, CountersInv, TasksInv, LeavingInv, WorkerLabel, Zero

(* The steps that leave the tasks and the workers' turns alone.            *)
LEMMA StartDrain ==
  ASSUME DrainInv, StartWorker \/ Notify \/ BeginRun \/ LoopTest
  PROVE  DrainInv'
<1>1. UNCHANGED <<userPc, mPendingNodes, created, mDispatchedTasks, running, mFinishedTasks,
                  mNextTaskPos>>
  BY DEF StartWorker, Notify, BeginRun, LoopTest, raiseVars, taskVars
<1>2. CountersInv'
  BY <1>1 DEF DrainInv, CountersInv, StartWorker, Notify, BeginRun, LoopTest, WorkerGoto,
              WorkerLabel
<1>3. TasksInv'
  BY <1>1 DEF DrainInv, TasksInv, StartWorker, Notify, BeginRun, LoopTest
<1>4. LeavingInv'
  BY <1>1 DEF DrainInv, LeavingInv, CountersInv, StartWorker, Notify, BeginRun, LoopTest,
              WorkerGoto, flagVars
<1>5. QED
  BY <1>2, <1>3, <1>4 DEF DrainInv

(* A pass creates tasks while the dispatcher has not finished, hence while *)
(* every worker goes on.                                                   *)
LEMMA ConsumeDrain ==
  ASSUME DrainInv, Consume
  PROVE  DrainInv'
<1>1. PICK new \in [Worker -> Nat] : new = NewTasks(mPendingNodes)
  BY NewTasksType DEF DrainInv, CountersInv
<1>2. /\ created' = new
      /\ mNextTaskPos' = [w \in Worker |-> mNextTaskPos[w] + new[w]]
      /\ mPendingNodes' = 0 /\ dispatcherPc = "consume" /\ dispatcherPc' = "dispatch"
      /\ UNCHANGED <<userPc, workerPc, mStopFinished, mDispatchedTasks, running, mFinishedTasks>>
  BY <1>1 DEF Consume
<1>3. CountersInv'
  BY <1>1, <1>2 DEF DrainInv, CountersInv
<1>4. TasksInv'
  <2>1. \A w \in Worker : created[w] = 0
    BY <1>2 DEF DrainInv, TasksInv
  <2>2. \A w \in Worker : mNextTaskPos'[w] = mNextTaskPos[w] + new[w]
    BY <1>2
  <2>3. \A w \in Worker : mNextTaskPos'[w] =
          created'[w] + mDispatchedTasks'[w] + running'[w] + mFinishedTasks'[w]
    BY <1>1, <1>2, <2>1, <2>2 DEF DrainInv, CountersInv, TasksInv
  <2>4. QED
    BY <1>2, <2>3 DEF TasksInv
<1>5. LeavingInv'
  <2>1. ~mStopFinished /\ \A w \in Worker : workerPc[w] \notin {"readTasks", "exited"}
    BY <1>2 DEF DrainInv, LeavingInv
  <2>2. userPc # "stopped"
    <3>1. 1 \in Worker
      BY ConstantsAssumption DEF Worker
    <3>2. QED
      BY <2>1, <3>1 DEF DrainInv, LeavingInv
  <2>3. QED
    BY <1>2, <2>1, <2>2 DEF LeavingInv
<1>6. QED
  BY <1>3, <1>4, <1>5 DEF DrainInv

(* A task is handed out.                                                   *)
LEMMA DispatchDrain ==
  ASSUME DrainInv, Dispatch
  PROVE  DrainInv'
<1>0. /\ dispatcherPc = "dispatch"
      /\ UNCHANGED <<userPc, workerPc, mStopFinished, mPendingNodes, running, mNextTaskPos,
                     mFinishedTasks>>
  BY DEF Dispatch, flagVars, raiseVars
<1>1. CASE \E w \in Worker : created[w] > 0
  <2>1. PICK w \in Worker :
          /\ created[w] > 0
          /\ created' = [created EXCEPT ![w] = @ - 1]
          /\ mDispatchedTasks' = [mDispatchedTasks EXCEPT ![w] = @ + 1]
          /\ UNCHANGED dispatcherPc
    BY <1>1 DEF Dispatch
  <2>2. CountersInv'
    BY <1>0, <2>1 DEF DrainInv, CountersInv
  <2>3. TasksInv'
    BY <1>0, <2>1 DEF DrainInv, CountersInv, TasksInv
  <2>4. LeavingInv'
    BY <1>0, <2>1 DEF DrainInv, LeavingInv
  <2>5. QED
    BY <2>2, <2>3, <2>4 DEF DrainInv
<1>2. CASE ~\E w \in Worker : created[w] > 0
  <2>1. dispatcherPc' = "loop" /\ UNCHANGED <<created, mDispatchedTasks>>
    BY <1>2 DEF Dispatch
  <2>2. CountersInv'
    BY <1>0, <2>1 DEF DrainInv, CountersInv
  <2>3. TasksInv'
    BY <1>0, <1>2, <2>1 DEF DrainInv, CountersInv, TasksInv
  <2>4. LeavingInv'
    BY <1>0, <2>1 DEF DrainInv, LeavingInv
  <2>5. QED
    BY <2>2, <2>3, <2>4 DEF DrainInv
<1>3. QED
  BY <1>1, <1>2

(* Raises and the user's calls: Stop returns when the workers have left.   *)
LEMMA UserDrain ==
  ASSUME DrainInv,
         \/ UserStep \/ StopDispatcher
         \/ \E t \in Worker \cup {User} : EnqueueTest(t) \/ EnqueuePush(t)
  PROVE  DrainInv'
<1>1. /\ UNCHANGED <<dispatcherPc, workerPc, mStopFinished, created, mDispatchedTasks, running,
                     mFinishedTasks, mNextTaskPos>>
      /\ mPendingNodes' = mPendingNodes \/ mPendingNodes' = mPendingNodes + 1
      /\ userPc' = "stopped" => userPc = "stopped" \/ \A w \in Worker : workerPc[w] = "exited"
  BY DEF UserStep, WaitStarted, JoinDispatcher, StopWorker, JoinWorkers, StopDispatcher,
         EnqueueTest, EnqueuePush, UserGoto, threadVars, flagVars, raiseVars, taskVars
<1>2. CountersInv'
  BY <1>1 DEF DrainInv, CountersInv
<1>3. TasksInv' /\ LeavingInv'
  BY <1>1 DEF DrainInv, TasksInv, LeavingInv
<1>4. QED
  BY <1>2, <1>3 DEF DrainInv

(* A worker's turn: it takes and finishes tasks, and leaves when the tasks *)
(* it has finished are all that were created for it.                       *)
LEMMA WorkerDrain ==
  ASSUME DrainInv, NEW w \in Worker, WorkerStep(w) \/ SpuriousWakeup(w)
  PROVE  DrainInv'
<1>0. /\ UNCHANGED <<dispatcherPc, userPc, mStopFinished, mPendingNodes, created, mNextTaskPos>>
      /\ workerPc \in [Worker -> WorkerLabel] /\ workerPc[w] # "exited"
  BY DEF DrainInv, CountersInv, WorkerStep, StartTest, Sleep, ReadRuning, ReadDispatcher,
         ReadTasks, Work, SpuriousWakeup, flagVars, raiseVars, taskVars
<1>u. userPc # "stopped"
  BY <1>0 DEF DrainInv, LeavingInv
<1>1. CASE \E n \in 0..MaxRaises : Work(w, n)
  <2>1. PICK n \in 0..MaxRaises : Work(w, n)
    BY <1>1
  <2>2. n \in Nat /\ n <= running[w] + mDispatchedTasks[w] /\ WorkerGoto(w, "running")
    BY <2>1, ConstantsAssumption DEF Work
  <2>3. /\ running' = [running EXCEPT ![w] = running[w] + mDispatchedTasks[w] - n]
        /\ mDispatchedTasks' = [mDispatchedTasks EXCEPT ![w] = 0]
        /\ mFinishedTasks' = [mFinishedTasks EXCEPT ![w] = mFinishedTasks[w] + n]
    BY <2>1 DEF Work
  <2>4. CountersInv'
    BY <1>0, <2>2, <2>3 DEF DrainInv, CountersInv, WorkerGoto, WorkerLabel
  <2>5. TasksInv'
    <3>1. \A v \in Worker :
            created[v] + mDispatchedTasks'[v] + running'[v] + mFinishedTasks'[v] =
            created[v] + mDispatchedTasks[v] + running[v] + mFinishedTasks[v]
      BY <2>2, <2>3 DEF DrainInv, CountersInv
    <3>2. QED
      BY <1>0, <3>1 DEF DrainInv, TasksInv
  <2>6. LeavingInv'
    <3>1. \A v \in Worker : workerPc'[v] = IF v = w THEN "running" ELSE workerPc[v]
      BY <1>0, <2>2 DEF WorkerGoto
    <3>2. \A v \in Worker : v # w => mFinishedTasks'[v] = mFinishedTasks[v]
      BY <2>3 DEF DrainInv, CountersInv
    <3>3. QED
      BY <1>0, <1>u, <3>1, <3>2 DEF DrainInv, LeavingInv
  <2>7. QED
    BY <2>4, <2>5, <2>6 DEF DrainInv
<1>2. CASE ReadTasks(w)
  <2>1. PICK label \in {"work", "exited"} :
          /\ WorkerGoto(w, label)
          /\ label = "exited" => ~(mFinishedTasks[w] < mNextTaskPos[w])
    BY <1>2 DEF ReadTasks
  <2>2. workerPc[w] = "readTasks" /\ UNCHANGED <<mDispatchedTasks, running, mFinishedTasks>>
    BY <1>2 DEF ReadTasks, taskVars
  <2>3. \A v \in Worker : workerPc'[v] = IF v = w THEN label ELSE workerPc[v]
    BY <1>0, <2>1 DEF WorkerGoto
  <2>4. label = "exited" => mFinishedTasks[w] = mNextTaskPos[w]
    <3>1. PICK c \in Nat, d \in Nat, r \in Nat, f \in Nat :
            /\ created[w] = c /\ mDispatchedTasks[w] = d /\ running[w] = r
            /\ mFinishedTasks[w] = f
      BY DEF DrainInv, CountersInv
    <3>2. mNextTaskPos[w] = c + d + r + f
      BY <3>1 DEF DrainInv, TasksInv
    <3>3. label = "exited" => f = c + d + r + f
      BY <2>1, <3>1, <3>2
    <3>4. QED
      BY <3>1, <3>2, <3>3
  <2>5. CountersInv'
    BY <1>0, <2>1, <2>2 DEF DrainInv, CountersInv, WorkerGoto, WorkerLabel
  <2>6. TasksInv'
    BY <1>0, <2>2 DEF DrainInv, TasksInv
  <2>7. LeavingInv'
    BY <1>0, <1>u, <2>2, <2>3, <2>4 DEF DrainInv, LeavingInv
  <2>8. QED
    BY <2>5, <2>6, <2>7 DEF DrainInv
<1>3. CASE StartTest(w) \/ Sleep(w) \/ SpuriousWakeup(w) \/ ReadRuning(w) \/ ReadDispatcher(w)
  <2>1. PICK label \in WorkerLabel \ {"exited"} :
          WorkerGoto(w, label) /\ (label = "readTasks" => mStopFinished)
    BY <1>3 DEF StartTest, Sleep, SpuriousWakeup, ReadRuning, ReadDispatcher, WorkerLabel
  <2>2. UNCHANGED <<mDispatchedTasks, running, mFinishedTasks>>
    BY <1>3 DEF StartTest, Sleep, SpuriousWakeup, ReadRuning, ReadDispatcher, taskVars
  <2>3. \A v \in Worker : workerPc'[v] = IF v = w THEN label ELSE workerPc[v]
    BY <1>0, <2>1 DEF WorkerGoto
  <2>4. CountersInv'
    BY <1>0, <2>1, <2>2 DEF DrainInv, CountersInv, WorkerGoto
  <2>5. TasksInv'
    BY <1>0, <2>2 DEF DrainInv, TasksInv
  <2>6. LeavingInv'
    BY <1>0, <1>u, <2>1, <2>2, <2>3 DEF DrainInv, LeavingInv
  <2>7. QED
    BY <2>4, <2>5, <2>6 DEF DrainInv
<1>4. QED
  BY <1>1, <1>2, <1>3 DEF WorkerStep

(* Tasks are never lost between the dispatcher and the workers, and no     *)
(* worker leaves before the dispatcher has created its last task.          *)
THEOREM TasksAccounted == Spec => []DrainInv
<1>1. DrainInv /\ [Next]_vars => DrainInv'
  <2> SUFFICES ASSUME DrainInv, [Next]_vars PROVE DrainInv'
    OBVIOUS
  <2>1. CASE UNCHANGED vars
    BY <2>1 DEF vars, threadVars, flagVars, raiseVars, taskVars, DrainInv, CountersInv,
                TasksInv, LeavingInv
  <2>2. CASE MainStep
    BY <2>2, StartDrain, ConsumeDrain, DispatchDrain DEF MainStep
  <2>3. CASE \E w \in Worker : WorkerStep(w) \/ SpuriousWakeup(w)
    BY <2>3, WorkerDrain
  <2>4. QED
    BY <2>1, <2>2, <2>3, UserDrain DEF Next
<1>2. QED
  BY <1>1, InitDrain, PTL DEF Spec

(* When Context::Stop has returned every task ever created has finished,   *)
(* also those of raises that were consumed while Stop was under way.       *)
THEOREM StopLeavesNone == Spec => []StopDrains
<1>1. DrainInv => StopDrains
  BY DEF DrainInv, LeavingInv, StopDrains
<1>2. QED
  BY <1>1, TasksAccounted, PTL
=============================================================================
