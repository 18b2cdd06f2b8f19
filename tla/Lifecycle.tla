----------------------------- MODULE Lifecycle -----------------------------
(***************************************************************************)
(* Starting and stopping: Context::Start and Stop, Worker::WaitStart and   *)
(* Start, and the loops of Dispatcher::Run and Worker::Run.  The main      *)
(* thread starts the workers and becomes the dispatcher; a user thread     *)
(* waits for it, raises nodes and stops everything; each worker waits to   *)
(* be started and runs until it has nothing left to do.  A raise creates   *)
(* one task here, a task is only counted, and it may end in any turn of    *)
(* its worker's loop.                                                      *)
(***************************************************************************)
EXTENDS Integers, FiniteSets

CONSTANTS
  WorkerCount,
  MaxRaises       \* bound on the raises of one behaviour

ASSUME ConstantsAssumption ==
  WorkerCount \in Nat \ {0} /\ MaxRaises \in Nat

VARIABLES
  dispatcherPc,   \* the main thread, in Start and then in Dispatcher::Run
  userPc,         \* the thread that raises and stops
  workerPc,
  starting,       \* the worker that Context::Start or Stop is at
  mIsRuning,      \* Worker::mIsRuning
  mIsRunning,     \* Dispatcher::mIsRunning
  mStopFinished,
  bye,
  raises,         \* raises so far
  enqueuing,      \* threads that are inside Enqueue, past its check
  mPendingNodes,  \* raises queued for the dispatcher
  Loop,
  created,        \* per worker: tasks of the pass that are not handed out
  mDispatchedTasks, \* per worker: tasks handed out and not taken
  running,        \* per worker: tasks taken and not finished
  mNextTaskPos,
  mFinishedTasks

threadVars == <<dispatcherPc, userPc, workerPc, starting>>
flagVars == <<mIsRuning, mIsRunning, mStopFinished, bye>>
raiseVars == <<raises, enqueuing, mPendingNodes>>
taskVars == <<Loop, created, mDispatchedTasks, running, mNextTaskPos, mFinishedTasks>>
vars == <<threadVars, flagVars, raiseVars, taskVars>>

Worker == 1..WorkerCount
User == 0
Zero == [w \in Worker |-> 0]

(* Context::Init has run: the worker threads exist.                        *)
Init ==
  /\ dispatcherPc = "start" /\ userPc = "waitStart"
  /\ workerPc = [w \in Worker |-> "waitStart"]
  /\ starting = 1
  /\ mIsRuning = [w \in Worker |-> FALSE]
  /\ mIsRunning = FALSE /\ mStopFinished = FALSE /\ bye = TRUE
  /\ raises = 0 /\ enqueuing = {} /\ mPendingNodes = 0
  /\ Loop = 0
  /\ created = Zero /\ mDispatchedTasks = Zero /\ running = Zero
  /\ mNextTaskPos = Zero /\ mFinishedTasks = Zero

WorkerGoto(w, label) == workerPc' = [workerPc EXCEPT ![w] = label]
-----------------------------------------------------------------------------
(* The main thread.                                                        *)

(* Worker::Start sets the flag without mRuningMutex, then notifies.        *)
StartWorker ==
  /\ dispatcherPc = "start" /\ starting <= WorkerCount
  /\ mIsRuning' = [mIsRuning EXCEPT ![starting] = TRUE]
  /\ dispatcherPc' = "notify"
  /\ UNCHANGED <<userPc, workerPc, starting, mIsRunning, mStopFinished, bye, raiseVars, taskVars>>

Notify ==
  /\ dispatcherPc = "notify"
  /\ IF workerPc[starting] = "sleeping"
       THEN WorkerGoto(starting, "waitStart")
       ELSE UNCHANGED workerPc
  /\ starting' = starting + 1
  /\ dispatcherPc' = "start"
  /\ UNCHANGED <<userPc, flagVars, raiseVars, taskVars>>

BeginRun ==
  /\ dispatcherPc = "start" /\ starting > WorkerCount
  /\ mIsRunning' = TRUE
  /\ dispatcherPc' = "loop"
  /\ starting' = 1
  /\ UNCHANGED <<userPc, workerPc, mIsRuning, mStopFinished, bye, raiseVars, taskVars>>

(* Mutant: the flag Join waits for is not set.                             *)
LoopTest_Silent ==
  /\ dispatcherPc = "loop"
  /\ dispatcherPc' = IF mIsRunning \/ ~bye THEN "consume" ELSE "done"
  /\ UNCHANGED <<userPc, workerPc, starting, flagVars, raiseVars, taskVars>>
LoopTest ==
  /\ dispatcherPc = "loop"
  /\ IF mIsRunning \/ ~bye
       THEN dispatcherPc' = "consume" /\ UNCHANGED mStopFinished
       ELSE dispatcherPc' = "done" /\ mStopFinished' = TRUE
  /\ UNCHANGED <<userPc, workerPc, starting, mIsRuning, mIsRunning, bye, raiseVars, taskVars>>

(* SelectWorker goes round; AllocateTaskFromPool counts the task.          *)
NewTasks(n) == [w \in Worker |-> Cardinality({k \in 1..n : ((Loop + k - 1) % WorkerCount) + 1 = w})]

Consume ==
  /\ dispatcherPc = "consume"
  /\ bye' = (mPendingNodes = 0)
  /\ created' = NewTasks(mPendingNodes)
  /\ mNextTaskPos' = [w \in Worker |-> mNextTaskPos[w] + NewTasks(mPendingNodes)[w]]
  /\ Loop' = (Loop + mPendingNodes) % WorkerCount
  /\ mPendingNodes' = 0
  /\ dispatcherPc' = "dispatch"
  /\ UNCHANGED <<userPc, workerPc, starting, mIsRuning, mIsRunning, mStopFinished, raises,
                 enqueuing, mDispatchedTasks, running, mFinishedTasks>>

Dispatch ==
  /\ dispatcherPc = "dispatch"
  /\ IF \E w \in Worker : created[w] > 0
       THEN \E w \in Worker :
              /\ created[w] > 0
              /\ created' = [created EXCEPT ![w] = @ - 1]
              /\ mDispatchedTasks' = [mDispatchedTasks EXCEPT ![w] = @ + 1]
              /\ UNCHANGED dispatcherPc
       ELSE dispatcherPc' = "loop" /\ UNCHANGED <<created, mDispatchedTasks>>
  /\ UNCHANGED <<userPc, workerPc, starting, flagVars, raiseVars, Loop, running, mNextTaskPos,
                 mFinishedTasks>>

MainStep == StartWorker \/ Notify \/ BeginRun \/ LoopTest \/ Consume \/ Dispatch
-----------------------------------------------------------------------------
(* Enqueue: the check and the push.  The user raises once it runs, a task  *)
(* may raise at any time.                                                  *)

MayRaise(t) ==
  IF t = User THEN userPc = "raise" ELSE workerPc[t] = "work" /\ running[t] > 0

EnqueueTest(t) ==
  /\ MayRaise(t) /\ t \notin enqueuing /\ raises < MaxRaises
  /\ raises' = raises + 1
  /\ enqueuing' = IF mIsRunning THEN enqueuing \cup {t} ELSE enqueuing
  /\ UNCHANGED <<threadVars, flagVars, mPendingNodes, taskVars>>

EnqueuePush(t) ==
  /\ t \in enqueuing
  /\ enqueuing' = enqueuing \ {t}
  /\ mPendingNodes' = mPendingNodes + 1
  /\ UNCHANGED <<threadVars, flagVars, raises, taskVars>>
-----------------------------------------------------------------------------
(* The user thread: Context::WaitStart, raises, Context::Stop.             *)

UserGoto(label) == userPc' = label

WaitStarted ==
  /\ userPc = "waitStart" /\ mIsRunning
  /\ UserGoto("raise")
  /\ UNCHANGED <<dispatcherPc, workerPc, starting, flagVars, raiseVars, taskVars>>

StopDispatcher ==
  /\ userPc = "raise" /\ User \notin enqueuing
  /\ mIsRunning' = FALSE
  /\ UserGoto("joinDispatcher")
  /\ UNCHANGED <<dispatcherPc, workerPc, starting, mIsRuning, mStopFinished, bye, raiseVars,
                 taskVars>>

JoinDispatcher ==
  /\ userPc = "joinDispatcher" /\ mStopFinished
  /\ UserGoto("stopWorkers")
  /\ UNCHANGED <<dispatcherPc, workerPc, starting, flagVars, raiseVars, taskVars>>

StopWorker ==
  /\ userPc = "stopWorkers" /\ starting <= WorkerCount
  /\ mIsRuning' = [mIsRuning EXCEPT ![starting] = FALSE]
  /\ starting' = starting + 1
  /\ UNCHANGED <<dispatcherPc, userPc, workerPc, mIsRunning, mStopFinished, bye, raiseVars,
                 taskVars>>

JoinWorkers ==
  /\ userPc = "stopWorkers" /\ starting > WorkerCount
  /\ \A w \in Worker : workerPc[w] = "exited"
  /\ UserGoto("stopped")
  /\ UNCHANGED <<dispatcherPc, workerPc, starting, flagVars, raiseVars, taskVars>>

UserStep == WaitStarted \/ JoinDispatcher \/ StopWorker \/ JoinWorkers
-----------------------------------------------------------------------------
(* A worker.  wait() tests the flag and, if it is not set, gives up the    *)
(* mutex and goes to sleep; Start may come between the two.                *)

StartTest(w) ==
  /\ workerPc[w] = "waitStart"
  /\ WorkerGoto(w, IF mIsRuning[w] THEN "running" ELSE "toSleep")
  /\ UNCHANGED <<dispatcherPc, userPc, starting, flagVars, raiseVars, taskVars>>

Sleep(w) ==
  /\ workerPc[w] = "toSleep"
  /\ WorkerGoto(w, "sleeping")
  /\ UNCHANGED <<dispatcherPc, userPc, starting, flagVars, raiseVars, taskVars>>

SpuriousWakeup(w) ==
  /\ workerPc[w] = "sleeping"
  /\ WorkerGoto(w, "waitStart")
  /\ UNCHANGED <<dispatcherPc, userPc, starting, flagVars, raiseVars, taskVars>>

(* The condition of Run's loop, one read per step.                         *)
ReadRuning(w) ==
  /\ workerPc[w] = "running"
  /\ WorkerGoto(w, IF mIsRuning[w] THEN "work" ELSE "readDispatcher")
  /\ UNCHANGED <<dispatcherPc, userPc, starting, flagVars, raiseVars, taskVars>>

ReadDispatcher(w) ==
  /\ workerPc[w] = "readDispatcher"
  /\ WorkerGoto(w, IF ~mStopFinished THEN "work" ELSE "readTasks")
  /\ UNCHANGED <<dispatcherPc, userPc, starting, flagVars, raiseVars, taskVars>>

(* Mutant: a worker leaves as soon as the dispatcher is done.              *)
ReadTasks_Unread(w) ==
  /\ workerPc[w] = "readTasks"
  /\ WorkerGoto(w, "exited")
  /\ UNCHANGED <<dispatcherPc, userPc, starting, flagVars, raiseVars, taskVars>>
ReadTasks(w) ==
  /\ workerPc[w] = "readTasks"
  /\ WorkerGoto(w, IF mFinishedTasks[w] < mNextTaskPos[w] THEN "work" ELSE "exited")
  /\ UNCHANGED <<dispatcherPc, userPc, starting, flagVars, raiseVars, taskVars>>

(* One turn of the loop: take what was handed out, finish some of it.      *)
Work(w, n) ==
  /\ workerPc[w] = "work" /\ w \notin enqueuing
  /\ n <= running[w] + mDispatchedTasks[w]
  /\ running' = [running EXCEPT ![w] = @ + mDispatchedTasks[w] - n]
  /\ mDispatchedTasks' = [mDispatchedTasks EXCEPT ![w] = 0]
  /\ mFinishedTasks' = [mFinishedTasks EXCEPT ![w] = @ + n]
  /\ WorkerGoto(w, "running")
  /\ UNCHANGED <<dispatcherPc, userPc, starting, flagVars, raiseVars, Loop, created, mNextTaskPos>>

WorkAll(w) == Work(w, running[w] + mDispatchedTasks[w])

WorkerStep(w) ==
  \/ StartTest(w) \/ Sleep(w)
  \/ ReadRuning(w) \/ ReadDispatcher(w) \/ ReadTasks(w)
  \/ \E n \in 0..MaxRaises : Work(w, n)

Next ==
  \/ MainStep \/ UserStep \/ StopDispatcher
  \/ \E w \in Worker : WorkerStep(w) \/ SpuriousWakeup(w)
  \/ \E t \in Worker \cup {User} : EnqueueTest(t) \/ EnqueuePush(t)

Spec == Init /\ [][Next]_vars

(* Threads run, and a task ends in some turn of its worker's loop (see     *)
(* EachTaskCompletes of SharedMutex); nobody has to call Stop, and no      *)
(* spurious wakeup has to come.                                            *)
Fairness ==
  /\ WF_vars(MainStep) /\ WF_vars(UserStep)
  /\ \A t \in Worker \cup {User} : WF_vars(EnqueuePush(t))
  /\ \A w \in Worker : WF_vars(WorkerStep(w)) /\ SF_vars(WorkAll(w))
-----------------------------------------------------------------------------
TypeOK ==
  /\ dispatcherPc \in {"start", "notify", "loop", "consume", "dispatch", "done"}
  /\ userPc \in {"waitStart", "raise", "joinDispatcher", "stopWorkers", "stopped"}
  /\ workerPc \in [Worker -> {"waitStart", "toSleep", "sleeping", "running", "readDispatcher",
                              "readTasks", "work", "exited"}]
  /\ starting \in 1..(WorkerCount + 1)
  /\ mIsRuning \in [Worker -> BOOLEAN] /\ {mIsRunning, mStopFinished, bye} \subseteq BOOLEAN
  /\ raises \in 0..MaxRaises /\ mPendingNodes \in 0..MaxRaises
  /\ enqueuing \subseteq Worker \cup {User}
  /\ Loop \in 0..(WorkerCount - 1)
  /\ {created, mDispatchedTasks, running, mNextTaskPos, mFinishedTasks}
       \subseteq [Worker -> 0..MaxRaises]

(* When Context::Stop has joined the workers, every task the dispatcher    *)
(* ever created has been handed out, taken and finished, also those whose  *)
(* raises were consumed while Stop was under way.                          *)
StopDrains ==
  userPc = "stopped" => \A w \in Worker : mFinishedTasks[w] = mNextTaskPos[w]

(* Context::Stop returns (singleNode/main.cpp:78 goes on after it).        *)
StopReturns == userPc = "joinDispatcher" ~> userPc = "stopped"
=============================================================================
