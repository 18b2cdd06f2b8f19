---------------------------- MODULE SharedMutex ----------------------------
(***************************************************************************)
(* The lock of one node (SharedMutex.cpp), used by the dispatcher, by the  *)
(* node's own tasks (writers) and by its successors' tasks (readers).      *)
(*                                                                         *)
(* mWaiters is an array with a read and a write position that the          *)
(* dispatcher appends to; it is kept here as the whole sequence of entries *)
(* ever pushed plus mReadPos, and a task is named by the position of its   *)
(* entry (its ticket), because a task has one entry in a node's queue.     *)
(* An entry also names the node whose task it is: OWNER or a successor.    *)
(* mReaders is minus the number of readers that finished past mReadPos,    *)
(* plus what a releasing writer has added on its way.                      *)
(*                                                                         *)
(* A step makes at most one access to memory that another thread may be    *)
(* writing, with these exceptions.  Lock pushes both queues at once.       *)
(* Empty and Valid read a write position, which only the dispatcher moves, *)
(* together with the read position.  Enqueue lowers the receiver's count   *)
(* and queues the wake-up at once (the receiver takes it, or finds its     *)
(* count gone, in a step of its own).                                      *)
(***************************************************************************)
EXTENDS Integers, Sequences, FiniteSets

CONSTANTS
  MaxWaiters,     \* bound on the entries pushed in one behaviour
  MaxWorkflow,    \* bound on the workflow id
  Successors      \* the successors of the node

ASSUME ConstantsAssumption ==
  /\ MaxWaiters \in Nat
  /\ MaxWorkflow \in Nat
  /\ IsFiniteSet(Successors)

VARIABLES
  mWaiters,    \* entries pushed so far: [wf, IsWriter, node]
  mReadPos,    \* entries of mWaiters already skipped
  mReaders,
  ids,         \* workflow ids ever pushed to mWaitingWriterWorkflowIds
  idPos,       \* how many of them were popped
  workflowId,  \* the dispatcher's current pass
  toPush,      \* successors the pass still has to call LockShared for
  pc,          \* where each ticket's task is
  phase,       \* what a reader is doing: "read", "try" or "defer"
  readPos,     \* WaitLock4/TryLock4's local readPos
  firstId,     \* WaitSharedLock4/TrySharedLock4's local firstWriterWkflow
  count,       \* Unlock's local finished, then Wake's local skipCount
  cur,         \* Wake's local firstWaiter (its ticket)
  messages,    \* wake-ups queued for each ticket's task
  waitingLockCount,  \* this node's share of a reader's mWaitingLockCount
  written,     \* tickets of the writers whose Process stored a value
  value,       \* the last of them (0: none)
  seen         \* the value a reader read, -1 before

lockVars == <<mWaiters, mReadPos, mReaders, ids, idPos>>
passVars == <<workflowId, toPush>>
localVars == <<readPos, firstId, count, cur>>
dataVars == <<written, value, seen>>
wakeVars == <<messages, waitingLockCount>>
vars == <<lockVars, passVars, pc, phase, localVars, wakeVars, dataVars>>

OWNER == "owner"
Ticket == 1..MaxWaiters
Workflow == 0..MaxWorkflow
Pushed == 1..Len(mWaiters)
Wf(i) == mWaiters[i].wf
Writers == {i \in Pushed : mWaiters[i].IsWriter}
Readers == {i \in Pushed : ~mWaiters[i].IsWriter}

(* The ticket of the entry at position pos of mWaiters.                    *)
At(pos) == pos + 1

InUnlock == {"unlocking", "count", "pop", "skip"}
InWake == {"wake", "first", "wakeReader", "wakeWriter", "skipReaders", "enqueue",
           "endWake"}
Releasing == InUnlock \cup InWake

Init ==
  /\ mWaiters = <<>> /\ mReadPos = 0 /\ mReaders = 0
  /\ ids = <<>> /\ idPos = 0
  /\ workflowId = 0 /\ toPush = {}
  /\ pc = [i \in Ticket |-> "absent"]
  /\ phase = [i \in Ticket |-> "none"]
  /\ readPos = [i \in Ticket |-> 0]
  /\ firstId = [i \in Ticket |-> 0]
  /\ count = [i \in Ticket |-> 0]
  /\ cur = [i \in Ticket |-> 0]
  /\ messages = [i \in Ticket |-> 0]
  /\ waitingLockCount = [i \in Ticket |-> 0]
  /\ written = {} /\ value = 0
  /\ seen = [i \in Ticket |-> -1]

Goto(i, label) == pc' = [pc EXCEPT ![i] = label]

(* A wake-up that reaches a finished task finds neither mWaited nor        *)
(* mDeferred matching and has no effect, so it is not kept.                *)
Finish(i) ==
  /\ Goto(i, "done")
  /\ phase' = [phase EXCEPT ![i] = "none"]
  /\ messages' = [messages EXCEPT ![i] = 0]
-----------------------------------------------------------------------------
(* The dispatcher.  One pass registers the node's own task, if the node is *)
(* reached, and then one reader for each successor reached (all of them    *)
(* when the node itself is), and only then hands the tasks to workers.     *)

PassOver == toPush = {} /\ \A i \in Pushed : pc[i] # "queued"

Push(flow, writer, node) ==
  /\ mWaiters' = Append(mWaiters, [wf |-> flow, IsWriter |-> writer, node |-> node])
  /\ Goto(Len(mWaiters) + 1, "queued")
  /\ waitingLockCount' = [waitingLockCount EXCEPT ![Len(mWaiters) + 1] =
       IF ~writer /\ \E w \in Writers : Wf(w) = flow THEN 1 ELSE 0]
  /\ UNCHANGED <<mReadPos, mReaders, idPos, localVars, phase, messages, dataVars>>

Lock ==
  /\ PassOver /\ workflowId < MaxWorkflow
  /\ Len(mWaiters) + 1 + Cardinality(Successors) <= MaxWaiters
  /\ workflowId' = workflowId + 1
  /\ toPush' = Successors
  /\ ids' = Append(ids, workflowId')
  /\ Push(workflowId', TRUE, OWNER)

(* A pass that reaches some successors but not the node itself.            *)
PassBy(reached) ==
  /\ PassOver /\ workflowId < MaxWorkflow
  /\ Len(mWaiters) + Cardinality(reached) <= MaxWaiters
  /\ workflowId' = workflowId + 1
  /\ toPush' = reached
  /\ UNCHANGED <<lockVars, pc, phase, localVars, wakeVars, dataVars>>

LockShared(s) ==
  /\ s \in toPush
  /\ toPush' = toPush \ {s}
  /\ Push(workflowId, FALSE, s)
  /\ UNCHANGED <<ids, workflowId>>

(* A task that is not accepted yet is not schedulable while its waiting    *)
(* lock count is not zero; one that a raise or another precursor accepts   *)
(* may run at any time.  A reader that is not accepted, or does not        *)
(* dereference its LockPtr, starts with RunNode's loop over precursors.    *)
Dispatch(i) ==
  /\ toPush = {} /\ pc[i] = "queued"
  /\ IF i \in Readers
       THEN /\ \E p \in {"read", "try"} : phase' = [phase EXCEPT ![i] = p]
            /\ \E label \in {"ready", "unschedulable"} : Goto(i, label)
       ELSE Goto(i, "ready") /\ UNCHANGED phase
  /\ UNCHANGED <<lockVars, passVars, localVars, wakeVars, dataVars>>

Schedule(r) ==
  /\ pc[r] = "unschedulable" /\ waitingLockCount[r] = 0
  /\ Goto(r, "ready")
  /\ UNCHANGED <<lockVars, passVars, phase, localVars, wakeVars, dataVars>>
-----------------------------------------------------------------------------
(* The writer's side.  WaitLock4 and TryLock4 make the same two reads; a   *)
(* task that fails is suspended, and CheckLostLamb tries again for it.     *)

ReadReadPos(w) ==
  /\ w \in Writers /\ pc[w] \in {"ready", "suspended"}
  /\ readPos' = [readPos EXCEPT ![w] = mReadPos]
  /\ Goto(w, "check")
  /\ UNCHANGED <<lockVars, passVars, phase, firstId, count, cur, wakeVars, dataVars>>

(* Mutant: the correction is forgotten.                                    *)
RealFirst_Uncorrected(w) == At(readPos[w])
RealFirst(w) ==
  At(IF mReaders < 0 THEN readPos[w] - mReaders ELSE readPos[w])

LoadReaders(w) ==
  /\ w \in Writers /\ pc[w] = "check"
  /\ Goto(w, IF RealFirst(w) = w THEN "holding" ELSE "suspended")
  /\ readPos' = [readPos EXCEPT ![w] = 0]
  /\ UNCHANGED <<lockVars, passVars, phase, firstId, count, cur, wakeVars, dataVars>>

(* RunNode runs the node's Process only for an accepted task.              *)
Process(w) ==
  /\ w \in Writers /\ pc[w] = "holding"
  /\ \/ written' = written \cup {w} /\ value' = w
     \/ UNCHANGED <<written, value>>
  /\ Goto(w, "unlocking")
  /\ UNCHANGED <<lockVars, passVars, phase, localVars, wakeVars, seen>>

(* The test of Unlock's loop reads mReadPos, its body adds to mReaders.    *)
(* The guard on Len stops a walk that has overrun the entries of the       *)
(* model, here and in WakeFirst.                                           *)
UnlockWalk(w) ==
  /\ w \in Writers /\ pc[w] = "unlocking"
  /\ mReadPos + count[w] < Len(mWaiters)
  /\ Goto(w, IF At(mReadPos + count[w]) # w THEN "count" ELSE "pop")
  /\ UNCHANGED <<lockVars, passVars, phase, localVars, wakeVars, dataVars>>

CountFinished(w) ==
  /\ w \in Writers /\ pc[w] = "count"
  /\ count' = [count EXCEPT ![w] = @ + 1]
  /\ mReaders' = mReaders + 1
  /\ Goto(w, "unlocking")
  /\ UNCHANGED <<mWaiters, mReadPos, ids, idPos, passVars, phase, readPos,
                 firstId, cur, wakeVars, dataVars>>

PopId(w) ==
  /\ w \in Writers /\ pc[w] = "pop"
  /\ idPos' = idPos + 1
  /\ Goto(w, "skip")
  /\ UNCHANGED <<mWaiters, mReadPos, mReaders, ids, passVars, phase, localVars,
                 wakeVars, dataVars>>

SkipOwn(w) ==
  /\ w \in Writers /\ pc[w] = "skip"
  /\ mReadPos' = mReadPos + count[w] + 1
  /\ count' = [count EXCEPT ![w] = 0]
  /\ Goto(w, "wake")
  /\ UNCHANGED <<mWaiters, mReaders, ids, idPos, passVars, phase, readPos,
                 firstId, cur, wakeVars, dataVars>>

(* Valid and First read mReadPos one after the other.                      *)
WakeValid(w) ==
  /\ w \in Writers /\ pc[w] = "wake"
  /\ Goto(w, IF mReadPos + count[w] < Len(mWaiters) THEN "first" ELSE "endWake")
  /\ UNCHANGED <<lockVars, passVars, phase, localVars, wakeVars, dataVars>>

WakeFirst(w) ==
  /\ w \in Writers /\ pc[w] = "first"
  /\ mReadPos + count[w] < Len(mWaiters)
  /\ LET next == At(mReadPos + count[w])
     IN  /\ cur' = [cur EXCEPT ![w] = next]
         /\ Goto(w, IF next \in Writers THEN "wakeWriter" ELSE "wakeReader")
  /\ UNCHANGED <<lockVars, passVars, phase, readPos, firstId, count, wakeVars, dataVars>>

WakeReader(w) ==
  /\ w \in Writers /\ pc[w] = "wakeReader"
  /\ mReaders' = mReaders + 1
  /\ count' = [count EXCEPT ![w] = @ + 1]
  /\ Goto(w, "enqueue")
  /\ UNCHANGED <<mWaiters, mReadPos, ids, idPos, passVars, phase, readPos, firstId,
                 cur, wakeVars, dataVars>>

(* The next writer is woken if every reader in front of it has finished.   *)
WakeWriter(w) ==
  /\ w \in Writers /\ pc[w] = "wakeWriter"
  /\ Goto(w, IF mReaders = 0 THEN "skipReaders" ELSE "endWake")
  /\ UNCHANGED <<lockVars, passVars, phase, localVars, wakeVars, dataVars>>

SkipReaders(w) ==
  /\ w \in Writers /\ pc[w] = "skipReaders"
  /\ mReadPos' = mReadPos + count[w]
  /\ count' = [count EXCEPT ![w] = 0]
  /\ Goto(w, "enqueue")
  /\ UNCHANGED <<mWaiters, mReaders, ids, idPos, passVars, phase, readPos, firstId,
                 cur, wakeVars, dataVars>>

(* Task::Enqueue lowers the count of a task of the waker's workflow.       *)
(* Mutant: it does not.                                                    *)
WakeUp_Uncounted(w, i) ==
  /\ messages' = [messages EXCEPT ![i] = IF pc[i] = "done" THEN 0 ELSE @ + 1]
  /\ UNCHANGED waitingLockCount
WakeUp(w, i) ==
  /\ messages' = [messages EXCEPT ![i] = IF pc[i] = "done" THEN 0 ELSE @ + 1]
  /\ waitingLockCount' = [waitingLockCount EXCEPT ![i] =
       IF Wf(i) = Wf(w) THEN @ - 1 ELSE @]

(* Wake goes on after a reader and stops after a writer.                   *)
Enqueue(w) ==
  /\ w \in Writers /\ pc[w] = "enqueue"
  /\ WakeUp(w, cur[w])
  /\ Goto(w, IF cur[w] \in Writers THEN "endWake" ELSE "wake")
  /\ UNCHANGED <<lockVars, passVars, phase, localVars, dataVars>>

(* Mutant: the readers counted on the way stay in mReaders.                *)
EndWake_Unsettled(w) ==
  /\ w \in Writers /\ pc[w] = "endWake"
  /\ count' = [count EXCEPT ![w] = 0]
  /\ cur' = [cur EXCEPT ![w] = 0]
  /\ Finish(w)
  /\ UNCHANGED <<lockVars, passVars, readPos, firstId, waitingLockCount, dataVars>>
EndWake(w) ==
  /\ w \in Writers /\ pc[w] = "endWake"
  /\ mReaders' = mReaders - count[w]
  /\ count' = [count EXCEPT ![w] = 0]
  /\ cur' = [cur EXCEPT ![w] = 0]
  /\ Finish(w)
  /\ UNCHANGED <<mWaiters, mReadPos, ids, idPos, passVars, readPos, firstId,
                 waitingLockCount, dataVars>>
-----------------------------------------------------------------------------
(* The reader's side.  First() of an empty queue reads a slot that holds   *)
(* an old id or was never written: any value.                              *)

StaleIds == {0, MaxWorkflow + 1}

(* RunNode starts with the lock of the task's own node, which the earlier  *)
(* tasks of that node release when all they may still owe is deferred.     *)
OwnLock(r) ==
  \A q \in Readers :
    q < r /\ mWaiters[q].node = mWaiters[r].node => pc[q] = "done" \/ phase[q] = "defer"

ReadFirstId(r) ==
  /\ r \in Readers /\ pc[r] \in {"ready", "suspended"}
  /\ OwnLock(r)
  /\ \E id \in IF idPos < Len(ids) THEN {ids[idPos + 1]} ELSE StaleIds :
       firstId' = [firstId EXCEPT ![r] = id]
  /\ Goto(r, "check")
  /\ UNCHANGED <<lockVars, passVars, phase, readPos, count, cur, wakeVars, dataVars>>

(* Mutant: a writer of the reader's own workflow does not count.           *)
hasLock_OwnWorkflow(r) == idPos = Len(ids) \/ firstId[r] >= Wf(r)
hasLock(r) == idPos = Len(ids) \/ firstId[r] > Wf(r)

(* A failed TrySharedLock4 of RunNode's loop puts the precursor  *)
(* into mDeferred; a failed WaitSharedLock4 suspends the task.             *)
ReadEmpty(r) ==
  /\ r \in Readers /\ pc[r] = "check"
  /\ IF hasLock(r)
       THEN Goto(r, "admitted") /\ UNCHANGED phase
     ELSE IF phase[r] = "try"
       THEN Goto(r, "ready") /\ phase' = [phase EXCEPT ![r] = "defer"]
     ELSE Goto(r, "suspended") /\ UNCHANGED phase
  /\ firstId' = [firstId EXCEPT ![r] = 0]
  /\ UNCHANGED <<lockVars, passVars, readPos, count, cur, wakeVars, dataVars>>

ReadValue(r) ==
  /\ r \in Readers /\ pc[r] = "admitted" /\ phase[r] = "read"
  /\ seen' = [seen EXCEPT ![r] = value]
  /\ phase' = [phase EXCEPT ![r] = "try"]
  /\ Goto(r, "ready")
  /\ UNCHANGED <<lockVars, passVars, localVars, wakeVars, written, value>>

UnlockShared(r) ==
  /\ r \in Readers /\ pc[r] = "admitted" /\ phase[r] \in {"try", "defer"}
  /\ mReaders' = mReaders - 1
  /\ Finish(r)
  /\ UNCHANGED <<mWaiters, mReadPos, ids, idPos, passVars, localVars,
                 waitingLockCount, dataVars>>
-----------------------------------------------------------------------------
(* A worker takes a wake-up.  A task suspended on this node goes on        *)
(* without looking at the lock again; for a task that has the node among   *)
(* its deferred precursors CompleteDeffered releases it; otherwise the     *)
(* wake-up has no effect on the lock.  A running task's worker takes none. *)

(* Mutant: a wake-up that was not sent.                                    *)
Take_Unsent(i) ==
  /\ messages' = [messages EXCEPT ![i] = @ - 1]
  /\ UNCHANGED waitingLockCount
Take(i) ==
  /\ messages[i] > 0
  /\ messages' = [messages EXCEPT ![i] = @ - 1]
  /\ UNCHANGED waitingLockCount

Resume(i) ==
  /\ Take(i) /\ pc[i] = "suspended"
  /\ Goto(i, IF i \in Writers THEN "holding" ELSE "admitted")
  /\ UNCHANGED <<lockVars, passVars, phase, localVars, dataVars>>

CompleteDeffered(r) ==
  /\ messages[r] > 0 /\ pc[r] = "ready" /\ phase[r] = "defer"
  /\ mReaders' = mReaders - 1
  /\ Finish(r)
  /\ UNCHANGED <<mWaiters, mReadPos, ids, idPos, passVars, localVars,
                 waitingLockCount, dataVars>>

Ignore(i) ==
  /\ Take(i) /\ pc[i] \in {"queued", "unschedulable", "ready"}
  /\ pc[i] = "ready" => phase[i] # "defer"
  /\ UNCHANGED <<lockVars, passVars, pc, phase, localVars, dataVars>>
-----------------------------------------------------------------------------
WriterStep(w) ==
  \/ ReadReadPos(w) \/ LoadReaders(w) \/ Process(w)
  \/ UnlockWalk(w) \/ CountFinished(w) \/ PopId(w) \/ SkipOwn(w)
  \/ WakeValid(w) \/ WakeFirst(w) \/ WakeReader(w) \/ WakeWriter(w)
  \/ SkipReaders(w) \/ Enqueue(w) \/ EndWake(w)

ReaderStep(r) ==
  ReadFirstId(r) \/ ReadEmpty(r) \/ ReadValue(r) \/ UnlockShared(r)

MessageStep(i) == Resume(i) \/ CompleteDeffered(i) \/ Ignore(i)

TicketStep(i) ==
  Dispatch(i) \/ Schedule(i) \/ WriterStep(i) \/ ReaderStep(i) \/ MessageStep(i)

Next ==
  \/ Lock
  \/ \E reached \in SUBSET Successors \ {{}} : PassBy(reached)
  \/ \E s \in Successors : LockShared(s)
  \/ \E i \in Pushed : TicketStep(i)

Spec == Init /\ [][Next]_vars

(* The code lets the next writer take the lock as soon as mReadPos and     *)
(* mReaders say so, while the previous one may still be inside Wake.       *)
(* SerialSpec is the code under the assumption that this does not happen.  *)
Admits(w) == pc[w] # "holding" /\ pc'[w] = "holding"
SerialAdmission ==
  \A w, v \in Pushed : Admits(w) => pc[v] \notin Releasing

SerialNext == Next /\ SerialAdmission
SerialSpec == Init /\ [][SerialNext]_vars

(* Every worker keeps running: the tasks it has go on, it takes its        *)
(* wake-ups, and CheckLostLamb keeps trying for the suspended ones.  The   *)
(* dispatcher finishes the pass it is in.                                  *)
Fairness ==
  /\ WF_vars(\E s \in Successors : LockShared(s))
  /\ \A i \in Ticket :
       /\ WF_vars(i \in Pushed /\ (Dispatch(i) \/ Schedule(i) \/ WriterStep(i) \/ ReaderStep(i)))
       /\ WF_vars(i \in Pushed /\ MessageStep(i))
-----------------------------------------------------------------------------
Phase == {"none", "read", "try", "defer"}
Label == Releasing \cup {"absent", "queued", "unschedulable", "ready", "check",
                         "suspended", "holding", "admitted", "done"}
WaiterType == [wf : Workflow, IsWriter : BOOLEAN, node : Successors \cup {OWNER}]
TypeOK ==
  /\ mWaiters \in Seq(WaiterType)
  /\ Len(mWaiters) + Cardinality(toPush) <= MaxWaiters
  /\ mReadPos \in Nat /\ mReaders \in Int
  /\ ids \in Seq(Workflow) /\ idPos \in Nat
  /\ workflowId \in Workflow /\ toPush \subseteq Successors
  /\ pc \in [Ticket -> Label]
  /\ phase \in [Ticket -> Phase]
  /\ readPos \in [Ticket -> Nat]
  /\ firstId \in [Ticket -> Workflow \cup StaleIds]
  /\ count \in [Ticket -> Nat]
  /\ cur \in [Ticket -> Ticket \cup {0}]
  /\ messages \in [Ticket -> Nat]
  /\ waitingLockCount \in [Ticket -> Int]
  /\ written \subseteq Ticket /\ value \in Ticket \cup {0}
  /\ seen \in [Ticket -> Ticket \cup {-1, 0}]

(* A reader uses the value from its admission to UnlockShared: LockPtr     *)
(* does not look at the lock again once it has been granted.               *)
Inside(i) ==
  IF i \in Writers
    THEN pc[i] \in {"holding", "unlocking", "count", "pop"}
    ELSE pc[i] = "admitted" \/ (pc[i] # "done" /\ seen[i] # -1)

Popped(w) == pc[w] \in InWake \cup {"skip", "done"}

Left(i) ==
  IF i \in Writers
    THEN Popped(i)
    ELSE pc[i] = "done"

(* Lock order: whoever uses the node's value does so after every access    *)
(* that conflicts with it and was registered earlier has ended.  This is   *)
(* what TryLock4's position arithmetic, the workflow id comparison of      *)
(* TrySharedLock4 and the unchecked wake-ups of Wake must add up to.       *)
OrderedAdmission ==
  \A i \in Pushed : Inside(i) =>
    \A j \in 1..(i - 1) : (i \in Writers \/ j \in Writers) => Left(j)

(* A reader finds the value stored by the last accepted writer before it   *)
(* in the queue, hence all readers of one workflow find the same value     *)
(* (WorkflowChecker::Check compares what the successors observed).         *)
ObservedValue ==
  \A r \in Readers : seen[r] # -1 =>
    /\ seen[r] < r /\ seen[r] \in written \cup {0}
    /\ \A w \in written : w < r => w <= seen[r]

(* mReaders counts exactly the readers that finished past mReadPos, plus   *)
(* what the writer in Unlock or Wake has added so far and not yet settled. *)
Finished == {r \in Readers : r > mReadPos /\ pc[r] = "done"}
ReaderAccounting ==
  /\ \A w \in Writers : pc[w] \in Releasing => mReaders = count[w] - Cardinality(Finished)
  /\ (\A w \in Writers : pc[w] \notin Releasing) => mReaders = - Cardinality(Finished)

(* A writer wakes each reader of its own workflow exactly once: its share  *)
(* of the task's waiting lock count never goes below zero, and is gone     *)
(* when the writer leaves Wake if the task still depends on it, or that    *)
(* task would never become schedulable.                                    *)
CountedOnce ==
  \A r \in Readers :
    /\ waitingLockCount[r] >= 0
    /\ \A w \in Writers :
         Wf(w) = Wf(r) /\ pc[w] \in {"endWake", "done"} /\ pc[r] = "unschedulable"
           => waitingLockCount[r] = 0

(* Every registered access of a task comes to its end, with or without     *)
(* the wake-ups that Wake skips because a reader was slow.  A walk that    *)
(* has run past the last entry, where the model stops, is left out.        *)
Overrun(w) == pc[w] \in {"unlocking", "first"} /\ mReadPos + count[w] >= Len(mWaiters)
EachTaskCompletes ==
  \A i \in Ticket : i \in Pushed ~> pc[i] = "done" \/ \E w \in Writers : Overrun(w)

Accesses == INSTANCE OrderedAccess WITH
  kinds <- [i \in DOMAIN mWaiters |-> mWaiters[i].IsWriter],
  where <- [i \in Ticket |-> IF i \notin Pushed THEN "absent"
              ELSE IF Inside(i) THEN "inside" ELSE IF Left(i) THEN "left" ELSE "outside"],
  data <- value,
  got <- seen

(* The lock implements ordered access.                                     *)
ImplementsOrderedAccess == Accesses!ASpec
=============================================================================
