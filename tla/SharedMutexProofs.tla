------------------------- MODULE SharedMutexProofs -------------------------
(***************************************************************************)
(* Proofs about SharedMutex: type correctness of every behaviour of the    *)
(* code, those with overlapping releases included; and under SerialSpec,   *)
(* from an inductive invariant, that accesses are ordered, that readers    *)
(* find the value of the last writer before them, that each reader of a    *)
(* writer is told once, and that the lock implements OrderedAccess.        *)
(***************************************************************************)
EXTENDS SharedMutexInv, TLAPS, FiniteSetTheorems, SequenceTheorems

(* Every variable keeps its type, whatever the order of steps: positions   *)
(* and counters included, even where a release overlaps the next one.      *)
LEMMA InitType == Init => TypeOK
<1> SUFFICES ASSUME Init PROVE TypeOK
  OBVIOUS
<1>1. Cardinality(toPush) = 0 /\ toPush \subseteq Successors
  BY FS_EmptySet DEF Init
<1>2. QED
  <2>1. /\ mWaiters \in Seq(WaiterType) /\ ids \in Seq(Workflow)
        /\ workflowId \in Workflow /\ Len(mWaiters) + Cardinality(toPush) <= MaxWaiters
    BY <1>1, ConstantsAssumption DEF Init, Workflow
  <2>2. /\ pc \in [Ticket -> Label] /\ phase \in [Ticket -> Phase]
        /\ firstId \in [Ticket -> Workflow \cup StaleIds]
    BY ConstantsAssumption DEF Init, Label, Phase, Workflow
  <2>3. QED
    BY <1>1, <2>1, <2>2 DEF Init, TypeOK

LEMMA GotoType ==
  ASSUME pc \in [Ticket -> Label], NEW i, NEW label \in Label, Goto(i, label)
  PROVE  pc' \in [Ticket -> Label]
BY DEF Goto

LEMMA TakeType ==
  ASSUME messages \in [Ticket -> Nat], NEW i \in Ticket, Take(i)
  PROVE  messages' \in [Ticket -> Nat]
<1>1. messages[i] - 1 \in Nat
  BY DEF Take
<1>2. QED
  BY <1>1 DEF Take

LEMMA PushType ==
  ASSUME TypeOK, NEW writer \in BOOLEAN, NEW node \in Successors \cup {OWNER},
         NEW flow \in Workflow, Len(mWaiters) < MaxWaiters, Push(flow, writer, node)
  PROVE  /\ mWaiters' \in Seq(WaiterType)
         /\ Len(mWaiters') = Len(mWaiters) + 1
         /\ pc' \in [Ticket -> Label]
         /\ waitingLockCount' \in [Ticket -> Int]
<1>1. Len(mWaiters) \in Nat /\ Len(mWaiters) + 1 \in Ticket
  BY ConstantsAssumption DEF TypeOK, Ticket
<1>2. QED
  BY <1>1 DEF TypeOK, Push, Goto, WaiterType, Label

LEMMA WakeUpType ==
  ASSUME messages \in [Ticket -> Nat], waitingLockCount \in [Ticket -> Int],
         NEW w, NEW k, WakeUp(w, k)
  PROVE  messages' \in [Ticket -> Nat] /\ waitingLockCount' \in [Ticket -> Int]
<1>1. messages' = [messages EXCEPT ![k] = 0] \/ messages' = [messages EXCEPT ![k] = @ + 1]
  BY DEF WakeUp
<1>2. \/ waitingLockCount' = [waitingLockCount EXCEPT ![k] = @]
      \/ waitingLockCount' = [waitingLockCount EXCEPT ![k] = @ - 1]
  BY DEF WakeUp
<1>3. messages' \in [Ticket -> Nat]
  BY <1>1
<1>4. waitingLockCount' \in [Ticket -> Int]
  BY <1>2
<1>5. QED
  BY <1>3, <1>4

(* A step of one task keeps its own counters, ids and labels typed.        *)
LEMMA TicketStepType ==
  ASSUME TypeOK, NEW i \in Pushed, TicketStep(i)
  PROVE  TypeOK'
<1>0. MaxWaiters \in Nat /\ MaxWorkflow \in Nat /\ Len(mWaiters) \in Nat
      /\ i \in Ticket /\ Pushed \subseteq Ticket /\ Cardinality(toPush) \in Nat
  <2>1. IsFiniteSet(toPush)
    BY ConstantsAssumption, FS_Subset DEF TypeOK
  <2>2. Cardinality(toPush) \in Nat
    BY <2>1, FS_CardinalityType
  <2>3. MaxWaiters \in Nat /\ Len(mWaiters) \in Nat /\ Len(mWaiters) <= MaxWaiters
    BY <2>2, ConstantsAssumption DEF TypeOK
  <2>4. QED
    BY <2>2, <2>3, ConstantsAssumption DEF Pushed, Ticket
<1>1. CASE Dispatch(i)
  <2>1. pc' \in [Ticket -> Label]
    BY <1>0, <1>1, GotoType DEF TypeOK, Dispatch, Label, Releasing, InUnlock, InWake
  <2>2. phase' \in [Ticket -> Phase]
    BY <1>0, <1>1 DEF TypeOK, Dispatch, Phase
  <2>3. UNCHANGED <<mWaiters, mReadPos, mReaders, ids, idPos, workflowId,
                   toPush, readPos, firstId, count, cur, messages,
                   waitingLockCount, written, value, seen>>
    BY <1>1 DEF Dispatch, lockVars, passVars, localVars, wakeVars, dataVars
  <2>4. QED
    BY <2>1, <2>2, <2>3 DEF TypeOK
<1>2. CASE Schedule(i)
  <2>1. pc' \in [Ticket -> Label]
    BY <1>0, <1>2, GotoType DEF TypeOK, Schedule, Label, Releasing, InUnlock, InWake
  <2>2. UNCHANGED <<mWaiters, mReadPos, mReaders, ids, idPos, workflowId,
                   toPush, phase, readPos, firstId, count, cur, messages,
                   waitingLockCount, written, value, seen>>
    BY <1>2 DEF Schedule, lockVars, passVars, localVars, wakeVars, dataVars
  <2>3. QED
    BY <2>1, <2>2 DEF TypeOK
<1>3. CASE ReadReadPos(i)
  <2>1. pc' \in [Ticket -> Label]
    BY <1>0, <1>3, GotoType DEF TypeOK, ReadReadPos, Label, Releasing, InUnlock, InWake
  <2>2. readPos' \in [Ticket -> Nat]
    BY <1>0, <1>3 DEF TypeOK, ReadReadPos
  <2>3. UNCHANGED <<mWaiters, mReadPos, mReaders, ids, idPos, workflowId,
                   toPush, phase, firstId, count, cur, messages,
                   waitingLockCount, written, value, seen>>
    BY <1>3 DEF ReadReadPos, lockVars, passVars, localVars, wakeVars, dataVars
  <2>4. QED
    BY <2>1, <2>2, <2>3 DEF TypeOK
<1>4. CASE LoadReaders(i)
  <2>1. pc' \in [Ticket -> Label]
    BY <1>0, <1>4, GotoType DEF TypeOK, LoadReaders, Label, Releasing, InUnlock, InWake
  <2>2. readPos' \in [Ticket -> Nat]
    BY <1>0, <1>4 DEF TypeOK, LoadReaders
  <2>3. UNCHANGED <<mWaiters, mReadPos, mReaders, ids, idPos, workflowId,
                   toPush, phase, firstId, count, cur, messages,
                   waitingLockCount, written, value, seen>>
    BY <1>4 DEF LoadReaders, lockVars, passVars, localVars, wakeVars, dataVars
  <2>4. QED
    BY <2>1, <2>2, <2>3 DEF TypeOK
<1>5. CASE Process(i)
  <2>1. pc' \in [Ticket -> Label]
    <3>1. Goto(i, "unlocking")
      BY <1>5 DEF Process
    <3> QED
      BY <1>0, <3>1, GotoType DEF TypeOK, Label, Releasing, InUnlock, InWake
  <2>0. \/ written' = written \cup {i} /\ value' = i
        \/ written' = written /\ value' = value
    BY <1>5 DEF Process
  <2>2. written' \subseteq Ticket
    BY <1>0, <2>0 DEF TypeOK
  <2>3. value' \in Ticket \cup {0}
    BY <1>0, <2>0 DEF TypeOK
  <2>4. UNCHANGED <<mWaiters, mReadPos, mReaders, ids, idPos, workflowId,
                   toPush, phase, readPos, firstId, count, cur, messages,
                   waitingLockCount, seen>>
    BY <1>5 DEF Process, lockVars, passVars, localVars, wakeVars, dataVars
  <2>5. QED
    BY <2>1, <2>2, <2>3, <2>4 DEF TypeOK
<1>6. CASE UnlockWalk(i)
  <2>1. pc' \in [Ticket -> Label]
    BY <1>0, <1>6, GotoType DEF TypeOK, UnlockWalk, At, Label, Releasing, InUnlock, InWake
  <2>2. UNCHANGED <<mWaiters, mReadPos, mReaders, ids, idPos, workflowId, toPush, phase,
                   readPos, firstId, count, cur, messages, waitingLockCount, written,
                   value, seen>>
    BY <1>6 DEF UnlockWalk, lockVars, passVars, localVars, wakeVars, dataVars
  <2>3. QED
    BY <2>1, <2>2 DEF TypeOK
<1>7. CASE CountFinished(i)
  <2>1. pc' \in [Ticket -> Label]
    BY <1>0, <1>7, GotoType DEF TypeOK, CountFinished, Label, Releasing, InUnlock, InWake
  <2>2. count' \in [Ticket -> Nat] /\ mReaders' \in Int
    BY <1>0, <1>7 DEF TypeOK, CountFinished
  <2>3. UNCHANGED <<mWaiters, mReadPos, ids, idPos, workflowId, toPush, phase, readPos,
                   firstId, cur, messages, waitingLockCount, written, value, seen>>
    BY <1>7 DEF CountFinished, lockVars, passVars, localVars, wakeVars, dataVars
  <2>4. QED
    BY <2>1, <2>2, <2>3 DEF TypeOK
<1>8. CASE PopId(i)
  <2>1. pc' \in [Ticket -> Label]
    BY <1>0, <1>8, GotoType DEF TypeOK, PopId, Label, Releasing, InUnlock, InWake
  <2>2. idPos' \in Nat
    BY <1>0, <1>8 DEF TypeOK, PopId
  <2>3. UNCHANGED <<mWaiters, mReadPos, mReaders, ids, workflowId, toPush,
                   phase, readPos, firstId, count, cur, messages,
                   waitingLockCount, written, value, seen>>
    BY <1>8 DEF PopId, lockVars, passVars, localVars, wakeVars, dataVars
  <2>4. QED
    BY <2>1, <2>2, <2>3 DEF TypeOK
<1>9. CASE SkipOwn(i)
  <2>1. pc' \in [Ticket -> Label]
    BY <1>0, <1>9, GotoType DEF TypeOK, SkipOwn, Label, Releasing, InUnlock, InWake
  <2>2. count' \in [Ticket -> Nat]
    BY <1>0, <1>9 DEF TypeOK, SkipOwn
  <2>3. mReadPos' \in Nat
    <3>1. mReadPos \in Nat /\ count[i] \in Nat
      BY <1>0 DEF TypeOK
    <3>2. mReadPos' = mReadPos + count[i] + 1
      BY <1>9 DEF SkipOwn
    <3> QED
      BY <3>1, <3>2
  <2>4. UNCHANGED <<mWaiters, mReaders, ids, idPos, workflowId, toPush,
                   phase, readPos, firstId, cur, messages, waitingLockCount,
                   written, value, seen>>
    BY <1>9 DEF SkipOwn, lockVars, passVars, localVars, wakeVars, dataVars
  <2>5. QED
    BY <2>1, <2>2, <2>3, <2>4 DEF TypeOK
<1>10. CASE WakeValid(i)
  <2>1. pc' \in [Ticket -> Label]
    BY <1>0, <1>10, GotoType DEF TypeOK, WakeValid, Label, Releasing, InUnlock, InWake
  <2>2. UNCHANGED <<mWaiters, mReadPos, mReaders, ids, idPos, workflowId, toPush, phase,
                   readPos, firstId, count, cur, messages, waitingLockCount, written,
                   value, seen>>
    BY <1>10 DEF WakeValid, lockVars, passVars, localVars, wakeVars, dataVars
  <2>3. QED
    BY <2>1, <2>2 DEF TypeOK
<1>11. CASE WakeFirst(i)
  <2>1. pc' \in [Ticket -> Label]
    BY <1>0, <1>11, GotoType DEF TypeOK, WakeFirst, At, Label, Releasing, InUnlock, InWake
  <2>2. cur' \in [Ticket -> Ticket \cup {0}]
    <3>1. mReadPos \in Nat /\ count[i] \in Nat /\ Len(mWaiters) <= MaxWaiters
      BY <1>0 DEF TypeOK
    <3>2. mReadPos + count[i] < Len(mWaiters)
      BY <1>11 DEF WakeFirst
    <3>3. At(mReadPos + count[i]) \in Ticket
      BY <1>0, <3>1, <3>2 DEF At, Ticket
    <3>4. cur' = [cur EXCEPT ![i] = At(mReadPos + count[i])]
      BY <1>11 DEF WakeFirst
    <3>5. QED
      BY <3>3, <3>4 DEF TypeOK
  <2>3. UNCHANGED <<mWaiters, mReadPos, mReaders, ids, idPos, workflowId, toPush, phase,
                   readPos, firstId, count, messages, waitingLockCount, written, value,
                   seen>>
    BY <1>11 DEF WakeFirst, lockVars, passVars, localVars, wakeVars, dataVars
  <2>4. QED
    BY <2>1, <2>2, <2>3 DEF TypeOK
<1>12. CASE WakeReader(i)
  <2>1. pc' \in [Ticket -> Label]
    BY <1>0, <1>12, GotoType DEF TypeOK, WakeReader, Label, Releasing, InUnlock, InWake
  <2>2. count' \in [Ticket -> Nat] /\ mReaders' \in Int
    BY <1>0, <1>12 DEF TypeOK, WakeReader
  <2>3. UNCHANGED <<mWaiters, mReadPos, ids, idPos, workflowId, toPush, phase, readPos,
                   firstId, cur, messages, waitingLockCount, written, value, seen>>
    BY <1>12 DEF WakeReader, lockVars, passVars, localVars, wakeVars, dataVars
  <2>4. QED
    BY <2>1, <2>2, <2>3 DEF TypeOK
<1>13. CASE WakeWriter(i)
  <2>1. pc' \in [Ticket -> Label]
    BY <1>0, <1>13, GotoType DEF TypeOK, WakeWriter, Label, Releasing, InUnlock, InWake
  <2>2. UNCHANGED <<mWaiters, mReadPos, mReaders, ids, idPos, workflowId, toPush, phase,
                   readPos, firstId, count, cur, messages, waitingLockCount, written,
                   value, seen>>
    BY <1>13 DEF WakeWriter, lockVars, passVars, localVars, wakeVars, dataVars
  <2>3. QED
    BY <2>1, <2>2 DEF TypeOK
<1>14. CASE SkipReaders(i)
  <2>1. pc' \in [Ticket -> Label]
    BY <1>0, <1>14, GotoType DEF TypeOK, SkipReaders, Label, Releasing, InUnlock, InWake
  <2>2. count' \in [Ticket -> Nat]
    BY <1>0, <1>14 DEF TypeOK, SkipReaders
  <2>3. mReadPos' \in Nat
    <3>1. mReadPos \in Nat /\ count[i] \in Nat
      BY <1>0 DEF TypeOK
    <3>2. mReadPos' = mReadPos + count[i]
      BY <1>14 DEF SkipReaders
    <3>3. QED
      BY <3>1, <3>2
  <2>4. UNCHANGED <<mWaiters, mReaders, ids, idPos, workflowId, toPush, phase, readPos,
                   firstId, cur, messages, waitingLockCount, written, value, seen>>
    BY <1>14 DEF SkipReaders, lockVars, passVars, localVars, wakeVars, dataVars
  <2>5. QED
    BY <2>1, <2>2, <2>3, <2>4 DEF TypeOK
<1>15. CASE Enqueue(i)
  <2>1. pc' \in [Ticket -> Label]
    BY <1>0, <1>15, GotoType DEF TypeOK, Enqueue, Label, Releasing, InUnlock, InWake
  <2>2. messages' \in [Ticket -> Nat] /\ waitingLockCount' \in [Ticket -> Int]
    BY <1>15, WakeUpType DEF TypeOK, Enqueue
  <2>3. UNCHANGED <<mWaiters, mReadPos, mReaders, ids, idPos, workflowId, toPush, phase,
                   readPos, firstId, count, cur, written, value, seen>>
    BY <1>15 DEF Enqueue, lockVars, passVars, localVars, wakeVars, dataVars
  <2>4. QED
    BY <2>1, <2>2, <2>3 DEF TypeOK
<1>16. CASE EndWake(i)
  <2>1. pc' \in [Ticket -> Label]
    BY <1>0, <1>16, GotoType DEF TypeOK, EndWake, Finish, Label, Releasing, InUnlock, InWake
  <2>2. phase' \in [Ticket -> Phase]
    BY <1>0, <1>16 DEF TypeOK, EndWake, Finish, Phase
  <2>3. messages' \in [Ticket -> Nat]
    BY <1>0, <1>16 DEF TypeOK, EndWake, Finish
  <2>4. count' \in [Ticket -> Nat]
    BY <1>0, <1>16 DEF TypeOK, EndWake, Finish
  <2>5. /\ mReaders' = mReaders - count[i] /\ cur' = [cur EXCEPT ![i] = 0]
        /\ count[i] \in Nat /\ mReaders \in Int /\ cur \in [Ticket -> Ticket \cup {0}]
    BY <1>0, <1>16 DEF TypeOK, EndWake
  <2>r. mReaders' \in Int /\ cur' \in [Ticket -> Ticket \cup {0}]
    <3>1. cur' \in [Ticket -> Ticket \cup {0}]
      BY ONLY <2>5, Zenon
    <3>2. PICK n \in Nat, m \in Int : mReaders' = m - n
      BY ONLY <2>5
    <3>3. QED
      BY ONLY <3>1, <3>2
  <2>6. UNCHANGED <<mWaiters, mReadPos, ids, idPos, workflowId, toPush,
                   readPos, firstId, waitingLockCount, written, value,
                   seen>>
    BY <1>16 DEF EndWake, Finish, lockVars, passVars, localVars, wakeVars, dataVars
  <2>7. QED
    BY <2>1, <2>2, <2>3, <2>4, <2>r, <2>6 DEF TypeOK
<1>17. CASE ReadFirstId(i)
  <2>1. pc' \in [Ticket -> Label]
    BY <1>0, <1>17, GotoType DEF TypeOK, ReadFirstId, Label, Releasing, InUnlock, InWake
  <2>2. firstId' \in [Ticket -> Workflow \cup StaleIds]
    <3>1. PICK id \in IF idPos < Len(ids) THEN {ids[idPos + 1]} ELSE StaleIds :
            firstId' = [firstId EXCEPT ![i] = id]
      BY <1>17 DEF ReadFirstId
    <3>2. ids \in Seq(Workflow) /\ idPos \in Nat
      BY DEF TypeOK
    <3>3. idPos < Len(ids) => ids[idPos + 1] \in Workflow
      BY <3>2
    <3>4. id \in Workflow \cup StaleIds
      BY <3>1, <3>3
    <3>5. QED
      BY <3>1, <3>4 DEF TypeOK
  <2>3. UNCHANGED <<mWaiters, mReadPos, mReaders, ids, idPos, workflowId,
                   toPush, phase, readPos, count, cur, messages,
                   waitingLockCount, written, value, seen>>
    BY <1>17 DEF ReadFirstId, lockVars, passVars, localVars, wakeVars, dataVars
  <2>4. QED
    BY <2>1, <2>2, <2>3 DEF TypeOK
<1>18. CASE ReadEmpty(i)
  <2>1. pc' \in [Ticket -> Label]
    <3>1. \E label \in {"admitted", "ready", "suspended"} : Goto(i, label)
      BY <1>18 DEF ReadEmpty
    <3>2. QED
      BY <3>1 DEF TypeOK, Goto, Label
  <2>2. phase' \in [Ticket -> Phase]
    BY <1>0, <1>18 DEF TypeOK, ReadEmpty, Phase
  <2>3. firstId' \in [Ticket -> Workflow \cup StaleIds]
    BY <1>0, <1>18 DEF TypeOK, ReadEmpty, Workflow, StaleIds
  <2>4. UNCHANGED <<mWaiters, mReadPos, mReaders, ids, idPos, workflowId,
                   toPush, readPos, count, cur, messages, waitingLockCount,
                   written, value, seen>>
    BY <1>18 DEF ReadEmpty, lockVars, passVars, localVars, wakeVars, dataVars
  <2>5. QED
    BY <2>1, <2>2, <2>3, <2>4 DEF TypeOK
<1>19. CASE ReadValue(i)
  <2>1. pc' \in [Ticket -> Label]
    BY <1>0, <1>19, GotoType DEF TypeOK, ReadValue, Label, Releasing, InUnlock, InWake
  <2>2. phase' \in [Ticket -> Phase]
    BY <1>0, <1>19 DEF TypeOK, ReadValue, Phase
  <2>3. seen' \in [Ticket -> Ticket \cup {-1, 0}]
    BY <1>0, <1>19 DEF TypeOK, ReadValue, Ticket
  <2>4. UNCHANGED <<mWaiters, mReadPos, mReaders, ids, idPos, workflowId,
                   toPush, readPos, firstId, count, cur, messages,
                   waitingLockCount, written, value>>
    BY <1>19 DEF ReadValue, lockVars, passVars, localVars, wakeVars, dataVars
  <2>5. QED
    BY <2>1, <2>2, <2>3, <2>4 DEF TypeOK
<1>20. CASE UnlockShared(i)
  <2>1. pc' \in [Ticket -> Label]
    BY <1>0, <1>20, GotoType DEF TypeOK, UnlockShared, Finish, Label, Releasing, InUnlock, InWake
  <2>2. phase' \in [Ticket -> Phase]
    BY <1>0, <1>20 DEF TypeOK, UnlockShared, Finish, Phase
  <2>3. messages' \in [Ticket -> Nat]
    BY <1>0, <1>20 DEF TypeOK, UnlockShared, Finish
  <2>4. mReaders' \in Int
    BY <1>0, <1>20 DEF TypeOK, UnlockShared, Finish
  <2>5. UNCHANGED <<mWaiters, mReadPos, ids, idPos, workflowId, toPush,
                   readPos, firstId, count, cur, waitingLockCount, written,
                   value, seen>>
    BY <1>20 DEF UnlockShared, Finish, lockVars, passVars, localVars, wakeVars, dataVars
  <2>6. QED
    BY <2>1, <2>2, <2>3, <2>4, <2>5 DEF TypeOK
<1>21. CASE CompleteDeffered(i)
  <2>1. pc' \in [Ticket -> Label]
    BY <1>0, <1>21, GotoType DEF TypeOK, CompleteDeffered, Finish, Label, Releasing, InUnlock,
                                 InWake
  <2>2. phase' \in [Ticket -> Phase]
    BY <1>0, <1>21 DEF TypeOK, CompleteDeffered, Finish, Phase
  <2>3. messages' \in [Ticket -> Nat]
    BY <1>0, <1>21 DEF TypeOK, CompleteDeffered, Finish
  <2>4. mReaders' \in Int
    BY <1>0, <1>21 DEF TypeOK, CompleteDeffered, Finish
  <2>5. UNCHANGED <<mWaiters, mReadPos, ids, idPos, workflowId, toPush,
                   readPos, firstId, count, cur, waitingLockCount, written,
                   value, seen>>
    BY <1>21 DEF CompleteDeffered, Finish, lockVars, passVars, localVars, wakeVars, dataVars
  <2>6. QED
    BY <2>1, <2>2, <2>3, <2>4, <2>5 DEF TypeOK
<1>22. CASE Resume(i)
  <2>1. pc' \in [Ticket -> Label]
    BY <1>0, <1>22, GotoType DEF TypeOK, Resume, Label, Releasing, InUnlock, InWake
  <2>2. messages' \in [Ticket -> Nat]
    BY <1>0, <1>22, TakeType DEF TypeOK, Resume
  <2>3. UNCHANGED <<mWaiters, mReadPos, mReaders, ids, idPos, workflowId,
                   toPush, phase, readPos, firstId, count, cur,
                   waitingLockCount, written, value, seen>>
    BY <1>22 DEF Resume, Take, lockVars, passVars, localVars, wakeVars, dataVars
  <2>4. QED
    BY <2>1, <2>2, <2>3 DEF TypeOK
<1>23. CASE Ignore(i)
  <2>1. messages' \in [Ticket -> Nat]
    BY <1>0, <1>23, TakeType DEF TypeOK, Ignore
  <2>2. UNCHANGED <<mWaiters, mReadPos, mReaders, ids, idPos, workflowId,
                   toPush, pc, phase, readPos, firstId, count, cur,
                   waitingLockCount, written, value, seen>>
    BY <1>23 DEF Ignore, Take, lockVars, passVars, localVars, wakeVars, dataVars
  <2>3. QED
    BY <2>1, <2>2 DEF TypeOK
<1>24. QED
  BY TicketStep(i), <1>1, <1>2, <1>3, <1>4, <1>5, <1>6, <1>7, <1>8, <1>9, <1>10, <1>11, <1>12,
     <1>13, <1>14, <1>15, <1>16, <1>17, <1>18, <1>19, <1>20, <1>21, <1>22, <1>23
     DEF TicketStep, WriterStep, ReaderStep, MessageStep

(* A pass of the dispatcher keeps room for the readers it still pushes.    *)
LEMMA NextType == TypeOK /\ [Next]_vars => TypeOK'
<1> SUFFICES ASSUME TypeOK, [Next]_vars PROVE TypeOK'
  OBVIOUS
<1>0. /\ MaxWaiters \in Nat /\ MaxWorkflow \in Nat /\ workflowId \in Workflow
      /\ Len(mWaiters) \in Nat /\ Len(mWaiters) + Cardinality(toPush) <= MaxWaiters
      /\ toPush \subseteq Successors /\ IsFiniteSet(toPush) /\ Cardinality(toPush) \in Nat
      /\ IsFiniteSet(Successors) /\ Cardinality(Successors) \in Nat
  <2>1. toPush \subseteq Successors /\ IsFiniteSet(Successors)
    BY ConstantsAssumption DEF TypeOK
  <2>2. IsFiniteSet(toPush)
    BY <2>1, FS_Subset
  <2>3. Cardinality(toPush) \in Nat /\ Cardinality(Successors) \in Nat
    BY <2>1, <2>2, FS_CardinalityType
  <2>4. QED
    BY <2>1, <2>2, <2>3, ConstantsAssumption DEF TypeOK
<1>1. CASE Lock
  <2>1. /\ workflowId' = workflowId + 1 /\ workflowId < MaxWorkflow /\ toPush' = Successors
        /\ Len(mWaiters) + 1 + Cardinality(Successors) <= MaxWaiters
        /\ ids' = Append(ids, workflowId') /\ Push(workflowId', TRUE, OWNER)
    BY <1>1 DEF Lock
  <2>2. workflowId' \in Workflow /\ Len(mWaiters) < MaxWaiters
    BY <1>0, <2>1 DEF Workflow
  <2>3. /\ Len(mWaiters') = Len(mWaiters) + 1 /\ mWaiters' \in Seq(WaiterType)
        /\ pc' \in [Ticket -> Label] /\ waitingLockCount' \in [Ticket -> Int]
    BY <2>1, <2>2, PushType
  <2>4. Len(mWaiters') + Cardinality(toPush') <= MaxWaiters
    BY <1>0, <2>1, <2>3
  <2>5. ids' \in Seq(Workflow)
    BY <2>1, <2>2 DEF TypeOK
  <2>6. UNCHANGED <<mReadPos, mReaders, idPos, phase, readPos, firstId, count, cur,
                    messages, written, value, seen>>
    BY <1>1 DEF Lock, Push, localVars, dataVars
  <2>7. QED
    BY <2>1, <2>2, <2>3, <2>4, <2>5, <2>6 DEF TypeOK
<1>2. CASE \E reached \in SUBSET Successors \ {{}} : PassBy(reached)
  <2> PICK reached \in SUBSET Successors \ {{}} : PassBy(reached)
    BY <1>2
  <2>1. /\ workflowId' = workflowId + 1 /\ workflowId < MaxWorkflow /\ toPush' = reached
        /\ Len(mWaiters) + Cardinality(reached) <= MaxWaiters
    BY DEF PassBy
  <2>2. workflowId' \in Workflow
    BY <1>0, <2>1 DEF Workflow
  <2>3. UNCHANGED <<mWaiters, mReadPos, mReaders, ids, idPos, pc, phase, readPos, firstId,
                    count, cur, messages, waitingLockCount, written, value, seen>>
    BY DEF PassBy, lockVars, localVars, wakeVars, dataVars
  <2>4. QED
    BY <2>1, <2>2, <2>3 DEF TypeOK
<1>3. CASE \E s \in Successors : LockShared(s)
  <2> PICK s \in Successors : LockShared(s)
    BY <1>3
  <2>1. s \in toPush /\ toPush' = toPush \ {s} /\ Push(workflowId, FALSE, s)
    BY DEF LockShared
  <2>2. Cardinality(toPush') = Cardinality(toPush) - 1
    BY <1>0, <2>1, FS_RemoveElement
  <2>3. Cardinality(toPush) # 0
    BY <1>0, <2>1, FS_EmptySet
  <2>4. Len(mWaiters) < MaxWaiters
    BY <1>0, <2>3
  <2>5. /\ Len(mWaiters') = Len(mWaiters) + 1 /\ mWaiters' \in Seq(WaiterType)
        /\ pc' \in [Ticket -> Label] /\ waitingLockCount' \in [Ticket -> Int]
    BY <1>0, <2>1, <2>4, PushType
  <2>6. Len(mWaiters') + Cardinality(toPush') <= MaxWaiters /\ toPush' \subseteq Successors
    BY <1>0, <2>1, <2>2, <2>5
  <2>7. UNCHANGED <<mReadPos, mReaders, ids, idPos, workflowId, phase, readPos, firstId,
                    count, cur, messages, written, value, seen>>
    BY DEF LockShared, Push, localVars, dataVars
  <2>8. QED
    BY <2>5, <2>6, <2>7 DEF TypeOK
<1>4. CASE \E i \in Pushed : TicketStep(i)
  BY <1>4, TicketStepType
<1>5. CASE UNCHANGED vars
  BY <1>5 DEF TypeOK, vars, lockVars, passVars, localVars, wakeVars, dataVars
<1>6. QED
  BY <1>1, <1>2, <1>3, <1>4, <1>5 DEF Next

(* The code keeps its types in every behaviour, serial or not.             *)
THEOREM TypeCorrect == Spec => []TypeOK
  BY InitType, NextType, PTL DEF Spec
-----------------------------------------------------------------------------
(* The order of accesses, under SerialSpec.                                *)

(* The few facts about types that the steps below need.                    *)
LEMMA Typed ==
  ASSUME TypeOK
  PROVE  /\ Len(mWaiters) \in Nat /\ Pushed \subseteq Ticket
         /\ Ticket \subseteq Nat \ {0} /\ Pushed \subseteq Nat \ {0}
         /\ Pushed = 1..Len(mWaiters)
         /\ Writers \subseteq Pushed /\ Readers \subseteq Pushed
         /\ Writers \cap Readers = {} /\ Pushed = Writers \cup Readers
         /\ \A j \in Pushed : Wf(j) \in Nat
         /\ mReadPos \in Nat /\ mReaders \in Int /\ idPos \in Nat /\ workflowId \in Nat
<1>1. IsFiniteSet(toPush) /\ Cardinality(toPush) \in Nat
  BY ConstantsAssumption, FS_Subset, FS_CardinalityType DEF TypeOK
<1>2. Len(mWaiters) \in Nat /\ Len(mWaiters) <= MaxWaiters /\ MaxWaiters \in Nat
  BY <1>1, ConstantsAssumption DEF TypeOK
<1>3. Pushed \subseteq Ticket /\ Ticket \subseteq Nat \ {0} /\ Pushed \subseteq Nat \ {0}
  BY <1>2 DEF Pushed, Ticket
<1>4. \A j \in Pushed : mWaiters[j] \in WaiterType
  BY DEF TypeOK, Pushed
<1>5. \A j \in Pushed : Wf(j) \in Nat /\ mWaiters[j].IsWriter \in BOOLEAN
  BY <1>4, ConstantsAssumption DEF Wf, WaiterType, Workflow
<1>6. workflowId \in Nat
  BY ConstantsAssumption DEF TypeOK, Workflow
<1>7. QED
  BY <1>2, <1>3, <1>5, <1>6 DEF TypeOK, Pushed, Writers, Readers

(* Tickets keep their kind and workflow while nothing is pushed.           *)
LEMMA SameQueue ==
  ASSUME mWaiters' = mWaiters
  PROVE  /\ Pushed' = Pushed /\ Writers' = Writers /\ Readers' = Readers
         /\ \A j : Wf(j)' = Wf(j)
BY DEF Pushed, Writers, Readers, Wf

(* Goto moves one task.                                                    *)
LEMMA GotoAt ==
  ASSUME pc \in [Ticket -> Label], NEW i \in Ticket, NEW label, Goto(i, label)
  PROVE  \A j \in Ticket : pc'[j] = IF j = i THEN label ELSE pc[j]
BY DEF Goto

(* The readers mReaders stands for can be counted.                         *)
LEMMA FinishedFinite ==
  ASSUME TypeOK
  PROVE  IsFiniteSet(Finished) /\ Cardinality(Finished) \in Nat
<1>1. IsFiniteSet(1..Len(mWaiters))
  BY Typed, FS_Interval
<1>2. Finished \subseteq 1..Len(mWaiters)
  BY Typed DEF Finished
<1>3. QED
  BY <1>1, <1>2, FS_Subset, FS_CardinalityType

(* A step away from Unlock and Wake leaves their place in the queue.        *)
LEMMA ReleaseKept ==
  ASSUME TypeOK, ReleaseInv, UNCHANGED <<mWaiters, mReadPos, count, cur>>,
         \A w \in Writers : pc'[w] = pc[w] \/ (pc[w] \notin Releasing /\ pc'[w] \notin Releasing),
         \A j \in Pushed : Left(j) => Left(j)'
  PROVE  ReleaseInv'
<1>1. /\ Writers' = Writers /\ Readers' = Readers /\ \A w : Scanned(w)' = Scanned(w)
      /\ Writers \subseteq Pushed /\ Readers \subseteq Pushed
  BY SameQueue, Typed DEF Scanned
<1>2. ASSUME NEW w \in Writers PROVE ReleaseAt(w)'
  <2>1. ReleaseAt(w)
    BY DEF ReleaseInv
  <2>2. CASE pc[w] \notin Releasing /\ pc'[w] \notin Releasing
    <3>1. count'[w] = 0
      BY <2>1, <2>2 DEF ReleaseAt
    <3>2. QED
      BY <2>2, <3>1 DEF ReleaseAt, Releasing, InUnlock, InWake
  <2>3. CASE pc'[w] = pc[w]
    <3>1. pc[w] = "skipReaders" => \A j \in Scanned(w)' : Left(j)'
      <4>1. pc[w] = "skipReaders" => Scanned(w) \subseteq Readers
        BY <2>1 DEF ReleaseAt, InWake
      <4>2. QED
        BY <2>1, <4>1, <1>1 DEF ReleaseAt
    <3>2. QED
      BY <2>1, <2>3, <3>1, <1>1 DEF ReleaseAt
  <2>4. QED
    BY <2>2, <2>3
<1>3. QED
  BY <1>1, <1>2 DEF ReleaseInv

(* Where a task stands that neither has the lock nor was granted it.       *)
Idle == {"queued", "unschedulable", "ready", "check", "suspended"}

(* A step of one task that takes no part in the order: what it learnt from *)
(* a position or an id holds when it learns it, and stays true.            *)
LEMMA QuietStep ==
  ASSUME IInv, TypeOK', NEW i \in Pushed, NEW label \in Idle,
         pc[i] \in Idle,
         \A j \in Ticket : pc'[j] = IF j = i THEN label ELSE pc[j],
         UNCHANGED <<mWaiters, mReadPos, mReaders, ids, idPos, workflowId,
                     count, cur, written, value, seen>>,
         \A j \in Ticket : messages'[j] <= messages[j],
         \A j \in Ticket : j # i => /\ phase'[j] = phase[j] /\ readPos'[j] = readPos[j]
                                    /\ firstId'[j] = firstId[j],
         label = "unschedulable" => i \in Readers,
         i \in Writers => phase'[i] = phase[i],
         label = "check" /\ i \in Writers => readPos'[i] <= mReadPos,
         label = "check" /\ i \in Readers /\ firstId'[i] > Wf(i) => BehindPopped(i)
  PROVE  IInv'
<1>0. TypeOK
  BY DEF IInv
<1>1. /\ Pushed' = Pushed /\ Writers' = Writers /\ Readers' = Readers
      /\ \A j : Wf(j)' = Wf(j)
  BY SameQueue
<1>2. /\ \A j \in Pushed : (Popped(j)' <=> Popped(j)) /\ (Active(j)' <=> Active(j))
                             /\ (Left(j)' <=> Left(j))
      /\ \A j \in Pushed : BehindPopped(j) => BehindPopped(j)'
      /\ \A j \in Pushed : AllBeforeLeft(j) => AllBeforeLeft(j)'
  <2>1. \A j \in Pushed : (Popped(j)' <=> Popped(j)) /\ (Active(j)' <=> Active(j))
    BY <1>0, Typed DEF Popped, Active, Idle, Releasing, InUnlock, InWake
  <2>2. \A j \in Pushed : Left(j)' <=> Left(j)
    BY <1>0, <1>1, <2>1, Typed DEF Left, Idle
  <2>3. \A j \in Pushed : BehindPopped(j) => BehindPopped(j)'
    BY <1>0, <1>1, <2>1, Typed DEF BehindPopped
  <2>4. \A j \in Pushed : AllBeforeLeft(j) => AllBeforeLeft(j)'
    BY <1>0, <1>1, <2>2, Typed DEF AllBeforeLeft
  <2>5. QED
    BY <2>1, <2>2, <2>3, <2>4
<1>m. \A j \in Ticket : messages[j] \in Nat /\ messages'[j] \in Nat /\ messages'[j] <= messages[j]
  BY <1>0 DEF TypeOK
<1>3. LabelsInv'
  <2>1. \A j \in Ticket \ Pushed :
          /\ pc'[j] = "absent" /\ seen'[j] = -1 /\ messages'[j] = 0 /\ phase'[j] = "none"
          /\ count'[j] = 0
    BY <1>m, <1>0, Typed DEF IInv, LabelsInv
  <2>2. /\ \A j \in Pushed : pc'[j] # "absent"
        /\ \A w \in Writers :
             pc'[w] \notin {"admitted", "unschedulable"} /\ seen'[w] = -1 /\ phase'[w] = "none"
        /\ \A r \in Readers : pc'[r] # "holding" /\ pc'[r] \notin Releasing
    <3>1. \A j \in Ticket : phase'[j] = phase[j] \/ j = i
      BY <1>0
    <3>2. \A w \in Writers : phase'[w] = "none"
      BY <3>1, <1>0, Typed DEF IInv, LabelsInv
    <3>3. \A w \in Writers : pc'[w] \notin {"admitted", "unschedulable"} /\ seen'[w] = -1
      BY <1>0, Typed DEF IInv, LabelsInv, Idle
    <3>4. /\ \A j \in Pushed : pc'[j] # "absent"
          /\ \A r \in Readers : pc'[r] # "holding" /\ pc'[r] \notin Releasing
      BY <1>0, Typed, SMTT(30) DEF IInv, LabelsInv, Idle, Releasing, InUnlock, InWake
    <3>5. QED
      BY <3>2, <3>3, <3>4
  <2>3. QED
    BY <1>1, <2>1, <2>2 DEF LabelsInv
<1>4. OrderInv'
  BY <1>1 DEF IInv, OrderInv
<1>5. IdsInv'
  BY <1>0, <1>1, <1>2, Typed DEF IInv, IdsInv
<1>6. ExclusionInv'
  BY <1>0, <1>1, <1>2, Typed DEF IInv, ExclusionInv
<1>7. GrantInv'
  <2>1. GrantInv
    BY DEF IInv
  <2>2. /\ \A w \in Writers : (Active(w) \/ Popped(w))' => AllBeforeLeft(w)'
        /\ \A w \in Writers : messages'[w] > 0 => AllBeforeLeft(w)'
    BY <2>1, <1>0, <1>2, <1>m, Typed DEF GrantInv
  <2>3. \A r \in Readers :
          pc'[r] \in {"admitted", "done"} \/ seen'[r] # -1 \/ messages'[r] > 0 => BehindPopped(r)'
    BY <2>1, <1>0, <1>2, <1>m, Typed, SMTT(30) DEF GrantInv, Idle
  <2>4. \A r \in Readers : pc'[r] = "check" /\ firstId'[r] > Wf(r) => BehindPopped(r)'
    BY <2>1, <1>0, <1>2, Typed DEF GrantInv, Idle
  <2>5. \A w \in Writers : pc'[w] = "check" => readPos'[w] <= mReadPos
    BY <2>1, <1>0, Typed DEF GrantInv, Idle
  <2>6. QED
    BY <1>1, <2>2, <2>3, <2>4, <2>5 DEF GrantInv
<1>8. PositionInv'
  <2>1. PositionInv /\ mReadPos \in Nat /\ Len(mWaiters) \in Nat /\ Pushed = 1..Len(mWaiters)
    BY Typed DEF IInv
  <2>2. UNCHANGED <<mReadPos, mWaiters>> /\ Len(mWaiters') = Len(mWaiters)
    BY <1>0
  <2>3. 1..mReadPos \subseteq Pushed
    BY <2>1 DEF PositionInv
  <2>4. \A j \in 1..mReadPos : Left(j)'
    BY <1>2, <2>1, <2>3 DEF PositionInv
  <2>5. \A w \in Writers : Popped(w)' /\ w > mReadPos => pc'[w] = "skip"
    BY <1>0, <1>2, <2>1, Typed DEF PositionInv, Idle
  <2>6. QED
    BY <1>1, <2>1, <2>2, <2>4, <2>5 DEF PositionInv
<1>9. ReleaseInv'
  <2>1. \A w \in Writers : pc'[w] = pc[w] \/ (pc[w] \notin Releasing /\ pc'[w] \notin Releasing)
    BY <1>0, Typed DEF Idle, Releasing, InUnlock, InWake
  <2>2. QED
    BY <2>1, <1>0, <1>2, ReleaseKept DEF IInv
<1>10. ReaderAccounting'
  <2>1. Finished' = Finished
    BY <1>0, <1>1, Typed DEF Finished, Idle
  <2>2. \A w \in Writers : pc'[w] \in Releasing <=> pc[w] \in Releasing
    BY <1>0, Typed DEF Idle, Releasing, InUnlock, InWake
  <2>3. QED
    BY <1>1, <2>1, <2>2 DEF IInv, ReaderAccounting
<1>11. ValueInv'
  BY <1>0, <1>1, <1>2, Typed DEF IInv, ValueInv, ObservedValue, Idle, Releasing, InUnlock, InWake
<1>12. QED
  BY <1>3, <1>4, <1>5, <1>6, <1>7, <1>8, <1>9, <1>10, <1>11 DEF IInv

(* What has left stays so, hence what was granted stays granted.           *)
LEMMA StaysGranted ==
  ASSUME TypeOK, mWaiters' = mWaiters,
         \A j \in Pushed : (Popped(j) => Popped(j)') /\ (Left(j) => Left(j)')
  PROVE  /\ \A j \in Pushed : BehindPopped(j) => BehindPopped(j)'
         /\ \A j \in Pushed : AllBeforeLeft(j) => AllBeforeLeft(j)'
<1>1. \A j \in Pushed : BehindPopped(j) => BehindPopped(j)'
  BY SameQueue, Typed DEF BehindPopped
<1>2. \A j \in Pushed : AllBeforeLeft(j) => AllBeforeLeft(j)'
  BY SameQueue, Typed DEF AllBeforeLeft
<1>3. QED
  BY <1>1, <1>2

(* A writer that takes the lock, or is handed it.                          *)
LEMMA AdmitWriter ==
  ASSUME IInv, TypeOK', NEW i \in Writers, pc[i] \in Idle,
         \A j \in Ticket : pc'[j] = IF j = i THEN "holding" ELSE pc[j],
         UNCHANGED <<mWaiters, mReadPos, mReaders, ids, idPos, workflowId, phase, firstId,
                     count, cur, written, value, seen>>,
         \A j \in Ticket : messages'[j] <= messages[j],
         \A j \in Ticket : j # i => readPos'[j] = readPos[j],
         AllBeforeLeft(i),
         \A v \in Writers : pc[v] \notin Releasing
  PROVE  IInv'
<1>0. TypeOK /\ i \in Pushed /\ i \in Ticket
  BY Typed DEF IInv
<1>1. /\ Pushed' = Pushed /\ Writers' = Writers /\ Readers' = Readers
      /\ \A j : Wf(j)' = Wf(j)
  BY SameQueue
<1>m. \A j \in Ticket : messages[j] \in Nat /\ messages'[j] \in Nat /\ messages'[j] <= messages[j]
  BY <1>0 DEF TypeOK
<1>2. \A j \in Pushed : (Popped(j)' <=> Popped(j)) /\ (Left(j)' <=> Left(j))
  <2>1. \A j \in Pushed : Popped(j)' <=> Popped(j)
    BY <1>0, Typed DEF Popped, Idle, InUnlock, InWake
  <2>2. QED
    BY <1>0, <1>1, <2>1, Typed DEF Left
<1>g. /\ \A j \in Pushed : BehindPopped(j) => BehindPopped(j)'
      /\ \A j \in Pushed : AllBeforeLeft(j) => AllBeforeLeft(j)'
  BY <1>0, <1>2, StaysGranted
<1>3. LabelsInv'
  <2>1. \A j \in Ticket \ Pushed :
          /\ pc'[j] = "absent" /\ seen'[j] = -1 /\ messages'[j] = 0 /\ phase'[j] = "none"
          /\ count'[j] = 0
    BY <1>m, <1>0, Typed DEF IInv, LabelsInv
  <2>2. /\ \A j \in Pushed : pc'[j] # "absent"
        /\ \A w \in Writers :
             pc'[w] \notin {"admitted", "unschedulable"} /\ seen'[w] = -1 /\ phase'[w] = "none"
        /\ \A r \in Readers : pc'[r] # "holding" /\ pc'[r] \notin Releasing
    BY <1>0, Typed DEF IInv, LabelsInv
  <2>3. QED
    BY <1>1, <2>1, <2>2 DEF LabelsInv
<1>4. OrderInv'
  BY <1>1 DEF IInv, OrderInv
<1>5. IdsInv'
  BY <1>0, <1>1, <1>2, Typed DEF IInv, IdsInv
<1>6. ExclusionInv'
  <2>1. ASSUME NEW v \in Writers, v # i, pc[v] = "holding" PROVE FALSE
    <3>1. AllBeforeLeft(v)
      BY <2>1 DEF IInv, GrantInv, Active
    <3>2. CASE v < i
      <4>1. Left(v)
        BY <3>2, <1>0, Typed DEF AllBeforeLeft
      <4>2. QED
        BY <4>1, <2>1 DEF Left, Popped, InUnlock, InWake
    <3>3. CASE i < v
      <4>1. Left(i)
        BY <3>1, <3>3, <1>0, Typed DEF AllBeforeLeft
      <4>2. QED
        BY <4>1 DEF Left, Popped, Idle, InUnlock, InWake
    <3>4. QED
      BY <2>1, <3>2, <3>3, <1>0, Typed
  <2>2. \A v \in Writers : v # i => ~Active(v)'
    BY <2>1, <1>0, Typed DEF Active
  <2>3. QED
    BY <1>1, <2>2 DEF ExclusionInv
<1>7. GrantInv'
  <2>1. GrantInv
    BY DEF IInv
  <2>2. /\ \A w \in Writers : (Active(w) \/ Popped(w))' => AllBeforeLeft(w)'
        /\ \A w \in Writers : messages'[w] > 0 => AllBeforeLeft(w)'
    BY <2>1, <1>0, <1>2, <1>g, <1>m, Typed, SMTT(30) DEF GrantInv, Active
  <2>3. \A r \in Readers :
          pc'[r] \in {"admitted", "done"} \/ seen'[r] # -1 \/ messages'[r] > 0 => BehindPopped(r)'
    BY <2>1, <1>0, <1>g, <1>m, Typed DEF GrantInv
  <2>4. \A r \in Readers : pc'[r] = "check" /\ firstId'[r] > Wf(r) => BehindPopped(r)'
    BY <2>1, <1>0, <1>g, Typed DEF GrantInv
  <2>5. \A w \in Writers : pc'[w] = "check" => readPos'[w] <= mReadPos
    BY <2>1, <1>0, Typed DEF GrantInv
  <2>6. QED
    BY <1>1, <2>2, <2>3, <2>4, <2>5 DEF GrantInv
<1>8. PositionInv'
  <2>1. PositionInv /\ mReadPos \in Nat /\ Len(mWaiters) \in Nat /\ Pushed = 1..Len(mWaiters)
    BY Typed DEF IInv
  <2>2. UNCHANGED <<mReadPos, mWaiters>> /\ Len(mWaiters') = Len(mWaiters)
    BY <1>0
  <2>3. 1..mReadPos \subseteq Pushed
    BY <2>1 DEF PositionInv
  <2>4. \A j \in 1..mReadPos : Left(j)'
    BY <1>2, <2>1, <2>3 DEF PositionInv
  <2>5. \A w \in Writers : Popped(w)' /\ w > mReadPos => pc'[w] = "skip"
    BY <1>0, <1>2, <2>1, Typed DEF PositionInv, Idle
  <2>6. QED
    BY <1>1, <2>1, <2>2, <2>4, <2>5 DEF PositionInv
<1>9. ReleaseInv'
  <2>1. \A w \in Writers : pc'[w] = pc[w] \/ (pc[w] \notin Releasing /\ pc'[w] \notin Releasing)
    BY <1>0, Typed DEF Idle, Releasing, InUnlock, InWake
  <2>2. QED
    BY <2>1, <1>0, <1>2, ReleaseKept DEF IInv
<1>10. ReaderAccounting'
  <2>1. Finished' = Finished
    BY <1>0, <1>1, Typed DEF Finished, Idle
  <2>2. \A w \in Writers : pc'[w] \in Releasing <=> pc[w] \in Releasing
    BY <1>0, Typed DEF Idle, Releasing, InUnlock, InWake
  <2>3. QED
    BY <1>1, <2>1, <2>2 DEF IInv, ReaderAccounting
<1>11. ValueInv'
  BY <1>0, <1>1, Typed, SMTT(30) DEF IInv, ValueInv, ObservedValue, Idle, Releasing, InUnlock, InWake
<1>12. QED
  BY <1>3, <1>4, <1>5, <1>6, <1>7, <1>8, <1>9, <1>10, <1>11 DEF IInv

(* A reader that takes the lock, or is handed it.                          *)
LEMMA AdmitReader ==
  ASSUME IInv, TypeOK', NEW i \in Readers, pc[i] \in Idle,
         \A j \in Ticket : pc'[j] = IF j = i THEN "admitted" ELSE pc[j],
         UNCHANGED <<mWaiters, mReadPos, mReaders, ids, idPos, workflowId, readPos, phase,
                     count, cur, written, value, seen>>,
         \A j \in Ticket : messages'[j] <= messages[j],
         \A j \in Ticket : j # i => firstId'[j] = firstId[j],
         BehindPopped(i)
  PROVE  IInv'
<1>0. TypeOK /\ i \in Pushed /\ i \in Ticket
  BY Typed DEF IInv
<1>1. /\ Pushed' = Pushed /\ Writers' = Writers /\ Readers' = Readers
      /\ \A j : Wf(j)' = Wf(j)
  BY SameQueue
<1>m. \A j \in Ticket : messages[j] \in Nat /\ messages'[j] \in Nat /\ messages'[j] <= messages[j]
  BY <1>0 DEF TypeOK
<1>w. i \notin Writers
  BY <1>0, Typed
<1>2. \A j \in Pushed : (Popped(j)' <=> Popped(j)) /\ (Left(j)' <=> Left(j)) /\ (Active(j)' <=> Active(j))
  <2>1. \A j \in Pushed : (Popped(j)' <=> Popped(j)) /\ (Active(j)' <=> Active(j))
    BY <1>0, Typed DEF Popped, Active, Releasing, Idle, InUnlock, InWake
  <2>2. QED
    BY <1>0, <1>1, <2>1, Typed DEF Left, Idle
<1>g. /\ \A j \in Pushed : BehindPopped(j) => BehindPopped(j)'
      /\ \A j \in Pushed : AllBeforeLeft(j) => AllBeforeLeft(j)'
  BY <1>0, <1>2, StaysGranted
<1>3. LabelsInv'
  <2>1. \A j \in Ticket \ Pushed :
          /\ pc'[j] = "absent" /\ seen'[j] = -1 /\ messages'[j] = 0 /\ phase'[j] = "none"
          /\ count'[j] = 0
    BY <1>m, <1>0, Typed DEF IInv, LabelsInv
  <2>2. /\ \A j \in Pushed : pc'[j] # "absent"
        /\ \A w \in Writers :
             pc'[w] \notin {"admitted", "unschedulable"} /\ seen'[w] = -1 /\ phase'[w] = "none"
        /\ \A r \in Readers : pc'[r] # "holding" /\ pc'[r] \notin Releasing
    BY <1>0, <1>w, Typed DEF IInv, LabelsInv, Releasing, InUnlock, InWake
  <2>3. QED
    BY <1>1, <2>1, <2>2 DEF LabelsInv
<1>4. OrderInv'
  BY <1>1 DEF IInv, OrderInv
<1>5. IdsInv'
  BY <1>0, <1>1, <1>2, Typed DEF IInv, IdsInv
<1>6. ExclusionInv'
  BY <1>0, <1>1, <1>2, Typed DEF IInv, ExclusionInv
<1>7. GrantInv'
  <2>1. GrantInv
    BY DEF IInv
  <2>2. /\ \A w \in Writers : (Active(w) \/ Popped(w))' => AllBeforeLeft(w)'
        /\ \A w \in Writers : messages'[w] > 0 => AllBeforeLeft(w)'
    BY <2>1, <1>0, <1>2, <1>g, <1>m, Typed, SMTT(30) DEF GrantInv
  <2>3. \A r \in Readers :
          pc'[r] \in {"admitted", "done"} \/ seen'[r] # -1 \/ messages'[r] > 0 => BehindPopped(r)'
    BY <2>1, <1>0, <1>g, <1>m, Typed, SMTT(30) DEF GrantInv
  <2>4. \A r \in Readers : pc'[r] = "check" /\ firstId'[r] > Wf(r) => BehindPopped(r)'
    BY <2>1, <1>0, <1>g, Typed DEF GrantInv
  <2>5. \A w \in Writers : pc'[w] = "check" => readPos'[w] <= mReadPos
    BY <2>1, <1>0, <1>w, Typed DEF GrantInv
  <2>6. QED
    BY <1>1, <2>2, <2>3, <2>4, <2>5 DEF GrantInv
<1>8. PositionInv'
  BY <1>0, <1>1, <1>2, <1>w, Typed, SMTT(30) DEF IInv, PositionInv
<1>9. ReleaseInv'
  <2>1. \A w \in Writers : pc'[w] = pc[w]
    BY <1>0, <1>w, Typed
  <2>2. QED
    BY <2>1, <1>0, <1>2, ReleaseKept DEF IInv
<1>10. ReaderAccounting'
  <2>1. Finished' = Finished
    BY <1>0, <1>1, Typed DEF Finished, Idle
  <2>2. \A w \in Writers : pc'[w] = pc[w]
    BY <1>0, <1>w, Typed
  <2>3. QED
    BY <1>1, <2>1, <2>2 DEF IInv, ReaderAccounting
<1>11. ValueInv'
  BY <1>0, <1>1, <1>w, Typed DEF IInv, ValueInv, ObservedValue
<1>12. QED
  BY <1>3, <1>4, <1>5, <1>6, <1>7, <1>8, <1>9, <1>10, <1>11 DEF IInv

(* A reader that ends, in front of the first writer that has not popped,   *)
(* is counted in mReaders from then on.                                    *)
LEMMA EndReader ==
  ASSUME IInv, TypeOK', NEW i \in Readers, pc[i] # "done", BehindPopped(i), Finish(i),
         mReaders' = mReaders - 1,
         UNCHANGED <<mWaiters, mReadPos, ids, idPos, workflowId, localVars, dataVars>>
  PROVE  IInv'
<1>0. TypeOK /\ i \in Pushed /\ i \in Ticket /\ i \notin Writers
  BY Typed DEF IInv
<1>1. /\ Pushed' = Pushed /\ Writers' = Writers /\ Readers' = Readers
      /\ \A j : Wf(j)' = Wf(j)
  BY SameQueue
<1>f. UNCHANGED <<readPos, firstId, count, cur, written, value, seen>>
  BY DEF localVars, dataVars
<1>p. /\ \A j \in Ticket : pc'[j] = IF j = i THEN "done" ELSE pc[j]
      /\ \A j \in Ticket : phase'[j] = IF j = i THEN "none" ELSE phase[j]
      /\ \A j \in Ticket : messages'[j] = IF j = i THEN 0 ELSE messages[j]
  BY <1>0 DEF Finish, Goto, TypeOK
<1>2. \A j \in Pushed : (Popped(j) => Popped(j)') /\ (Left(j) => Left(j)')
  <2>1. \A j \in Pushed : Popped(j) => Popped(j)'
    BY <1>0, <1>p, Typed DEF Popped, InUnlock, InWake
  <2>2. QED
    BY <1>0, <1>1, <1>p, <2>1, Typed DEF Left
<1>w. \A w \in Writers : pc'[w] = pc[w] /\ (Popped(w)' <=> Popped(w)) /\ (Active(w)' <=> Active(w))
  BY <1>0, <1>p, Typed DEF Popped, Active, InUnlock, InWake
<1>g. /\ \A j \in Pushed : BehindPopped(j) => BehindPopped(j)'
      /\ \A j \in Pushed : AllBeforeLeft(j) => AllBeforeLeft(j)'
  BY <1>0, <1>2, StaysGranted
<1>3. LabelsInv'
  <2>1. \A j \in Ticket \ Pushed :
          /\ pc'[j] = "absent" /\ seen'[j] = -1 /\ messages'[j] = 0 /\ phase'[j] = "none"
          /\ count'[j] = 0
    BY <1>p, <1>f, <1>0, Typed DEF IInv, LabelsInv
  <2>2. /\ \A j \in Pushed : pc'[j] # "absent"
        /\ \A w \in Writers :
             pc'[w] \notin {"admitted", "unschedulable"} /\ seen'[w] = -1 /\ phase'[w] = "none"
        /\ \A r \in Readers : pc'[r] # "holding" /\ pc'[r] \notin Releasing
    BY <1>p, <1>f, <1>0, Typed DEF IInv, LabelsInv, Releasing, InUnlock, InWake
  <2>3. QED
    BY <1>1, <2>1, <2>2 DEF LabelsInv
<1>4. OrderInv'
  BY <1>1 DEF IInv, OrderInv
<1>5. IdsInv'
  BY <1>0, <1>1, <1>w, Typed DEF IInv, IdsInv
<1>6. ExclusionInv'
  BY <1>1, <1>w DEF IInv, ExclusionInv
<1>7. GrantInv'
  <2>1. GrantInv
    BY DEF IInv
  <2>2. /\ \A w \in Writers : (Active(w) \/ Popped(w))' => AllBeforeLeft(w)'
        /\ \A w \in Writers : messages'[w] > 0 => AllBeforeLeft(w)'
    BY <2>1, <1>0, <1>w, <1>g, <1>p, Typed DEF GrantInv
  <2>3. \A r \in Readers :
          pc'[r] \in {"admitted", "done"} \/ seen'[r] # -1 \/ messages'[r] > 0 => BehindPopped(r)'
    BY <2>1, <1>0, <1>f, <1>g, <1>p, Typed DEF GrantInv
  <2>4. \A r \in Readers : pc'[r] = "check" /\ firstId'[r] > Wf(r) => BehindPopped(r)'
    BY <2>1, <1>0, <1>f, <1>g, <1>p, Typed DEF GrantInv
  <2>5. \A w \in Writers : pc'[w] = "check" => readPos'[w] <= mReadPos
    BY <2>1, <1>f, <1>w DEF GrantInv
  <2>6. QED
    BY <1>1, <2>2, <2>3, <2>4, <2>5 DEF GrantInv
<1>8. PositionInv'
  BY <1>0, <1>1, <1>2, <1>w, Typed, SMTT(30) DEF IInv, PositionInv
<1>9. ReleaseInv'
  BY <1>0, <1>f, <1>w, <1>2, ReleaseKept DEF IInv
<1>10. ReaderAccounting'
  <2>1. i > mReadPos
    <3>1. ~Left(i)
      BY <1>0 DEF Left
    <3>2. QED
      BY <3>1, <1>0, Typed DEF IInv, PositionInv
  <2>2. Finished' = Finished \cup {i} /\ i \notin Finished
    BY <1>0, <1>1, <1>p, <2>1, Typed DEF Finished
  <2>3. Cardinality(Finished') = Cardinality(Finished) + 1 /\ Cardinality(Finished) \in Nat
    BY <1>0, <2>2, FinishedFinite, FS_AddElement
  <2>4. \A w \in Writers : count[w] \in Nat
    BY <1>0, Typed DEF TypeOK
  <2>5. ReaderAccounting /\ mReaders \in Int
    BY <1>0, Typed DEF IInv
  <2>6. \A w \in Writers : pc'[w] \in Releasing => mReaders' = count'[w] - Cardinality(Finished')
    BY <1>f, <1>w, <2>3, <2>4, <2>5 DEF ReaderAccounting
  <2>7. (\A w \in Writers : pc'[w] \notin Releasing) => mReaders' = - Cardinality(Finished')
    BY <1>w, <2>3, <2>5 DEF ReaderAccounting
  <2>8. QED
    BY <1>1, <2>6, <2>7 DEF ReaderAccounting
<1>11. ValueInv'
  BY <1>0, <1>1, <1>f, <1>w, Typed DEF IInv, ValueInv, ObservedValue
<1>12. QED
  BY <1>3, <1>4, <1>5, <1>6, <1>7, <1>8, <1>9, <1>10, <1>11 DEF IInv

(* A reader finds the value of the last writer before it: a later writer   *)
(* has not run, for this reader has not left.                              *)
LEMMA ReadValueStep ==
  ASSUME IInv, TypeOK', NEW i \in Pushed, ReadValue(i)
  PROVE  IInv'
<1>0. TypeOK /\ i \in Pushed /\ i \in Ticket /\ i \in Readers /\ i \notin Writers
  BY Typed DEF IInv, ReadValue
<1>1. /\ Pushed' = Pushed /\ Writers' = Writers /\ Readers' = Readers
      /\ \A j : Wf(j)' = Wf(j)
  BY SameQueue DEF ReadValue, lockVars
<1>f. UNCHANGED <<mWaiters, mReadPos, mReaders, ids, idPos, workflowId, readPos, firstId,
                  count, cur, messages, written, value>>
  BY DEF ReadValue, lockVars, passVars, localVars, wakeVars
<1>p. /\ pc[i] = "admitted"
      /\ \A j \in Ticket : pc'[j] = IF j = i THEN "ready" ELSE pc[j]
      /\ \A j \in Ticket : phase'[j] = IF j = i THEN "try" ELSE phase[j]
      /\ \A j \in Ticket : seen'[j] = IF j = i THEN value ELSE seen[j]
  BY <1>0 DEF ReadValue, Goto, TypeOK
<1>w. /\ \A w \in Writers : pc'[w] = pc[w]
      /\ \A j \in Pushed : (Popped(j)' <=> Popped(j)) /\ (Active(j)' <=> Active(j))
  BY <1>0, <1>p, Typed DEF Popped, Active, Releasing, InUnlock, InWake
<1>2. \A j \in Pushed : Left(j) <=> Left(j)'
  BY <1>0, <1>1, <1>p, <1>w, Typed DEF Left
<1>g. /\ \A j \in Pushed : BehindPopped(j) => BehindPopped(j)'
      /\ \A j \in Pushed : AllBeforeLeft(j) => AllBeforeLeft(j)'
  BY <1>0, <1>2, <1>f, <1>w, StaysGranted
<1>b. BehindPopped(i)
  BY <1>0, <1>p DEF IInv, GrantInv
<1>3. LabelsInv'
  <2>1. \A j \in Ticket \ Pushed :
          /\ pc'[j] = "absent" /\ seen'[j] = -1 /\ messages'[j] = 0 /\ phase'[j] = "none"
          /\ count'[j] = 0
    BY <1>p, <1>f, <1>0, Typed DEF IInv, LabelsInv
  <2>2. /\ \A j \in Pushed : pc'[j] # "absent"
        /\ \A w \in Writers :
             pc'[w] \notin {"admitted", "unschedulable"} /\ seen'[w] = -1 /\ phase'[w] = "none"
        /\ \A r \in Readers : pc'[r] # "holding" /\ pc'[r] \notin Releasing
    BY <1>p, <1>0, Typed, SMTT(30) DEF IInv, LabelsInv, Releasing, InUnlock, InWake
  <2>3. QED
    BY <1>1, <2>1, <2>2 DEF LabelsInv
<1>4. OrderInv'
  BY <1>1, <1>f DEF IInv, OrderInv
<1>5. IdsInv'
  BY <1>0, <1>1, <1>f, <1>w, Typed DEF IInv, IdsInv
<1>6. ExclusionInv'
  BY <1>0, <1>1, <1>w, Typed DEF IInv, ExclusionInv
<1>7. GrantInv'
  <2>1. GrantInv
    BY DEF IInv
  <2>2. /\ \A w \in Writers : (Active(w) \/ Popped(w))' => AllBeforeLeft(w)'
        /\ \A w \in Writers : messages'[w] > 0 => AllBeforeLeft(w)'
    BY <2>1, <1>0, <1>f, <1>w, <1>g, Typed DEF GrantInv
  <2>3. \A r \in Readers :
          pc'[r] \in {"admitted", "done"} \/ seen'[r] # -1 \/ messages'[r] > 0 => BehindPopped(r)'
    BY <2>1, <1>0, <1>b, <1>f, <1>g, <1>p, Typed DEF GrantInv
  <2>4. \A r \in Readers : pc'[r] = "check" /\ firstId'[r] > Wf(r) => BehindPopped(r)'
    BY <2>1, <1>0, <1>f, <1>g, <1>p, Typed DEF GrantInv
  <2>5. \A w \in Writers : pc'[w] = "check" => readPos'[w] <= mReadPos
    BY <2>1, <1>f, <1>w DEF GrantInv
  <2>6. QED
    BY <1>1, <1>f, <2>2, <2>3, <2>4, <2>5 DEF GrantInv
<1>8. PositionInv'
  BY <1>0, <1>1, <1>f, <1>2, <1>w, Typed DEF IInv, PositionInv
<1>9. ReleaseInv'
  BY <1>0, <1>f, <1>w, <1>2, ReleaseKept DEF IInv
<1>10. ReaderAccounting'
  <2>1. Finished' = Finished
    BY <1>0, <1>1, <1>f, <1>p, Typed DEF Finished
  <2>2. QED
    BY <1>1, <1>f, <1>w, <2>1 DEF IInv, ReaderAccounting
<1>11. ValueInv'
  <2>1. ValueInv /\ GrantInv
    BY DEF IInv
  <2>2. ASSUME NEW v \in written PROVE v < i
    <3>1. v \in Writers /\ AllBeforeLeft(v)
      BY <2>1 DEF ValueInv, GrantInv, Active, Popped, InUnlock, InWake
    <3>2. ~Left(i)
      BY <1>0, <1>p DEF Left
    <3>3. ~(i < v)
      BY <3>1, <3>2, <1>0, Typed DEF AllBeforeLeft
    <3>4. QED
      BY <3>1, <3>3, <1>0, Typed
  <2>3. value < i
    BY <2>1, <2>2, <1>0, Typed DEF ValueInv
  <2>a. seen'[i] < i /\ seen'[i] \in written \cup {0} /\ \A w \in written : w < i => w <= seen'[i]
    BY <2>1, <2>3, <1>0, <1>p DEF ValueInv
  <2>b. \A r \in Readers : r # i => seen'[r] = seen[r]
    BY <1>0, <1>p, Typed
  <2>4. ObservedValue'
    BY <2>1, <2>a, <2>b, <1>1, <1>f DEF ValueInv, ObservedValue
  <2>5. QED
    BY <2>1, <2>4, <1>1, <1>f, <1>w DEF ValueInv
<1>12. QED
  BY <1>3, <1>4, <1>5, <1>6, <1>7, <1>8, <1>9, <1>10, <1>11 DEF IInv

(* The ids tell the popped writers from the others until one pops.         *)
LEMMA IdsKept ==
  ASSUME IdsInv, UNCHANGED <<mWaiters, ids, idPos, workflowId>>,
         \A w \in Writers : Popped(w)' <=> Popped(w)
  PROVE  IdsInv'
<1>1. /\ Writers' = Writers /\ \A j : Wf(j)' = Wf(j)
  BY SameQueue
<1>2. \A w \in Writers : \E n \in 1..Len(ids) : ids[n] = Wf(w) /\ (n <= idPos <=> Popped(w)')
  BY DEF IdsInv
<1>3. QED
  BY <1>1, <1>2 DEF IdsInv

(* The parts of the invariant that no step of a writer that has the lock   *)
(* or releases it disturbs, as long as it wakes only tasks whose turn it   *)
(* is.                                                                     *)
LEMMA ReleaseStep ==
  ASSUME IInv, TypeOK', NEW i \in Writers, Active(i),
         NEW label \in Releasing \cup {"done"}, Goto(i, label),
         Popped(i) => Popped(i)',
         UNCHANGED <<mWaiters, workflowId, readPos, firstId, seen>>,
         mReadPos <= mReadPos',
         \A j \in Ticket \ Pushed : messages'[j] = messages[j] /\ count'[j] = count[j],
         \A j \in Ticket \ {i} : phase'[j] = phase[j],
         phase'[i] = phase[i] \/ phase'[i] = "none",
         \A j \in Pushed : messages'[j] > 0 =>
           messages[j] > 0 \/ (IF j \in Writers THEN AllBeforeLeft(j) ELSE BehindPopped(j))
  PROVE  /\ LabelsInv' /\ OrderInv' /\ ExclusionInv' /\ GrantInv'
         /\ \A j \in Ticket : pc'[j] = IF j = i THEN label ELSE pc[j]
         /\ \A r \in Readers : pc'[r] = pc[r]
         /\ \A w \in Writers : w # i => ~Active(w) /\ pc'[w] = pc[w] /\ (Popped(w)' <=> Popped(w))
         /\ \A j \in Pushed : Left(j) => Left(j)'
         /\ (Popped(i)' <=> Popped(i)) /\ UNCHANGED <<ids, idPos>> => IdsInv'
         /\ UNCHANGED <<written, value>> => ValueInv'
<1>0. TypeOK /\ i \in Pushed /\ i \in Ticket /\ i \notin Readers
  BY Typed DEF IInv
<1>1. /\ Pushed' = Pushed /\ Writers' = Writers /\ Readers' = Readers
      /\ \A j : Wf(j)' = Wf(j)
  BY SameQueue
<1>p. \A j \in Ticket : pc'[j] = IF j = i THEN label ELSE pc[j]
  BY <1>0, GotoAt DEF TypeOK
<1>r. \A r \in Readers : pc'[r] = pc[r]
  BY <1>0, <1>p, Typed
<1>w. \A w \in Writers : w # i => ~Active(w) /\ pc'[w] = pc[w] /\ (Popped(w)' <=> Popped(w))
  <2>1. ASSUME NEW w \in Writers, w # i PROVE pc'[w] = pc[w] /\ ~Active(w)
    BY <2>1, <1>0, <1>p, Typed DEF IInv, ExclusionInv
  <2>2. QED
    BY <2>1 DEF Popped, InUnlock, InWake
<1>2. \A j \in Pushed : (Popped(j) => Popped(j)') /\ (Left(j) => Left(j)')
  <2>1. \A j \in Pushed : Popped(j) => Popped(j)'
    BY <1>0, <1>p, Typed DEF Popped, InUnlock, InWake
  <2>2. QED
    BY <1>0, <1>1, <1>r, <2>1, Typed DEF Left
<1>g. /\ \A j \in Pushed : BehindPopped(j) => BehindPopped(j)'
      /\ \A j \in Pushed : AllBeforeLeft(j) => AllBeforeLeft(j)'
  BY <1>0, <1>2, StaysGranted
<1>3. LabelsInv'
  <2>1. \A j \in Ticket \ Pushed :
          /\ pc'[j] = "absent" /\ seen'[j] = -1 /\ messages'[j] = 0 /\ phase'[j] = "none"
          /\ count'[j] = 0
    BY <1>p, <1>0, Typed DEF IInv, LabelsInv
  <2>2. /\ \A j \in Pushed : pc'[j] # "absent"
        /\ \A w \in Writers :
             pc'[w] \notin {"admitted", "unschedulable"} /\ seen'[w] = -1 /\ phase'[w] = "none"
        /\ \A r \in Readers : pc'[r] # "holding" /\ pc'[r] \notin Releasing
    BY <1>p, <1>r, <1>0, Typed, SMTT(30) DEF IInv, LabelsInv, Releasing, InUnlock, InWake
  <2>3. QED
    BY <1>1, <2>1, <2>2 DEF LabelsInv
<1>4. OrderInv'
  BY <1>1 DEF IInv, OrderInv
<1>6. ExclusionInv'
  <2>1. \A w \in Writers : w # i => ~Active(w)'
    BY <1>w DEF Active
  <2>2. QED
    BY <1>1, <2>1 DEF ExclusionInv
<1>7. GrantInv'
  <2>1. GrantInv
    BY DEF IInv
  <2>2. \A w \in Writers : (Active(w) \/ Popped(w))' => AllBeforeLeft(w)'
    <3>1. AllBeforeLeft(i)'
      BY <2>1, <1>0, <1>g DEF GrantInv
    <3>2. \A w \in Writers : w # i => ~Active(w)'
      BY <1>w DEF Active
    <3>3. QED
      BY <2>1, <3>1, <3>2, <1>0, <1>g, <1>w, Typed DEF GrantInv
  <2>3. \A w \in Writers : messages'[w] > 0 => AllBeforeLeft(w)'
    BY <2>1, <1>0, <1>g, Typed DEF GrantInv
  <2>4. \A r \in Readers :
          pc'[r] \in {"admitted", "done"} \/ seen'[r] # -1 \/ messages'[r] > 0 => BehindPopped(r)'
    BY <2>1, <1>0, <1>g, <1>r, Typed DEF GrantInv
  <2>5. \A r \in Readers : pc'[r] = "check" /\ firstId'[r] > Wf(r) => BehindPopped(r)'
    BY <2>1, <1>0, <1>g, <1>r, Typed DEF GrantInv
  <2>6. \A w \in Writers : pc'[w] = "check" => readPos'[w] <= mReadPos'
    <3>1. \A w \in Writers : pc'[w] = "check" => readPos[w] <= mReadPos
      BY <2>1, <1>0, <1>p, <1>w DEF GrantInv, Releasing, InUnlock, InWake
    <3>2. mReadPos \in Nat /\ mReadPos' \in Nat /\ \A w \in Writers : readPos[w] \in Nat
      BY <1>0, Typed DEF TypeOK
    <3>3. QED
      BY <3>1, <3>2
  <2>7. QED
    BY <1>1, <2>2, <2>3, <2>4, <2>5, <2>6 DEF GrantInv
<1>8. (Popped(i)' <=> Popped(i)) /\ UNCHANGED <<ids, idPos>> => IdsInv'
  BY <1>w, IdsKept DEF IInv
<1>9. UNCHANGED <<written, value>> => ValueInv'
  <2>1. ValueInv
    BY DEF IInv
  <2>2. \A w \in written : pc'[w] \in Releasing \/ pc'[w] = "done"
    BY <2>1, <1>0, <1>p, Typed DEF ValueInv
  <2>3. QED
    BY <2>1, <2>2, <1>1 DEF ValueInv, ObservedValue
<1>10. QED
  BY <1>p, <1>r, <1>w, <1>2, <1>3, <1>4, <1>6, <1>7, <1>8, <1>9

(* A writer runs: every stored value comes from a task before it, and no   *)
(* task behind it has seen one.                                            *)
LEMMA ProcessStep ==
  ASSUME IInv, TypeOK', NEW i \in Pushed, Process(i)
  PROVE  IInv'
<1>0. /\ TypeOK /\ i \in Writers /\ i \in Ticket /\ pc[i] = "holding" /\ Goto(i, "unlocking")
      /\ UNCHANGED <<mWaiters, mReadPos, mReaders, ids, idPos, workflowId, readPos, firstId,
                     count, cur, messages, phase, seen>>
  BY Typed DEF IInv, Process, lockVars, passVars, localVars, wakeVars
<1>1. /\ Pushed' = Pushed /\ Writers' = Writers /\ Readers' = Readers
      /\ \A j : Wf(j)' = Wf(j)
  BY <1>0, SameQueue
<1>a. Active(i) /\ ~Popped(i) /\ mReadPos \in Nat
  BY <1>0, Typed DEF Active, Popped, InUnlock, InWake
<1>s. /\ LabelsInv' /\ OrderInv' /\ ExclusionInv' /\ GrantInv'
      /\ \A j \in Ticket : pc'[j] = IF j = i THEN "unlocking" ELSE pc[j]
      /\ \A r \in Readers : pc'[r] = pc[r]
      /\ \A w \in Writers : w # i => ~Active(w) /\ pc'[w] = pc[w] /\ (Popped(w)' <=> Popped(w))
      /\ \A j \in Pushed : Left(j) => Left(j)'
      /\ (Popped(i)' <=> Popped(i)) /\ UNCHANGED <<ids, idPos>> => IdsInv'
  <2>1. "unlocking" \in Releasing \cup {"done"} /\ mReadPos <= mReadPos'
    BY <1>0, <1>a DEF Releasing, InUnlock, InWake
  <2>2. QED
    BY <1>0, <1>a, <2>1, ReleaseStep
<1>2. IdsInv'
  BY <1>0, <1>a, <1>s DEF Popped, InUnlock, InWake
<1>3. PositionInv'
  <2>0. PositionInv
    BY DEF IInv
  <2>1. \A j \in 1..mReadPos : Left(j)'
    BY <2>0, <1>0, <1>a, <1>s, Typed DEF PositionInv
  <2>2. ~Popped(i)'
    BY <1>0, <1>s DEF Popped, InUnlock, InWake
  <2>3. \A w \in Writers : Popped(w)' /\ w > mReadPos => pc'[w] = "skip"
    BY <2>0, <2>2, <1>s DEF PositionInv
  <2>4. QED
    BY <2>0, <2>1, <2>3, <1>0, <1>1 DEF PositionInv
<1>4. mReadPos < i /\ count[i] = 0
  <2>1. i \notin 1..mReadPos
    BY <1>0, <1>a DEF IInv, PositionInv, Left
  <2>2. QED
    BY <2>1, <1>0, <1>a, Typed DEF IInv, ReleaseInv, Releasing, InUnlock, InWake, ReleaseAt
<1>5. ReleaseInv'
  <2>1. \A w \in Writers : w # i => count[w] = 0 /\ pc'[w] \notin Releasing
    BY <1>s DEF IInv, ReleaseInv, Active, ReleaseAt
  <2>2. QED
    BY <2>1, <1>0, <1>1, <1>4, <1>a, <1>s DEF ReleaseInv, Releasing, InUnlock, InWake, ReleaseAt
<1>6. ReaderAccounting'
  <2>1. Finished' = Finished
    BY <1>0, <1>1, <1>s DEF Finished
  <2>2. \A w \in Writers : pc[w] \notin Releasing
    BY <1>0, <1>s DEF Active, Releasing, InUnlock, InWake
  <2>3. mReaders = - Cardinality(Finished) /\ Cardinality(Finished) \in Nat
    BY <2>2, <1>0, FinishedFinite DEF IInv, ReaderAccounting
  <2>4. \A w \in Writers : pc'[w] \in Releasing => w = i
    BY <2>2, <1>s
  <2>5. mReaders' = count'[i] - Cardinality(Finished)
    BY <2>3, <1>0, <1>4
  <2>6. pc'[i] \in Releasing
    BY <1>0, <1>s DEF Releasing, InUnlock, InWake
  <2>7. QED
    BY <1>0, <1>1, <2>1, <2>4, <2>5, <2>6 DEF ReaderAccounting
<1>7. ValueInv'
  <2>0. ValueInv /\ GrantInv
    BY DEF IInv
  <2>1. CASE UNCHANGED <<written, value>>
    <3>1. \A w \in written : pc'[w] \in Releasing \/ pc'[w] = "done"
      BY <2>0, <1>0, <1>s, Typed DEF ValueInv, Releasing, InUnlock, InWake
    <3>2. QED
      BY <2>0, <2>1, <3>1, <1>0, <1>1 DEF ValueInv, ObservedValue
  <2>2. CASE written' = written \cup {i} /\ value' = i
    <3>1. \A w \in written' : w \in Writers /\ (pc'[w] \in Releasing \/ pc'[w] = "done")
      BY <2>0, <2>2, <1>0, <1>s, Typed DEF ValueInv, Releasing, InUnlock, InWake
    <3>2. ASSUME NEW w \in written PROVE w <= i
      <4>1. w \in Writers /\ AllBeforeLeft(w)
        BY <2>0 DEF ValueInv, GrantInv, Active, Popped, InUnlock, InWake
      <4>2. ~Left(i)
        BY <1>0, <1>a DEF Left
      <4>3. ~(i < w)
        BY <4>1, <4>2, <1>0, Typed DEF AllBeforeLeft
      <4>4. QED
        BY <4>1, <4>3, <1>0, Typed
    <3>3. ASSUME NEW r \in Readers, seen[r] # -1 PROVE ~(i < r)
      BY <3>3, <2>0, <1>0, <1>a DEF GrantInv, BehindPopped
    <3>4. ObservedValue'
      BY <2>0, <2>2, <3>3, <1>0, <1>1 DEF ValueInv, ObservedValue
    <3>5. \A w \in written' : w <= value'
      BY <2>2, <3>2, <1>0, Typed
    <3>6. QED
      BY <2>2, <3>1, <3>4, <3>5, <1>1 DEF ValueInv
  <2>3. QED
    BY <2>1, <2>2 DEF Process
<1>8. QED
  BY <1>s, <1>2, <1>3, <1>5, <1>6, <1>7 DEF IInv

(* A step of a writer on one side of the pop of its id that moves nothing  *)
(* but its own place and what it has added to mReaders.                    *)
LEMMA InnerStep ==
  ASSUME IInv, TypeOK', NEW i \in Writers, NEW label, pc[i] \in Releasing, Goto(i, label),
         \/ pc[i] \in {"unlocking", "count", "pop"} /\ label \in {"unlocking", "count", "pop"}
         \/ pc[i] \in InWake /\ label \in InWake,
         UNCHANGED <<mWaiters, mReadPos, ids, idPos, workflowId, readPos, firstId,
                     phase, seen, written, value>>,
         mReaders' - count'[i] = mReaders - count[i],
         \A j \in Ticket \ {i} : count'[j] = count[j],
         \A j \in Ticket \ Pushed : messages'[j] = messages[j],
         \A j \in Pushed : messages'[j] > 0 =>
           messages[j] > 0 \/ (IF j \in Writers THEN AllBeforeLeft(j) ELSE BehindPopped(j)),
         ReleaseAt(i)'
  PROVE  IInv'
<1>0. TypeOK /\ i \in Pushed /\ i \in Ticket /\ Active(i)
  BY Typed DEF IInv, Active
<1>1. /\ Pushed' = Pushed /\ Writers' = Writers /\ Readers' = Readers
      /\ \A j : Wf(j)' = Wf(j)
  BY SameQueue
<1>a. /\ mReadPos \in Nat /\ mReaders \in Int /\ mReaders' \in Int
      /\ count[i] \in Nat /\ count'[i] \in Nat
  BY <1>0 DEF TypeOK
<1>l. label \in Releasing /\ pc'[i] = label
  BY <1>0 DEF Releasing, InUnlock, Goto, TypeOK
<1>p. Popped(i)' <=> Popped(i)
  BY <1>l DEF Popped, InWake
<1>s. /\ LabelsInv' /\ OrderInv' /\ ExclusionInv' /\ GrantInv'
      /\ \A j \in Ticket : pc'[j] = IF j = i THEN label ELSE pc[j]
      /\ \A r \in Readers : pc'[r] = pc[r]
      /\ \A w \in Writers : w # i => ~Active(w) /\ pc'[w] = pc[w] /\ (Popped(w)' <=> Popped(w))
      /\ \A j \in Pushed : Left(j) => Left(j)'
      /\ (Popped(i)' <=> Popped(i)) /\ UNCHANGED <<ids, idPos>> => IdsInv'
      /\ UNCHANGED <<written, value>> => ValueInv'
  <2>1. label \in Releasing \cup {"done"} /\ mReadPos <= mReadPos'
    BY <1>a, <1>l
  <2>2. \A j \in Ticket \ Pushed : messages'[j] = messages[j] /\ count'[j] = count[j]
    BY <1>0
  <2>3. QED
    BY <1>0, <1>p, <2>1, <2>2, ReleaseStep
<1>2. IdsInv' /\ ValueInv'
  BY <1>p, <1>s
<1>3. PositionInv'
  <2>0. PositionInv
    BY DEF IInv
  <2>1. \A j \in 1..mReadPos : Left(j)'
    <3>1. \A j \in 1..mReadPos : Left(j) /\ j \in Pushed
      BY <2>0, <1>0, <1>a, Typed DEF PositionInv
    <3>2. QED
      BY <3>1, <1>s
  <2>2. Popped(i) => ~(i > mReadPos)
    <3>1. Popped(i) /\ i > mReadPos => pc[i] = "skip"
      BY <2>0 DEF PositionInv
    <3>2. Popped(i) => pc[i] # "skip"
      BY DEF Popped, InWake
    <3>3. QED
      BY <3>1, <3>2
  <2>3. \A w \in Writers : Popped(w)' /\ w > mReadPos => pc'[w] = "skip"
    BY <2>0, <2>2, <1>p, <1>s DEF PositionInv
  <2>4. QED
    BY <2>0, <2>1, <2>3, <1>1 DEF PositionInv
<1>4. \A w \in Writers : w # i => count'[w] = 0 /\ pc'[w] \notin Releasing
  <2>1. \A w \in Writers : w # i => w \in Ticket /\ count[w] = 0 /\ pc'[w] \notin Releasing
    BY <1>0, <1>s, Typed DEF IInv, ReleaseInv, ReleaseAt, Active
  <2>2. QED
    BY <2>1
<1>5. ReleaseInv'
  <2>1. \A w \in Writers : w # i => ReleaseAt(w)'
    BY <1>4 DEF ReleaseAt, Releasing, InUnlock, InWake
  <2>2. QED
    BY <1>1, <2>1 DEF ReleaseInv
<1>6. ReaderAccounting'
  <2>1. Finished' = Finished
    BY <1>1, <1>s DEF Finished
  <2>2. mReaders = count[i] - Cardinality(Finished) /\ Cardinality(Finished) \in Nat
    BY <1>0, FinishedFinite DEF IInv, ReaderAccounting
  <2>3. mReaders' = count'[i] - Cardinality(Finished)
    BY <2>2, <1>a
  <2>4. QED
    BY <2>1, <2>3, <1>1, <1>4, <1>l DEF ReaderAccounting
<1>7. QED
  BY <1>0, <1>s, <1>2, <1>3, <1>5, <1>6 DEF IInv

(* Unlock walks from the read position to the writer's own entry.          *)
LEMMA UnlockWalkStep ==
  ASSUME IInv, TypeOK', NEW i \in Pushed, UnlockWalk(i)
  PROVE  IInv'
<1>0. /\ TypeOK /\ i \in Writers /\ i \in Ticket /\ i \in Nat /\ pc[i] = "unlocking"
      /\ UNCHANGED <<mWaiters, mReadPos, mReaders, ids, idPos, workflowId, readPos, firstId,
                     count, cur, messages, phase, seen, written, value>>
  BY Typed DEF IInv, UnlockWalk, lockVars, passVars, localVars, wakeVars, dataVars
<1>a. mReadPos \in Nat /\ count[i] \in Nat /\ mReadPos + count[i] < i
  BY <1>0 DEF TypeOK, IInv, ReleaseInv, ReleaseAt
<1>1. PICK label \in {"count", "pop"} :
        /\ Goto(i, label)
        /\ label = "count" <=> mReadPos + count[i] + 1 # i
  BY DEF UnlockWalk, At
<1>2. pc'[i] = label
  BY <1>0, <1>1 DEF Goto, TypeOK
<1>3. ReleaseAt(i)'
  <2>1. label = "count" => mReadPos + count[i] + 1 < i
    BY <1>0, <1>1, <1>a
  <2>2. QED
    BY <2>1, <1>0, <1>1, <1>2 DEF ReleaseAt, Releasing, InUnlock, InWake
<1>4. QED
  BY <1>0, <1>1, <1>3, InnerStep DEF Releasing, InUnlock

(* Every entry on the way is counted.                                      *)
LEMMA CountFinishedStep ==
  ASSUME IInv, TypeOK', NEW i \in Pushed, CountFinished(i)
  PROVE  IInv'
<1>0. /\ TypeOK /\ i \in Writers /\ i \in Ticket /\ i \in Nat /\ pc[i] = "count"
      /\ Goto(i, "unlocking")
      /\ count' = [count EXCEPT ![i] = @ + 1] /\ mReaders' = mReaders + 1
      /\ UNCHANGED <<mWaiters, mReadPos, ids, idPos, workflowId, readPos, firstId,
                     cur, messages, phase, seen, written, value>>
  BY Typed DEF IInv, CountFinished, passVars, wakeVars, dataVars
<1>a. /\ mReadPos \in Nat /\ mReaders \in Int /\ count \in [Ticket -> Nat] /\ count[i] \in Nat
      /\ mReadPos + count[i] + 1 < i
  BY <1>0 DEF TypeOK, IInv, ReleaseInv, ReleaseAt
<1>1. /\ count'[i] = count[i] + 1 /\ pc'[i] = "unlocking"
      /\ \A j \in Ticket \ {i} : count'[j] = count[j]
  BY <1>0, <1>a DEF Goto, TypeOK
<1>2. mReaders' - count'[i] = mReaders - count[i] /\ mReadPos + count'[i] < i
  BY <1>0, <1>1, <1>a
<1>3. ReleaseAt(i)'
  BY <1>0, <1>1, <1>2 DEF ReleaseAt, Releasing, InUnlock, InWake
<1>4. QED
  BY <1>0, <1>1, <1>2, <1>3, InnerStep DEF Releasing, InUnlock

(* The id popped is that of the popping writer: the writers before it have *)
(* popped theirs.                                                          *)
LEMMA PopIdStep ==
  ASSUME IInv, TypeOK', NEW i \in Pushed, PopId(i)
  PROVE  IInv'
<1>0. /\ TypeOK /\ i \in Writers /\ i \in Ticket /\ pc[i] = "pop" /\ Goto(i, "skip")
      /\ idPos' = idPos + 1
      /\ UNCHANGED <<mWaiters, mReadPos, mReaders, ids, workflowId, readPos, firstId,
                     count, cur, messages, phase, seen, written, value>>
  BY Typed DEF IInv, PopId, passVars, localVars, wakeVars, dataVars
<1>1. /\ Pushed' = Pushed /\ Writers' = Writers /\ Readers' = Readers
      /\ \A j : Wf(j)' = Wf(j)
  BY <1>0, SameQueue
<1>a. /\ Active(i) /\ ~Popped(i) /\ mReadPos \in Nat /\ idPos \in Nat
  BY <1>0, Typed DEF Active, Popped, Releasing, InUnlock, InWake
<1>s. /\ LabelsInv' /\ OrderInv' /\ ExclusionInv' /\ GrantInv'
      /\ \A j \in Ticket : pc'[j] = IF j = i THEN "skip" ELSE pc[j]
      /\ \A r \in Readers : pc'[r] = pc[r]
      /\ \A w \in Writers : w # i => ~Active(w) /\ pc'[w] = pc[w] /\ (Popped(w)' <=> Popped(w))
      /\ \A j \in Pushed : Left(j) => Left(j)'
      /\ UNCHANGED <<written, value>> => ValueInv'
  <2>1. "skip" \in Releasing \cup {"done"} /\ mReadPos <= mReadPos'
    BY <1>0, <1>a DEF Releasing, InUnlock, InWake
  <2>2. QED
    BY <1>0, <1>a, <2>1, ReleaseStep
<1>b. Popped(i)' /\ pc'[i] = "skip"
  BY <1>0, <1>s DEF Popped, InUnlock, InWake
<1>2. IdsInv'
  <2>0. IdsInv /\ OrderInv /\ AllBeforeLeft(i) /\ Len(ids) \in Nat
    BY <1>0, <1>a DEF IInv, GrantInv, TypeOK
  <2>t. ids \in Seq(Workflow) /\ Workflow \subseteq Nat
    BY <1>0, ConstantsAssumption DEF TypeOK, Workflow
  <2>n. \A m \in 1..Len(ids) : ids[m] \in Nat
    <3>1. \A m \in 1..Len(ids) : ids[m] \in Workflow
      BY <2>t
    <3>2. QED
      BY <3>1, <2>t
  <2>1. PICK n \in 1..Len(ids) : ids[n] = Wf(i) /\ n > idPos
    BY <2>0, <1>0, <1>a DEF IdsInv
  <2>2. ASSUME NEW m \in 1..Len(ids), idPos < m, m < n PROVE FALSE
    <3>1. PICK v \in Writers : ids[m] = Wf(v)
      BY <2>0 DEF IdsInv
    <3>2. Wf(v) < Wf(i)
      BY <2>0, <2>1, <2>2, <3>1 DEF IdsInv
    <3>3. ~(i <= v)
      BY <3>2, <2>0, <1>0, Typed DEF OrderInv
    <3>4. Popped(v)
      BY <3>3, <2>0, <1>0, Typed DEF AllBeforeLeft, Left
    <3>5. PICK k \in 1..Len(ids) : ids[k] = Wf(v) /\ k <= idPos
      BY <3>4, <2>0 DEF IdsInv
    <3>k. k < m
      BY <3>5, <2>0, <2>2, <1>a
    <3>6. ids[k] < ids[m]
      BY <3>k, <2>0 DEF IdsInv
    <3>7. QED
      BY <3>1, <3>5, <3>6, <2>n
  <2>3. n = idPos + 1
    <3>1. ~(idPos + 1 < n)
      BY <2>2, <2>0, <1>a
    <3>2. QED
      BY <3>1, <2>1, <1>a
  <2>4. idPos' <= Len(ids)
    BY <2>1, <2>3, <2>0, <1>0
  <2>5. ASSUME NEW w \in Writers
        PROVE  \E k \in 1..Len(ids) : ids[k] = Wf(w) /\ (k <= idPos' <=> Popped(w)')
    <3>1. CASE w = i
      BY <3>1, <2>1, <2>3, <1>0, <1>b
    <3>2. CASE w # i
      <4>1. PICK k \in 1..Len(ids) : ids[k] = Wf(w) /\ (k <= idPos <=> Popped(w))
        BY <2>0 DEF IdsInv
      <4>2. Wf(w) # Wf(i)
        BY <3>2, <2>0, <1>0, Typed, SMTT(30) DEF OrderInv
      <4>3. k # n
        BY <4>1, <4>2, <2>1
      <4>4. k <= idPos' <=> k <= idPos
        BY <4>3, <2>0, <2>3, <1>0, <1>a
      <4>5. QED
        BY <4>1, <4>4, <3>2, <1>s
    <3>3. QED
      BY <3>1, <3>2
  <2>6. QED
    BY <2>0, <2>4, <2>5, <1>0, <1>1 DEF IdsInv
<1>3. PositionInv'
  <2>0. PositionInv
    BY DEF IInv
  <2>1. \A j \in 1..mReadPos : Left(j)'
    BY <2>0, <1>0, <1>a, <1>s, Typed DEF PositionInv
  <2>2. \A w \in Writers : Popped(w)' /\ w > mReadPos => pc'[w] = "skip"
    BY <2>0, <1>b, <1>s DEF PositionInv
  <2>3. QED
    BY <2>0, <2>1, <2>2, <1>0, <1>1 DEF PositionInv
<1>4. \A w \in Writers : w # i => count[w] = 0 /\ pc'[w] \notin Releasing
  BY <1>s DEF IInv, ReleaseInv, Active, ReleaseAt
<1>5. ReleaseInv'
  <2>1. mReadPos + count[i] + 1 = i
    BY <1>0 DEF IInv, ReleaseInv, ReleaseAt
  <2>2. QED
    BY <2>1, <1>0, <1>1, <1>4, <1>b DEF ReleaseInv, Releasing, InUnlock, InWake, ReleaseAt
<1>6. ReaderAccounting'
  <2>1. Finished' = Finished
    BY <1>0, <1>1, <1>s DEF Finished
  <2>2. mReaders = count[i] - Cardinality(Finished)
    BY <1>0 DEF IInv, ReaderAccounting, Releasing, InUnlock, InWake
  <2>3. pc'[i] \in Releasing
    BY <1>b DEF Releasing, InUnlock, InWake
  <2>4. QED
    BY <2>1, <2>2, <2>3, <1>0, <1>1, <1>4 DEF ReaderAccounting
<1>7. QED
  BY <1>0, <1>s, <1>2, <1>3, <1>5, <1>6 DEF IInv

(* Only readers in front of a writer that has not popped can have finished *)
(* past the read position: when as many have finished as there are entries *)
(* between, everything in front of the writer has left.                    *)
LEMMA FinishedInFront ==
  ASSUME IInv, NEW w \in Writers, ~Popped(w)
  PROVE  /\ mReadPos < w
         /\ Cardinality(Finished) <= w - 1 - mReadPos
         /\ Cardinality(Finished) = w - 1 - mReadPos =>
              AllBeforeLeft(w) /\ \A r \in Finished : r < w
<1>0. TypeOK /\ w \in Nat /\ w \in Pushed /\ mReadPos \in Nat
  BY Typed DEF IInv
<1>1. mReadPos < w
  <2>1. w \notin 1..mReadPos
    BY DEF IInv, PositionInv, Left
  <2>2. QED
    BY <2>1, <1>0, Typed
<1>2. \A r \in Finished : r \in Readers /\ mReadPos < r /\ r < w /\ pc[r] = "done"
  <2>1. ASSUME NEW r \in Finished PROVE r \in Readers /\ mReadPos < r /\ r < w /\ pc[r] = "done"
    <3>1. r \in Readers /\ mReadPos < r /\ pc[r] = "done"
      BY DEF Finished
    <3>2. BehindPopped(r)
      BY <3>1 DEF IInv, GrantInv
    <3>3. ~(w < r) /\ r # w /\ r \in Nat
      BY <3>1, <3>2, <1>0, Typed DEF BehindPopped
    <3>4. QED
      BY <3>1, <3>3, <1>0
  <2>2. QED
    BY <2>1
<1>3. /\ IsFiniteSet((mReadPos + 1)..(w - 1))
      /\ Cardinality((mReadPos + 1)..(w - 1)) = w - 1 - mReadPos
  <2>1. mReadPos + 1 \in Int /\ w - 1 \in Int
    BY <1>0
  <2>2. /\ IsFiniteSet((mReadPos + 1)..(w - 1))
        /\ Cardinality((mReadPos + 1)..(w - 1)) =
             IF mReadPos + 1 > w - 1 THEN 0 ELSE (w - 1) - (mReadPos + 1) + 1
    BY <2>1, FS_Interval
  <2>3. QED
    BY <2>2, <1>0, <1>1
<1>4. Finished \subseteq (mReadPos + 1)..(w - 1)
  <2>1. \A r \in Readers : r \in Nat
    BY <1>0, Typed
  <2>2. QED
    BY <2>1, <1>0, <1>2
<1>5. /\ Cardinality(Finished) <= Cardinality((mReadPos + 1)..(w - 1))
      /\ Cardinality((mReadPos + 1)..(w - 1)) = Cardinality(Finished)
           => (mReadPos + 1)..(w - 1) = Finished
  BY <1>3, <1>4, FS_Subset
<1>6. ASSUME Cardinality(Finished) = w - 1 - mReadPos PROVE AllBeforeLeft(w)
  <2>1. \A j \in (mReadPos + 1)..(w - 1) : j \in Readers /\ pc[j] = "done"
    BY <1>2, <1>3, <1>5, <1>6
  <2>2. \A j \in (mReadPos + 1)..(w - 1) : Left(j)
    BY <2>1, <1>0, Typed DEF Left
  <2>3. \A j \in 1..mReadPos : Left(j)
    BY DEF IInv, PositionInv
  <2>4. \A j \in 1..(w - 1) : j \in 1..mReadPos \/ j \in (mReadPos + 1)..(w - 1)
    BY <1>0
  <2>5. QED
    BY <2>2, <2>3, <2>4 DEF AllBeforeLeft
<1>7. QED
  BY <1>1, <1>2, <1>3, <1>5, <1>6

(* Readers that finished in the n entries behind the read position are not *)
(* counted any more once it has passed them.                               *)
LEMMA FinishedPast ==
  ASSUME TypeOK, NEW n \in Nat, NEW past \in Nat,
         past = mReadPos + n \/ (past = mReadPos + n + 1 /\ past \notin Readers),
         \A j \in (mReadPos + 1)..(mReadPos + n) : j \in Readers /\ pc[j] = "done",
         NEW later, later = {r \in Readers : r > past /\ pc[r] = "done"}
  PROVE  /\ Cardinality(later) \in Nat /\ Cardinality(Finished) \in Nat
         /\ Cardinality(Finished) = Cardinality(later) + n
<1> DEFINE I == (mReadPos + 1)..(mReadPos + n)
<1>0. mReadPos \in Nat /\ \A r \in Readers : r \in Nat
  BY Typed
<1>1. Finished = later \cup I
  <2>1. \A r \in Readers : r > mReadPos <=> r > past \/ r \in I
    BY <1>0
  <2>2. QED
    BY <2>1 DEF Finished
<1>2. later \cap I = {}
  BY <1>0
<1>3. IsFiniteSet(I) /\ Cardinality(I) = n
  <2>1. mReadPos + 1 \in Int /\ mReadPos + n \in Int
    BY <1>0
  <2>2. /\ IsFiniteSet(I)
        /\ Cardinality(I) =
             IF mReadPos + 1 > mReadPos + n THEN 0 ELSE (mReadPos + n) - (mReadPos + 1) + 1
    BY <2>1, FS_Interval
  <2>3. QED
    BY <2>2, <1>0
<1>4. IsFiniteSet(Finished) /\ Cardinality(Finished) \in Nat
  BY FinishedFinite
<1>5. IsFiniteSet(later) /\ Cardinality(later) \in Nat
  <2>1. later \subseteq Finished
    BY <1>1
  <2>2. QED
    BY <2>1, <1>4, FS_Subset, FS_CardinalityType
<1>6. Cardinality(later \cup I) = Cardinality(later) + Cardinality(I) - Cardinality(later \cap I)
  BY <1>3, <1>5, FS_Union
<1>7. Cardinality(later \cap I) = 0
  BY <1>2, FS_EmptySet
<1>8. QED
  <2> HIDE DEF I
  <2>1. QED
    BY <1>1, <1>3, <1>4, <1>5, <1>6, <1>7

(* The read position moves behind the writer's own entry: the readers it   *)
(* passes on the way had finished, and are no longer counted.              *)
LEMMA SkipOwnStep ==
  ASSUME IInv, TypeOK', NEW i \in Pushed, SkipOwn(i)
  PROVE  IInv'
<1>0. /\ TypeOK /\ i \in Writers /\ i \in Ticket /\ pc[i] = "skip" /\ Goto(i, "wake")
      /\ mReadPos' = mReadPos + count[i] + 1
      /\ count' = [count EXCEPT ![i] = 0]
      /\ UNCHANGED <<mWaiters, mReaders, ids, idPos, workflowId, readPos, firstId,
                     cur, messages, phase, seen, written, value>>
  BY Typed DEF IInv, SkipOwn, passVars, wakeVars, dataVars
<1>1. /\ Pushed' = Pushed /\ Writers' = Writers /\ Readers' = Readers
      /\ \A j : Wf(j)' = Wf(j)
  BY <1>0, SameQueue
<1>a. /\ Active(i) /\ Popped(i) /\ mReadPos \in Nat /\ mReaders \in Int /\ i \in Nat
      /\ count[i] \in Nat /\ i <= Len(mWaiters) /\ Len(mWaiters) \in Nat
  BY <1>0, Typed, SMTT(30) DEF Active, Popped, Releasing, TypeOK, InUnlock, InWake
<1>b. mReadPos + count[i] + 1 = i /\ mReadPos' = i
  BY <1>0 DEF IInv, ReleaseInv, ReleaseAt
<1>s. /\ LabelsInv' /\ OrderInv' /\ ExclusionInv' /\ GrantInv'
      /\ \A j \in Ticket : pc'[j] = IF j = i THEN "wake" ELSE pc[j]
      /\ \A r \in Readers : pc'[r] = pc[r]
      /\ \A w \in Writers : w # i => ~Active(w) /\ pc'[w] = pc[w] /\ (Popped(w)' <=> Popped(w))
      /\ \A j \in Pushed : Left(j) => Left(j)'
      /\ (Popped(i)' <=> Popped(i)) /\ UNCHANGED <<ids, idPos>> => IdsInv'
      /\ UNCHANGED <<written, value>> => ValueInv'
  <2>1. "wake" \in Releasing \cup {"done"} /\ mReadPos <= mReadPos'
    BY <1>0, <1>a DEF Releasing, InUnlock, InWake
  <2>2. Popped(i) => Popped(i)'
    BY <1>0, <1>a DEF Popped, Goto, TypeOK, InUnlock, InWake
  <2>3. QED
    BY <1>0, <1>a, <2>1, <2>2, ReleaseStep
<1>c. Popped(i)' /\ pc'[i] = "wake"
  BY <1>0, <1>s DEF Popped, InUnlock, InWake
<1>2. IdsInv'
  BY <1>0, <1>a, <1>c, <1>s
<1>3. AllBeforeLeft(i) /\ \A w \in Writers : Popped(w) /\ w > mReadPos => w = i
  <2>1. AllBeforeLeft(i)
    BY <1>0, <1>a DEF IInv, GrantInv
  <2>2. ASSUME NEW w \in Writers, Popped(w), w > mReadPos PROVE w = i
    <3>1. pc[w] = "skip"
      BY <2>2 DEF IInv, PositionInv
    <3>2. QED
      BY <3>1, <1>s DEF Active, Releasing, InUnlock, InWake
  <2>3. QED
    BY <2>1, <2>2
<1>4. PositionInv'
  <2>1. \A j \in 1..(i - 1) : Left(j)'
    BY <1>3, <1>a, <1>s, <1>0, Typed DEF AllBeforeLeft
  <2>2. Left(i)'
    BY <1>0, <1>1, <1>c DEF Left
  <2>3. \A j \in 1..mReadPos' : Left(j)'
    BY <2>1, <2>2, <1>a, <1>b
  <2>4. \A w \in Writers : ~(Popped(w)' /\ w > mReadPos')
    BY <1>3, <1>a, <1>b, <1>s, <1>0, Typed, SMTT(30)
  <2>5. QED
    BY <2>3, <2>4, <1>0, <1>1, <1>a, <1>b DEF PositionInv
<1>5. count'[i] = 0 /\ \A w \in Writers : w # i => count'[w] = 0 /\ pc'[w] \notin Releasing
  <2>1. count \in [Ticket -> Nat] /\ Writers \subseteq Ticket /\ count'[i] = 0
    BY <1>0, Typed DEF TypeOK
  <2>2. ASSUME NEW w \in Writers, w # i PROVE count'[w] = 0 /\ pc'[w] \notin Releasing
    <3>1. pc[w] \notin Releasing /\ pc'[w] = pc[w]
      BY <1>0, <1>s, <2>1, <2>2 DEF Active, Goto, TypeOK
    <3>2. count[w] = 0
      BY <3>1 DEF IInv, ReleaseInv, ReleaseAt
    <3>3. QED
      BY <1>0, <2>1, <2>2, <3>1, <3>2
  <2>3. QED
    BY <2>1, <2>2
<1>6. ReleaseInv'
  <2>1. mReadPos' + count'[i] <= Len(mWaiters) /\ (mReadPos' + 1)..(mReadPos' + count'[i]) = {}
    BY <1>a, <1>b, <1>5
  <2>2. Scanned(i)' = {} /\ mReadPos' + count'[i] <= Len(mWaiters)'
    BY <2>1, <1>0 DEF Scanned
  <2>3. QED
    BY <2>2, <1>1, <1>5, <1>c DEF ReleaseInv, Releasing, InUnlock, InWake, ReleaseAt
<1>7. ReaderAccounting'
  <2>1. \A j \in (mReadPos + 1)..(i - 1) : j \in Readers /\ pc[j] = "done"
    <3>1. ASSUME NEW j \in (mReadPos + 1)..(i - 1) PROVE j \in Readers /\ pc[j] = "done"
      <4>1. j \in Pushed /\ j > mReadPos /\ j # i /\ j \in 1..(i - 1)
        BY <1>a, <1>0, Typed
      <4>2. Left(j)
        BY <4>1, <1>3 DEF AllBeforeLeft
      <4>3. j \notin Writers
        BY <4>1, <4>2, <1>3 DEF Left
      <4>4. QED
        BY <4>1, <4>2, <4>3, <1>0, Typed DEF Left
    <3>2. QED
      BY <3>1
  <2>2. Finished' = {r \in Readers : r > i /\ pc[r] = "done"}
    BY <1>1, <1>b, <1>s DEF Finished
  <2>3. /\ Cardinality(Finished') \in Nat /\ Cardinality(Finished) \in Nat
        /\ Cardinality(Finished) = Cardinality(Finished') + count[i]
    <3>1. i = mReadPos + count[i] + 1 /\ i \notin Readers
      BY <1>0, <1>b, Typed
    <3>2. \A j \in (mReadPos + 1)..(mReadPos + count[i]) : j \in Readers /\ pc[j] = "done"
      BY <2>1, <3>1, <1>a
    <3>3. QED
      BY <3>1, <3>2, <2>2, <1>0, <1>a, FinishedPast
  <2>4. mReaders = count[i] - Cardinality(Finished)
    BY <1>0 DEF IInv, ReaderAccounting, Releasing, InUnlock, InWake
  <2>5. mReaders' = count'[i] - Cardinality(Finished')
    <3>1. mReaders' = mReaders /\ count'[i] = 0
      BY <1>0, <1>5
    <3>2. QED
      BY ONLY <3>1, <2>3, <2>4, <1>a
  <2>6. pc'[i] \in Releasing
    BY <1>c DEF Releasing, InUnlock, InWake
  <2>7. QED
    BY <2>5, <2>6, <1>0, <1>1, <1>5 DEF ReaderAccounting
<1>8. QED
  BY <1>0, <1>s, <1>2, <1>4, <1>6, <1>7 DEF IInv

(* Wake looks at the entry behind those it has dealt with.                 *)
LEMMA WakeValidStep ==
  ASSUME IInv, TypeOK', NEW i \in Pushed, WakeValid(i)
  PROVE  IInv'
<1>0. /\ TypeOK /\ i \in Writers /\ i \in Ticket /\ pc[i] = "wake"
      /\ UNCHANGED <<mWaiters, mReadPos, mReaders, ids, idPos, workflowId, readPos, firstId,
                     count, cur, messages, phase, seen, written, value>>
  BY Typed DEF IInv, WakeValid, lockVars, passVars, localVars, wakeVars, dataVars
<1>1. PICK label \in {"first", "endWake"} :
        Goto(i, label) /\ (label = "first" => mReadPos + count[i] < Len(mWaiters))
  BY DEF WakeValid
<1>2. pc'[i] = label /\ Readers' = Readers /\ Scanned(i)' = Scanned(i)
  BY <1>0, <1>1, SameQueue DEF Goto, TypeOK, Scanned
<1>3. ReleaseAt(i)'
  <2>1. mReadPos + count[i] <= Len(mWaiters) /\ Scanned(i) \subseteq Readers
    BY <1>0 DEF IInv, ReleaseInv, ReleaseAt, InWake
  <2>2. QED
    BY <2>1, <1>0, <1>1, <1>2 DEF ReleaseAt, Releasing, InUnlock, InWake
<1>4. QED
  BY <1>0, <1>1, <1>3, InnerStep DEF Releasing, InWake

LEMMA WakeFirstStep ==
  ASSUME IInv, TypeOK', NEW i \in Pushed, WakeFirst(i)
  PROVE  IInv'
<1>0. /\ TypeOK /\ i \in Writers /\ i \in Ticket /\ pc[i] = "first"
      /\ mReadPos + count[i] < Len(mWaiters)
      /\ UNCHANGED <<mWaiters, mReadPos, mReaders, ids, idPos, workflowId, readPos, firstId,
                     count, messages, phase, seen, written, value>>
  BY Typed DEF IInv, WakeFirst, lockVars, passVars, wakeVars, dataVars
<1>a. mReadPos \in Nat /\ count[i] \in Nat /\ Len(mWaiters) \in Nat
  BY <1>0, Typed DEF TypeOK
<1>1. /\ cur'[i] = mReadPos + count[i] + 1 /\ cur'[i] \in Pushed
      /\ cur'[i] \in Writers \/ cur'[i] \in Readers
  <2>1. cur'[i] = mReadPos + count[i] + 1
    BY <1>0 DEF WakeFirst, At, TypeOK
  <2>2. mReadPos + count[i] + 1 \in 1..Len(mWaiters)
    BY <1>0, <1>a
  <2>3. QED
    BY <2>1, <2>2, <1>0, Typed
<1>2. PICK label \in {"wakeWriter", "wakeReader"} :
        Goto(i, label) /\ (label = "wakeWriter" <=> cur'[i] \in Writers)
  BY <1>0, <1>1 DEF WakeFirst, At, TypeOK
<1>3. pc'[i] = label /\ Readers' = Readers /\ Writers' = Writers /\ Scanned(i)' = Scanned(i)
  BY <1>0, <1>2, SameQueue DEF Goto, TypeOK, Scanned
<1>4. ReleaseAt(i)'
  <2>1. mReadPos + count[i] <= Len(mWaiters) /\ Scanned(i) \subseteq Readers
    BY <1>0 DEF IInv, ReleaseInv, ReleaseAt, InWake
  <2>2. QED
    BY <2>1, <1>0, <1>1, <1>2, <1>3 DEF ReleaseAt, Releasing, InUnlock, InWake
<1>5. QED
  BY <1>0, <1>2, <1>4, InnerStep DEF Releasing, InWake

(* Wake counts a reader before it wakes it.                                *)
LEMMA WakeReaderStep ==
  ASSUME IInv, TypeOK', NEW i \in Pushed, WakeReader(i)
  PROVE  IInv'
<1>0. /\ TypeOK /\ i \in Writers /\ i \in Ticket /\ pc[i] = "wakeReader" /\ Goto(i, "enqueue")
      /\ mReaders' = mReaders + 1 /\ count' = [count EXCEPT ![i] = @ + 1]
      /\ UNCHANGED <<mWaiters, mReadPos, ids, idPos, workflowId, readPos, firstId,
                     cur, messages, phase, seen, written, value>>
  BY Typed DEF IInv, WakeReader, passVars, wakeVars, dataVars
<1>a. /\ mReadPos \in Nat /\ mReaders \in Int /\ count \in [Ticket -> Nat] /\ count[i] \in Nat
      /\ Len(mWaiters) \in Nat
  BY <1>0, Typed DEF TypeOK
<1>1. /\ count'[i] = count[i] + 1 /\ pc'[i] = "enqueue"
      /\ \A j \in Ticket \ {i} : count'[j] = count[j]
      /\ Readers' = Readers /\ Writers' = Writers
  BY <1>0, <1>a, SameQueue DEF Goto, TypeOK
<1>2. /\ cur[i] \in Readers /\ cur[i] = mReadPos + count[i] + 1 /\ cur[i] <= Len(mWaiters)
      /\ Scanned(i) \subseteq Readers
  <2>1. ReleaseAt(i)
    BY <1>0 DEF IInv, ReleaseInv
  <2>2. cur[i] \in Readers /\ cur[i] = mReadPos + count[i] + 1 /\ Scanned(i) \subseteq Readers
    BY <1>0, <2>1 DEF ReleaseAt, InWake
  <2>3. cur[i] <= Len(mWaiters)
    BY <1>0, <2>2, Typed
  <2>4. QED
    BY <2>2, <2>3
<1>3. /\ mReaders' - count'[i] = mReaders - count[i]
      /\ cur[i] = mReadPos + count'[i] /\ mReadPos + count'[i] <= Len(mWaiters)
  <2>1. count[i] \in Nat /\ count'[i] = count[i] + 1
    BY <1>1, <1>a
  <2>2. mReaders' - count'[i] = mReaders - count[i]
    <3>1. mReaders \in Int /\ mReaders' = mReaders + 1
      BY <1>0, <1>a
    <3>2. QED
      BY ONLY <2>1, <3>1
  <2>3. cur[i] = mReadPos + count'[i]
    <3>1. mReadPos \in Nat /\ cur[i] = mReadPos + count[i] + 1
      BY <1>2, <1>a
    <3>2. QED
      BY ONLY <2>1, <3>1
  <2>4. QED
    BY <1>2, <2>2, <2>3
<1>4. Scanned(i)' \subseteq Readers
  <2>1. Scanned(i)' = (mReadPos + 1)..(mReadPos + count'[i])
    BY <1>0 DEF Scanned
  <2>2. ASSUME NEW j \in (mReadPos + 1)..(mReadPos + count'[i]) PROVE j \in Readers
    <3>1. j \in (mReadPos + 1)..(mReadPos + count[i]) \/ j = cur[i]
      BY <1>1, <1>2, <1>a
    <3>2. QED
      BY <3>1, <1>2 DEF Scanned
  <2>3. QED
    BY <2>1, <2>2
<1>5. ReleaseAt(i)'
  BY <1>0, <1>1, <1>2, <1>3, <1>4 DEF ReleaseAt, Releasing, InUnlock, InWake
<1>6. QED
  BY <1>0, <1>1, <1>3, <1>5, InnerStep DEF Releasing, InWake

(* When mReaders is 0, every entry between the read position and the next  *)
(* writer is that of a reader that has finished.                           *)
LEMMA WakeWriterStep ==
  ASSUME IInv, TypeOK', NEW i \in Pushed, WakeWriter(i)
  PROVE  IInv'
<1>0. /\ TypeOK /\ i \in Writers /\ i \in Ticket /\ pc[i] = "wakeWriter"
      /\ UNCHANGED <<mWaiters, mReadPos, mReaders, ids, idPos, workflowId, readPos, firstId,
                     count, cur, messages, phase, seen, written, value>>
  BY Typed DEF IInv, WakeWriter, lockVars, passVars, localVars, wakeVars, dataVars
<1>a. /\ mReadPos \in Nat /\ mReaders \in Int /\ count[i] \in Nat /\ Active(i)
  BY <1>0, Typed DEF TypeOK, Active, Releasing, InWake
<1>c. /\ cur[i] \in Writers /\ cur[i] = mReadPos + count[i] + 1 /\ cur[i] \in Nat
      /\ mReadPos + count[i] <= Len(mWaiters) /\ Scanned(i) \subseteq Readers
      /\ mReaders = count[i] - Cardinality(Finished) /\ Cardinality(Finished) \in Nat
  BY <1>0, Typed, FinishedFinite
     DEF IInv, ReleaseInv, ReleaseAt, ReaderAccounting, Releasing, InWake
<1>d. ~Popped(cur[i])
  <2>1. SUFFICES ASSUME Popped(cur[i]) PROVE FALSE
    OBVIOUS
  <2>2. cur[i] > mReadPos
    BY ONLY <1>a, <1>c
  <2>3. pc[cur[i]] = "skip"
    BY <1>c, <2>1, <2>2 DEF IInv, PositionInv
  <2>4. cur[i] = i
    BY <1>0, <1>a, <1>c, <2>3 DEF IInv, ExclusionInv, Active, Releasing, InUnlock
  <2>5. QED
    BY <1>0, <2>3, <2>4
<1>1. PICK label \in {"skipReaders", "endWake"} :
        Goto(i, label) /\ (label = "skipReaders" => mReaders = 0)
  BY DEF WakeWriter
<1>2. pc'[i] = label /\ Readers' = Readers /\ Writers' = Writers /\ Scanned(i)' = Scanned(i)
      /\ Pushed' = Pushed
  BY <1>0, <1>1, SameQueue DEF Goto, TypeOK, Scanned
<1>3. ASSUME label = "skipReaders", NEW j \in Scanned(i) PROVE Left(j)'
  <2>1. Cardinality(Finished) = cur[i] - 1 - mReadPos
    <3>1. mReaders = 0
      BY <1>1, <1>3
    <3>2. QED
      BY ONLY <3>1, <1>a, <1>c
  <2>2. AllBeforeLeft(cur[i])
    BY <2>1, <1>c, <1>d, FinishedInFront
  <2>3. j \in 1..(cur[i] - 1)
    <3>1. j \in (mReadPos + 1)..(mReadPos + count[i])
      BY <1>3 DEF Scanned
    <3>2. mReadPos \in Nat /\ count[i] \in Nat /\ cur[i] = mReadPos + count[i] + 1
      BY <1>a, <1>c
    <3>3. QED
      BY ONLY <3>1, <3>2
  <2>4. j \in Readers /\ j \notin Writers /\ j # i /\ j \in Ticket
    BY <1>0, <1>c, Typed
  <2>5. pc[j] = "done"
    BY <2>2, <2>3, <2>4 DEF AllBeforeLeft, Left
  <2>6. pc'[j] = pc[j]
    BY <2>4, <1>0, <1>1, GotoAt DEF TypeOK
  <2>7. QED
    BY <2>4, <2>5, <2>6, <1>2 DEF Left
<1>4. ReleaseAt(i)'
  BY <1>0, <1>1, <1>2, <1>3, <1>c DEF ReleaseAt, Releasing, InUnlock, InWake
<1>5. QED
  BY <1>0, <1>1, <1>4, InnerStep DEF Releasing, InWake

(* The read position passes readers that have all finished.                *)
LEMMA SkipReadersStep ==
  ASSUME IInv, TypeOK', NEW i \in Pushed, SkipReaders(i)
  PROVE  IInv'
<1>0. /\ TypeOK /\ i \in Writers /\ i \in Ticket /\ pc[i] = "skipReaders" /\ Goto(i, "enqueue")
      /\ mReadPos' = mReadPos + count[i]
      /\ count' = [count EXCEPT ![i] = 0]
      /\ UNCHANGED <<mWaiters, mReaders, ids, idPos, workflowId, readPos, firstId,
                     cur, messages, phase, seen, written, value>>
  BY Typed DEF IInv, SkipReaders, passVars, wakeVars, dataVars
<1>1. /\ Pushed' = Pushed /\ Writers' = Writers /\ Readers' = Readers
      /\ \A j : Wf(j)' = Wf(j)
  BY <1>0, SameQueue
<1>a. /\ Active(i) /\ Popped(i) /\ mReadPos \in Nat /\ mReaders \in Int /\ i \in Nat
      /\ count \in [Ticket -> Nat] /\ count[i] \in Nat /\ Len(mWaiters) \in Nat
  BY <1>0, Typed DEF Active, Popped, Releasing, InWake, TypeOK
<1>c. /\ cur[i] \in Writers /\ cur[i] = mReadPos + count[i] + 1
      /\ mReadPos + count[i] <= Len(mWaiters)
      /\ \A j \in (mReadPos + 1)..(mReadPos + count[i]) : j \in Readers /\ Left(j)
  BY <1>0 DEF IInv, ReleaseInv, ReleaseAt, InWake, Scanned
<1>p. mReadPos <= mReadPos' /\ mReadPos' \in Nat
  BY <1>0, <1>a
<1>s. /\ LabelsInv' /\ OrderInv' /\ ExclusionInv' /\ GrantInv'
      /\ \A j \in Ticket : pc'[j] = IF j = i THEN "enqueue" ELSE pc[j]
      /\ \A r \in Readers : pc'[r] = pc[r]
      /\ \A w \in Writers : w # i => ~Active(w) /\ pc'[w] = pc[w] /\ (Popped(w)' <=> Popped(w))
      /\ \A j \in Pushed : Left(j) => Left(j)'
      /\ (Popped(i)' <=> Popped(i)) /\ UNCHANGED <<ids, idPos>> => IdsInv'
      /\ UNCHANGED <<written, value>> => ValueInv'
  <2>1. "enqueue" \in Releasing \cup {"done"}
    BY DEF Releasing, InWake
  <2>2. Popped(i) => Popped(i)'
    BY <1>0, <1>a DEF Popped, InWake, Goto, TypeOK
  <2>3. \A j \in Ticket \ Pushed : count'[j] = count[j]
    BY <1>0, <1>a
  <2>4. QED
    BY <1>0, <1>a, <1>p, <2>1, <2>2, <2>3, ReleaseStep
<1>b. Popped(i)' /\ pc'[i] = "enqueue"
  BY <1>0, <1>s DEF Popped, InWake
<1>2. IdsInv'
  BY <1>0, <1>a, <1>b, <1>s
<1>3. PositionInv'
  <2>0. PositionInv
    BY DEF IInv
  <2>1. i <= mReadPos
    BY <2>0, <1>0, <1>a DEF PositionInv
  <2>2. \A j \in 1..mReadPos' : j \in Pushed /\ Left(j)
    <3>1. \A j \in 1..mReadPos' : j \in 1..mReadPos \/ j \in (mReadPos + 1)..(mReadPos + count[i])
      BY <1>0, <1>a
    <3>2. \A j \in 1..mReadPos' : j \in Pushed
      BY <1>0, <1>a, <1>c, Typed
    <3>3. QED
      BY <3>1, <3>2, <2>0, <1>c DEF PositionInv
  <2>3. \A j \in 1..mReadPos' : Left(j)'
    BY <2>2, <1>s
  <2>4. ASSUME NEW w \in Writers, Popped(w)', w > mReadPos' PROVE pc'[w] = "skip"
    <3>1. w \in Nat /\ w > mReadPos /\ w # i
      BY <2>1, <2>4, <1>a, <1>p, <1>0, Typed
    <3>2. QED
      BY <2>4, <3>1, <2>0, <1>s DEF PositionInv
  <2>5. mReadPos' <= Len(mWaiters)
    BY <1>0, <1>c
  <2>6. QED
    BY <2>3, <2>4, <2>5, <1>0, <1>1 DEF PositionInv
<1>4. /\ count'[i] = 0
      /\ \A w \in Writers : w # i => count'[w] = 0 /\ pc'[w] \notin Releasing
  BY <1>0, <1>a, <1>s, Typed DEF IInv, ReleaseInv, ReleaseAt, Active
<1>5. ReleaseInv'
  <2>1. Scanned(i)' = {}
    BY <1>0, <1>4, <1>p DEF Scanned
  <2>2. cur[i] = mReadPos' + 1 /\ mReadPos' + count'[i] <= Len(mWaiters)
    BY <1>0, <1>4, <1>a, <1>c
  <2>3. ReleaseAt(i)'
    BY <2>1, <2>2, <1>0, <1>1, <1>4, <1>b, <1>c DEF ReleaseAt, Releasing, InUnlock, InWake
  <2>4. \A w \in Writers : w # i => ReleaseAt(w)'
    BY <1>4 DEF ReleaseAt, Releasing, InUnlock, InWake
  <2>5. QED
    BY <2>3, <2>4, <1>1 DEF ReleaseInv
<1>6. ReaderAccounting'
  <2>1. \A j \in (mReadPos + 1)..(mReadPos + count[i]) : j \in Readers /\ pc[j] = "done"
    BY <1>c, <1>0, Typed DEF Left
  <2>2. Finished' = {r \in Readers : r > mReadPos' /\ pc[r] = "done"}
    BY <1>1, <1>s DEF Finished
  <2>3. /\ Cardinality(Finished') \in Nat /\ Cardinality(Finished) \in Nat
        /\ Cardinality(Finished) = Cardinality(Finished') + count[i]
    BY <2>1, <2>2, <1>0, <1>a, <1>p, FinishedPast
  <2>4. mReaders = count[i] - Cardinality(Finished)
    BY <1>0 DEF IInv, ReaderAccounting, Releasing, InWake
  <2>5. mReaders' = count'[i] - Cardinality(Finished')
    BY <2>3, <2>4, <1>0, <1>4, <1>a
  <2>6. pc'[i] \in Releasing
    BY <1>b DEF Releasing, InWake
  <2>7. QED
    BY <2>5, <2>6, <1>0, <1>1, <1>4 DEF ReaderAccounting
<1>7. QED
  BY <1>0, <1>s, <1>2, <1>3, <1>5, <1>6 DEF IInv

(* A wake-up adds a message for the task it is sent to, unless that ended. *)
LEMMA WakeUpMessages ==
  ASSUME TypeOK, NEW w, NEW k \in Pushed, WakeUp(w, k)
  PROVE  \A j \in Ticket : messages'[j] = IF j # k THEN messages[j]
                             ELSE IF pc[k] = "done" THEN 0 ELSE messages[k] + 1
BY Typed DEF WakeUp, TypeOK

(* Wake hands the lock to a reader that only readers are in front of, or   *)
(* to the writer at the read position.                                     *)
LEMMA EnqueueStep ==
  ASSUME IInv, TypeOK', NEW i \in Pushed, Enqueue(i)
  PROVE  IInv'
<1>0. /\ TypeOK /\ i \in Writers /\ i \in Ticket /\ pc[i] = "enqueue"
      /\ WakeUp(i, cur[i])
      /\ UNCHANGED <<mWaiters, mReadPos, mReaders, ids, idPos, workflowId, readPos, firstId,
                     count, cur, phase, seen, written, value>>
  BY Typed DEF IInv, Enqueue, lockVars, passVars, localVars, dataVars
<1>a. /\ mReadPos \in Nat /\ mReaders \in Int /\ count[i] \in Nat /\ Len(mWaiters) \in Nat
  BY <1>0, Typed DEF TypeOK
<1>c. /\ mReadPos + count[i] <= Len(mWaiters) /\ Scanned(i) \subseteq Readers
      /\ \/ cur[i] = mReadPos + count[i] /\ cur[i] \in Readers /\ cur[i] \notin Writers
         \/ cur[i] = mReadPos + 1 /\ cur[i] \in Writers /\ cur[i] \notin Readers
      /\ cur[i] \in Pushed /\ cur[i] \in Nat
  BY <1>0, Typed DEF IInv, ReleaseInv, ReleaseAt, InWake
<1>g. IF cur[i] \in Writers THEN AllBeforeLeft(cur[i]) ELSE BehindPopped(cur[i])
  <2>0. \A j \in 1..mReadPos : Left(j)
    BY DEF IInv, PositionInv
  <2>1. CASE cur[i] \in Writers
    <3>1. 1..(cur[i] - 1) = 1..mReadPos
      BY <2>1, <1>a, <1>c
    <3>2. QED
      BY <2>0, <2>1, <3>1 DEF AllBeforeLeft
  <2>2. CASE cur[i] \notin Writers
    <3>1. ASSUME NEW w \in Writers, w < cur[i] PROVE Popped(w)
      <4>1. w \notin (mReadPos + 1)..(mReadPos + count[i]) /\ w \in Nat \ {0}
        BY <1>c, <1>0, Typed DEF Scanned
      <4>2. w \in 1..mReadPos
        BY <2>2, <3>1, <4>1, <1>a, <1>c
      <4>3. QED
        BY <2>0, <4>2 DEF Left
    <3>2. QED
      BY <2>2, <3>1 DEF BehindPopped
  <2>3. QED
    BY <2>1, <2>2
<1>1. PICK label \in {"wake", "endWake"} : Goto(i, label)
  BY DEF Enqueue
<1>2. pc'[i] = label /\ Readers' = Readers /\ Writers' = Writers /\ Scanned(i)' = Scanned(i)
  BY <1>0, <1>1, SameQueue DEF Goto, TypeOK, Scanned
<1>3. ReleaseAt(i)'
  BY <1>0, <1>1, <1>2, <1>c DEF ReleaseAt, Releasing, InUnlock, InWake
<1>m. \A j \in Ticket : j # cur[i] => messages'[j] = messages[j]
  BY <1>0, <1>c, WakeUpMessages
<1>4. \A j \in Ticket \ Pushed : messages'[j] = messages[j]
  BY <1>c, <1>m
<1>5. \A j \in Pushed : messages'[j] > 0 =>
        messages[j] > 0 \/ (IF j \in Writers THEN AllBeforeLeft(j) ELSE BehindPopped(j))
  BY <1>0, <1>g, <1>m, Typed
<1>6. QED
  BY <1>0, <1>1, <1>3, <1>4, <1>5, InnerStep DEF Releasing, InWake

(* The writer settles what it added to mReaders, and has released.         *)
LEMMA EndWakeStep ==
  ASSUME IInv, TypeOK', NEW i \in Pushed, EndWake(i)
  PROVE  IInv'
<1>0. /\ TypeOK /\ i \in Writers /\ i \in Ticket /\ pc[i] = "endWake" /\ Finish(i) /\ Goto(i, "done")
      /\ mReaders' = mReaders - count[i] /\ count' = [count EXCEPT ![i] = 0]
      /\ UNCHANGED <<mWaiters, mReadPos, ids, idPos, workflowId, readPos, firstId,
                     seen, written, value>>
  BY Typed DEF IInv, EndWake, Finish, passVars, dataVars
<1>1. /\ Pushed' = Pushed /\ Writers' = Writers /\ Readers' = Readers
      /\ \A j : Wf(j)' = Wf(j)
  BY <1>0, SameQueue
<1>a. /\ Active(i) /\ Popped(i) /\ mReadPos \in Nat /\ mReaders \in Int
      /\ count[i] \in Nat /\ i \in Pushed
  BY <1>0, Typed DEF Active, Popped, Releasing, TypeOK, InUnlock, InWake
<1>s. /\ LabelsInv' /\ OrderInv' /\ ExclusionInv' /\ GrantInv'
      /\ \A j \in Ticket : pc'[j] = IF j = i THEN "done" ELSE pc[j]
      /\ \A r \in Readers : pc'[r] = pc[r]
      /\ \A w \in Writers : w # i => ~Active(w) /\ pc'[w] = pc[w] /\ (Popped(w)' <=> Popped(w))
      /\ \A j \in Pushed : Left(j) => Left(j)'
      /\ (Popped(i)' <=> Popped(i)) /\ UNCHANGED <<ids, idPos>> => IdsInv'
      /\ UNCHANGED <<written, value>> => ValueInv'
  <2>1. "done" \in Releasing \cup {"done"} /\ mReadPos <= mReadPos'
    BY <1>0, <1>a
  <2>2. Popped(i) => Popped(i)'
    BY <1>0, <1>a DEF Popped, Goto, TypeOK, InUnlock, InWake
  <2>3. \A j \in Ticket : j # i => messages'[j] = messages[j] /\ phase'[j] = phase[j]
    BY <1>0 DEF Finish, TypeOK
  <2>4. messages'[i] = 0 /\ phase'[i] = "none"
    BY <1>0 DEF Finish, TypeOK
  <2>5. /\ \A j \in Ticket \ Pushed : messages'[j] = messages[j]
        /\ \A j \in Ticket \ {i} : phase'[j] = phase[j]
    BY <2>3, <1>a
  <2>6. \A j \in Pushed : messages'[j] > 0 =>
           messages[j] > 0 \/ (IF j \in Writers THEN AllBeforeLeft(j) ELSE BehindPopped(j))
    BY <2>3, <2>4, <1>0, Typed
  <2>7. QED
    BY <1>0, <1>a, <2>1, <2>2, <2>4, <2>5, <2>6, ReleaseStep
<1>b. Popped(i)' /\ pc'[i] = "done"
  BY <1>0, <1>s DEF Popped, InUnlock, InWake
<1>2. IdsInv'
  BY <1>0, <1>a, <1>b, <1>s
<1>3. PositionInv'
  <2>0. PositionInv /\ i <= mReadPos
    BY <1>0, <1>a, Typed DEF IInv, PositionInv
  <2>1. \A j \in 1..mReadPos : Left(j)'
    BY <2>0, <1>0, <1>a, <1>s, Typed, SMTT(30) DEF PositionInv
  <2>2. \A w \in Writers : Popped(w)' /\ w > mReadPos => pc'[w] = "skip"
    BY <2>0, <1>0, <1>a, <1>s, Typed DEF PositionInv
  <2>3. QED
    BY <2>0, <2>1, <2>2, <1>0, <1>1 DEF PositionInv
<1>4. /\ count'[i] = 0
      /\ \A w \in Writers : count'[w] = 0 /\ pc'[w] \notin Releasing
  <2>1. count'[i] = 0 /\ pc'[i] \notin Releasing
    BY <1>0, <1>b DEF TypeOK, Releasing, InUnlock, InWake
  <2>2. \A w \in Writers : w # i => count'[w] = 0 /\ pc'[w] \notin Releasing
    BY <1>0, <1>s, Typed DEF IInv, ReleaseInv, Active, TypeOK, ReleaseAt
  <2>3. QED
    BY <2>1, <2>2
<1>5. ReleaseInv'
  BY <1>0, <1>1, <1>4 DEF ReleaseInv, Releasing, InUnlock, InWake, ReleaseAt
<1>6. ReaderAccounting'
  <2>1. Finished' = Finished
    BY <1>0, <1>1, <1>s DEF Finished
  <2>2. mReaders = count[i] - Cardinality(Finished) /\ Cardinality(Finished) \in Nat
    BY <1>0, FinishedFinite DEF IInv, ReaderAccounting, Releasing, InUnlock, InWake
  <2>3. mReaders' = - Cardinality(Finished)
    BY <2>2, <1>0, <1>a
  <2>4. QED
    BY <2>1, <2>3, <1>1, <1>4 DEF ReaderAccounting
<1>7. QED
  BY <1>0, <1>s, <1>2, <1>3, <1>5, <1>6 DEF IInv

(* What a registration changes: one ticket is added behind all others, and *)
(* nothing that was said of those changes.                                 *)
LEMMA PushFacts ==
  ASSUME IInv, TypeOK', NEW writer \in BOOLEAN, NEW node,
         NEW flow, flow = workflowId', NEW new, new = Len(mWaiters) + 1,
         Push(flow, writer, node)
  PROVE  /\ new \in Ticket \ Pushed /\ Pushed' = Pushed \cup {new}
         /\ \A j \in Pushed : j < new /\ Wf(j)' = Wf(j)
         /\ Wf(new)' = flow
         /\ Writers' = IF writer THEN Writers \cup {new} ELSE Writers
         /\ Readers' = IF writer THEN Readers ELSE Readers \cup {new}
         /\ \A j \in Ticket : pc'[j] = IF j = new THEN "queued" ELSE pc[j]
         /\ \A j \in Pushed : /\ Popped(j)' <=> Popped(j)
                              /\ Active(j)' <=> Active(j)
                              /\ Left(j)' <=> Left(j)
                              /\ BehindPopped(j)' <=> BehindPopped(j)
                              /\ AllBeforeLeft(j)' <=> AllBeforeLeft(j)
         /\ ~Popped(new)' /\ ~Active(new)'
<1> DEFINE entry == [wf |-> flow, IsWriter |-> writer, node |-> node]
<1>0. TypeOK /\ Len(mWaiters) \in Nat
  BY Typed DEF IInv
<1>1. mWaiters \in Seq(WaiterType) /\ mWaiters' = Append(mWaiters, entry)
  BY <1>0 DEF TypeOK, Push
<1>2. /\ Len(mWaiters') = new /\ mWaiters'[new] = entry
      /\ \A j \in 1..Len(mWaiters) : mWaiters'[j] = mWaiters[j]
  BY <1>0, <1>1
<1>3. Pushed' = 1..new /\ Pushed = 1..Len(mWaiters) /\ Pushed' \subseteq Ticket
  <2>1. toPush' \subseteq Successors /\ Len(mWaiters') + Cardinality(toPush') <= MaxWaiters
    BY DEF TypeOK
  <2>2. Cardinality(toPush') \in Nat
    BY <2>1, ConstantsAssumption, FS_Subset, FS_CardinalityType
  <2>3. new <= MaxWaiters
    BY <2>1, <2>2, <1>0, <1>2, ConstantsAssumption
  <2>4. QED
    BY <2>3, <1>0, <1>2, ConstantsAssumption DEF Pushed, Ticket
<1>4. new \in Ticket \ Pushed /\ Pushed' = Pushed \cup {new} /\ \A j \in Pushed : j < new
  BY <1>0, <1>3
<1>5. Wf(new)' = flow /\ \A j \in Pushed : Wf(j)' = Wf(j)
  BY <1>2, <1>3 DEF Wf
<1>6. /\ Writers' = IF writer THEN Writers \cup {new} ELSE Writers
      /\ Readers' = IF writer THEN Readers ELSE Readers \cup {new}
  <2>1. Writers' = {i \in Pushed' : mWaiters'[i].IsWriter}
    BY DEF Writers
  <2>2. Readers' = {i \in Pushed' : ~mWaiters'[i].IsWriter}
    BY DEF Readers
  <2>3. mWaiters'[new].IsWriter = writer
    BY <1>2
  <2>4. \A j \in Pushed : mWaiters'[j] = mWaiters[j]
    BY <1>2, <1>3
  <2>5. QED
    <3>1. CASE writer
      BY <3>1, <2>1, <2>2, <2>3, <2>4, <1>4 DEF Writers, Readers
    <3>2. CASE ~writer
      BY <3>2, <2>1, <2>2, <2>3, <2>4, <1>4 DEF Writers, Readers
    <3>3. QED
      BY <3>1, <3>2
<1>7. \A j \in Ticket : pc'[j] = IF j = new THEN "queued" ELSE pc[j]
  <2>1. Goto(new, "queued")
    BY DEF Push
  <2>2. QED
    BY <1>0, <1>4, <2>1, GotoAt DEF TypeOK
<1>8. /\ \A j \in Pushed : (Popped(j)' <=> Popped(j)) /\ (Active(j)' <=> Active(j))
      /\ ~Popped(new)' /\ ~Active(new)'
  <2>1. \A j \in Pushed : pc'[j] = pc[j]
    BY <1>0, <1>4, <1>7, Typed
  <2>2. pc'[new] = "queued"
    BY <1>4, <1>7
  <2>3. QED
    BY <2>1, <2>2 DEF Popped, Active, Releasing, InUnlock, InWake
<1>9. \A j \in Pushed : Left(j)' <=> Left(j)
  BY <1>0, <1>4, <1>6, <1>7, <1>8, Typed DEF Left
<1>10. \A j \in Pushed : BehindPopped(j)' <=> BehindPopped(j)
  <2>1. ASSUME NEW j \in Pushed PROVE BehindPopped(j)' <=> BehindPopped(j)
    <3>1. ~(new < j) /\ Writers \subseteq Pushed
      BY <1>0, <1>4, Typed
    <3>2. QED
      BY <3>1, <1>6, <1>8 DEF BehindPopped
  <2>2. QED
    BY <2>1
<1>11. \A j \in Pushed : AllBeforeLeft(j)' <=> AllBeforeLeft(j)
  <2>1. \A j \in Pushed : 1..(j - 1) \subseteq Pushed
    BY <1>0, <1>3
  <2>2. QED
    BY <2>1, <1>9 DEF AllBeforeLeft
<1>12. QED
  BY <1>4, <1>5, <1>6, <1>7, <1>8, <1>9, <1>10, <1>11
(* An entry pushed behind the others, with the id of the current workflow, *)
(* and with it in the id queue if it is a writer's.                        *)
LEMMA PushStep ==
  ASSUME IInv, TypeOK', NEW writer \in BOOLEAN, NEW node,
         NEW flow, flow = workflowId', NEW new, new = Len(mWaiters) + 1,
         Push(flow, writer, node), workflowId <= flow,
         writer => workflowId < flow /\ ids' = Append(ids, flow),
         ~writer => ids' = ids
  PROVE  IInv'
<1>0. /\ TypeOK /\ Len(mWaiters) \in Nat /\ workflowId \in Nat /\ flow \in Nat
      /\ mReadPos \in Nat /\ idPos \in Nat
      /\ \A j \in Pushed : Wf(j) \in Nat
  <2>1. flow \in Nat
    BY ConstantsAssumption DEF TypeOK, Workflow
  <2>2. QED
    BY <2>1, Typed DEF IInv
<1>f. UNCHANGED <<mReadPos, mReaders, idPos, readPos, firstId, count, cur, phase, messages,
                  written, value, seen>>
  BY DEF Push, localVars, dataVars
<1>p. /\ new \in Ticket \ Pushed /\ Pushed' = Pushed \cup {new}
      /\ \A j \in Pushed : j < new /\ Wf(j)' = Wf(j)
      /\ Wf(new)' = flow
      /\ Writers' = IF writer THEN Writers \cup {new} ELSE Writers
      /\ Readers' = IF writer THEN Readers ELSE Readers \cup {new}
      /\ \A j \in Ticket : pc'[j] = IF j = new THEN "queued" ELSE pc[j]
      /\ \A j \in Pushed : /\ Popped(j)' <=> Popped(j)
                           /\ Active(j)' <=> Active(j)
                           /\ Left(j)' <=> Left(j)
                           /\ BehindPopped(j)' <=> BehindPopped(j)
                           /\ AllBeforeLeft(j)' <=> AllBeforeLeft(j)
      /\ ~Popped(new)' /\ ~Active(new)'
  BY PushFacts
<1>n. /\ new \in Nat /\ pc'[new] = "queued" /\ seen[new] = -1 /\ messages[new] = 0
      /\ count[new] = 0 /\ phase[new] = "none"
      /\ Len(mWaiters') = new
  BY <1>0, <1>p DEF IInv, LabelsInv, Push, TypeOK
<1>w. /\ \A w \in Writers' : w \in Writers \/ (writer /\ w = new)
      /\ \A r \in Readers' : r \in Readers \/ (~writer /\ r = new)
      /\ Writers \subseteq Pushed /\ Readers \subseteq Pushed /\ Pushed \subseteq Ticket
      /\ \A j \in Pushed : j # new /\ j \in Nat
  BY <1>0, <1>p, Typed
<1>1. LabelsInv'
  <2>1. \A j \in Ticket \ Pushed' :
          /\ pc'[j] = "absent" /\ seen'[j] = -1 /\ messages'[j] = 0 /\ phase'[j] = "none"
          /\ count'[j] = 0
    BY <1>f, <1>p DEF IInv, LabelsInv
  <2>2. \A j \in Pushed' : pc'[j] # "absent"
    BY <1>n, <1>p, <1>w DEF IInv, LabelsInv
  <2>3. \A w \in Writers' :
          pc'[w] \notin {"admitted", "unschedulable"} /\ seen'[w] = -1 /\ phase'[w] = "none"
    BY <1>f, <1>n, <1>p, <1>w DEF IInv, LabelsInv
  <2>4. \A r \in Readers' : pc'[r] # "holding" /\ pc'[r] \notin Releasing
    BY <1>n, <1>p, <1>w DEF IInv, LabelsInv, Releasing, InUnlock, InWake
  <2>5. QED
    BY <2>1, <2>2, <2>3, <2>4 DEF LabelsInv, Ticket
<1>2. OrderInv'
  <2>0. OrderInv
    BY DEF IInv
  <2>1. \A i \in Pushed' : Wf(i)' <= workflowId'
    BY <2>0, <1>0, <1>p DEF OrderInv
  <2>2. ASSUME NEW i \in Pushed', NEW j \in Pushed', i < j PROVE Wf(i)' <= Wf(j)'
    <3>1. CASE j = new
      BY <2>1, <3>1, <1>p
    <3>2. CASE j # new
      BY <2>0, <2>2, <3>2, <1>n, <1>p, <1>w DEF OrderInv
    <3>3. QED
      BY <3>1, <3>2
  <2>3. ASSUME NEW i \in Pushed', NEW w \in Writers', i < w PROVE Wf(i)' < Wf(w)'
    <3>1. CASE w = new
      <4>1. i \in Pushed /\ writer
        BY <2>3, <3>1, <1>n, <1>p, <1>w
      <4>2. QED
        BY <2>0, <3>1, <4>1, <1>0, <1>p DEF OrderInv
    <3>2. CASE w \in Writers
      BY <2>0, <2>3, <3>2, <1>n, <1>p, <1>w DEF OrderInv
    <3>3. QED
      BY <3>1, <3>2, <1>w
  <2>4. QED
    BY <2>1, <2>2, <2>3 DEF OrderInv
<1>3. IdsInv'
  <2>0. IdsInv /\ ids \in Seq(Workflow) /\ Len(ids) \in Nat /\ Workflow \subseteq Nat
    BY <1>0, ConstantsAssumption DEF IInv, TypeOK, Workflow
  <2>1. CASE writer
    <3>1. /\ Len(ids') = Len(ids) + 1 /\ ids'[Len(ids) + 1] = flow
          /\ \A n \in 1..Len(ids) : ids'[n] = ids[n]
          /\ Writers' = Writers \cup {new}
      BY <2>0, <2>1, <1>p
    <3>2. idPos' <= Len(ids')
      BY <2>0, <3>1, <1>0, <1>f DEF IdsInv
    <3>3. \A n \in 1..Len(ids) : ids[n] \in Nat /\ ids[n] <= workflowId
      <4>1. \A n \in 1..Len(ids) : ids[n] \in Workflow
        BY <2>0
      <4>2. QED
        BY <4>1, <2>0 DEF IdsInv
    <3>4. \A n \in 1..Len(ids') : ids'[n] <= workflowId'
      BY <2>0, <3>1, <3>3, <1>0
    <3>5. ASSUME NEW m \in 1..Len(ids'), NEW n \in 1..Len(ids'), m < n PROVE ids'[m] < ids'[n]
      <4>1. CASE n = Len(ids) + 1
        BY <2>0, <2>1, <3>1, <3>3, <3>5, <4>1, <1>0
      <4>2. CASE n # Len(ids) + 1
        <5>1. m \in 1..Len(ids) /\ n \in 1..Len(ids)
          BY <2>0, <3>1, <3>5, <4>2
        <5>2. QED
          BY <2>0, <3>1, <3>5, <5>1 DEF IdsInv
      <4>3. QED
        BY <4>1, <4>2
    <3>6. ASSUME NEW n \in 1..Len(ids') PROVE \E w \in Writers' : ids'[n] = Wf(w)'
      <4>1. CASE n = Len(ids) + 1
        BY <3>1, <4>1, <1>p
      <4>2. CASE n \in 1..Len(ids)
        <5>1. PICK w \in Writers : ids[n] = Wf(w)
          BY <2>0, <4>2 DEF IdsInv
        <5>2. QED
          BY <3>1, <4>2, <5>1, <1>p, <1>w
      <4>3. QED
        BY <4>1, <4>2, <3>1, <2>0
    <3>7. ASSUME NEW w \in Writers'
          PROVE  \E n \in 1..Len(ids') : ids'[n] = Wf(w)' /\ (n <= idPos' <=> Popped(w)')
      <4>1. CASE w = new
        <5>1. Len(ids) + 1 \in 1..Len(ids') /\ ~(Len(ids) + 1 <= idPos')
          BY <2>0, <3>1, <1>0, <1>f DEF IdsInv
        <5>2. QED
          BY <3>1, <4>1, <5>1, <1>p
      <4>2. CASE w \in Writers
        <5>1. PICK n \in 1..Len(ids) : ids[n] = Wf(w) /\ (n <= idPos <=> Popped(w))
          BY <2>0, <4>2 DEF IdsInv
        <5>2. n \in 1..Len(ids')
          BY <2>0, <3>1
        <5>3. QED
          BY <3>1, <4>2, <5>1, <5>2, <1>f, <1>p, <1>w
      <4>3. QED
        BY <4>1, <4>2, <1>w
    <3>8. QED
      BY <3>2, <3>4, <3>5, <3>6, <3>7 DEF IdsInv
  <2>2. CASE ~writer
    <3>1. ids' = ids /\ Writers' = Writers
      BY <2>2, <1>p
    <3>2. \A n \in 1..Len(ids) : ids[n] <= workflowId'
      <4>1. \A n \in 1..Len(ids) : ids[n] \in Workflow
        BY <2>0
      <4>2. \A n \in 1..Len(ids) : ids[n] \in Nat /\ ids[n] <= workflowId
        BY <4>1, <2>0 DEF IdsInv
      <4>3. QED
        BY <4>2, <1>0
    <3>3. \A n \in 1..Len(ids) : \E w \in Writers : ids[n] = Wf(w)'
      BY <2>0, <1>p, <1>w DEF IdsInv
    <3>4. \A w \in Writers : \E n \in 1..Len(ids) : ids[n] = Wf(w)' /\ (n <= idPos <=> Popped(w)')
      BY <2>0, <1>p, <1>w DEF IdsInv
    <3>5. QED
      BY <2>0, <3>1, <3>2, <3>3, <3>4, <1>f DEF IdsInv
  <2>3. QED
    BY <2>1, <2>2
<1>4. ExclusionInv'
  BY <1>p, <1>w DEF IInv, ExclusionInv
<1>5. GrantInv'
  <2>0. GrantInv
    BY DEF IInv
  <2>1. \A w \in Writers' : (Active(w) \/ Popped(w))' => AllBeforeLeft(w)'
    BY <2>0, <1>p, <1>w DEF GrantInv
  <2>2. \A w \in Writers' : messages'[w] > 0 => AllBeforeLeft(w)'
    BY <2>0, <1>f, <1>n, <1>p, <1>w DEF GrantInv
  <2>3. \A r \in Readers' :
          pc'[r] \in {"admitted", "done"} \/ seen'[r] # -1 \/ messages'[r] > 0 => BehindPopped(r)'
    BY <2>0, <1>f, <1>n, <1>p, <1>w DEF GrantInv
  <2>4. \A r \in Readers' : pc'[r] = "check" /\ firstId'[r] > Wf(r)' => BehindPopped(r)'
    BY <2>0, <1>f, <1>n, <1>p, <1>w DEF GrantInv
  <2>5. \A w \in Writers' : pc'[w] = "check" => readPos'[w] <= mReadPos'
    BY <2>0, <1>f, <1>n, <1>p, <1>w DEF GrantInv
  <2>6. QED
    BY <2>1, <2>2, <2>3, <2>4, <2>5 DEF GrantInv
<1>6. PositionInv'
  <2>0. PositionInv /\ 1..mReadPos \subseteq Pushed
    BY <1>0, Typed DEF IInv, PositionInv
  <2>1. mReadPos' <= Len(mWaiters')
    BY <2>0, <1>0, <1>f, <1>n DEF PositionInv
  <2>2. \A j \in 1..mReadPos' : Left(j)'
    BY <2>0, <1>f, <1>p DEF PositionInv
  <2>3. \A w \in Writers' : Popped(w)' /\ w > mReadPos' => pc'[w] = "skip"
    BY <2>0, <1>f, <1>p, <1>w DEF PositionInv
  <2>4. QED
    BY <2>1, <2>2, <2>3 DEF PositionInv
<1>7. ReleaseInv'
  <2>1. ReleaseAt(new)'
    BY <1>f, <1>n DEF ReleaseAt, Releasing, InUnlock, InWake
  <2>2. ASSUME NEW w \in Writers PROVE ReleaseAt(w)'
    <3>1. ReleaseAt(w) /\ pc'[w] = pc[w] /\ w \in Ticket
      BY <1>p, <1>w DEF IInv, ReleaseInv
    <3>2. /\ Readers \subseteq Readers' /\ Writers \subseteq Writers' /\ Scanned(w)' = Scanned(w)
          /\ \A j \in Readers : Left(j) => Left(j)'
      BY <1>f, <1>p, <1>w DEF Scanned
    <3>3. /\ mReadPos + count[w] <= Len(mWaiters) => mReadPos + count[w] <= Len(mWaiters')
          /\ mReadPos + count[w] < Len(mWaiters) => mReadPos + count[w] < Len(mWaiters')
      <4>1. count[w] \in Nat /\ Len(mWaiters') = Len(mWaiters) + 1
        BY <3>1, <1>0, <1>n DEF TypeOK
      <4>2. QED
        BY ONLY <4>1, <1>0
    <3>4. pc[w] = "skipReaders" => \A j \in Scanned(w) : Left(j)'
      <4>1. pc[w] = "skipReaders" => Scanned(w) \subseteq Readers
        BY <3>1 DEF ReleaseAt, InWake
      <4>2. QED
        BY <3>1, <3>2, <4>1 DEF ReleaseAt
    <3>5. QED
      BY <3>1, <3>2, <3>3, <3>4, <1>f DEF ReleaseAt
  <2>3. QED
    BY <2>1, <2>2, <1>w DEF ReleaseInv
<1>8. ReaderAccounting'
  <2>1. Finished' = Finished
    BY <1>f, <1>n, <1>p, <1>w DEF Finished
  <2>2. \A w \in Writers' : pc'[w] \in Releasing => w \in Writers /\ pc'[w] = pc[w]
    BY <1>n, <1>p, <1>w DEF Releasing, InUnlock, InWake
  <2>3. \A w \in Writers : w \in Writers' /\ pc'[w] = pc[w]
    BY <1>p, <1>w
  <2>4. QED
    BY <2>1, <2>2, <2>3, <1>f DEF IInv, ReaderAccounting
<1>9. ValueInv'
  <2>0. ValueInv
    BY DEF IInv
  <2>1. \A w \in written' : w \in Writers' /\ (pc'[w] \in Releasing \/ pc'[w] = "done")
    BY <2>0, <1>f, <1>p, <1>w DEF ValueInv
  <2>2. ObservedValue'
    BY <2>0, <1>f, <1>n, <1>w DEF ValueInv, ObservedValue
  <2>3. QED
    BY <2>0, <2>1, <2>2, <1>f DEF ValueInv
<1>10. QED
  BY <1>1, <1>2, <1>3, <1>4, <1>5, <1>6, <1>7, <1>8, <1>9 DEF IInv

(* The id that First() returns tells a reader that it has no writer left   *)
(* to wait for.                                                            *)
LEMMA FirstIdSays ==
  ASSUME IInv, NEW r \in Readers,
         IF idPos < Len(ids) THEN ids[idPos + 1] > Wf(r) ELSE TRUE
  PROVE  BehindPopped(r)
<1>0. /\ TypeOK /\ r \in Pushed /\ idPos \in Nat /\ Len(ids) \in Nat /\ ids \in Seq(Workflow)
      /\ Workflow \subseteq Nat /\ IdsInv /\ OrderInv
  <2>1. TypeOK /\ IdsInv /\ OrderInv
    BY DEF IInv
  <2>2. ids \in Seq(Workflow) /\ Workflow \subseteq Nat
    BY <2>1, ConstantsAssumption DEF TypeOK, Workflow
  <2>3. QED
    BY <2>1, <2>2, Typed
<1>i. \A n \in 1..Len(ids) : ids[n] \in Nat
  <2>1. \A n \in 1..Len(ids) : ids[n] \in Workflow
    BY <1>0
  <2>2. QED
    BY <2>1, <1>0
<1>1. SUFFICES ASSUME NEW w \in Writers, w < r PROVE Popped(w)
  BY DEF BehindPopped
<1>2. PICK n \in 1..Len(ids) : ids[n] = Wf(w) /\ (n <= idPos <=> Popped(w))
  BY <1>0 DEF IdsInv
<1>3. Wf(w) <= Wf(r) /\ Wf(w) \in Nat /\ Wf(r) \in Nat
  BY <1>0, <1>1, Typed DEF OrderInv
<1>4. CASE idPos < Len(ids)
  <2>1. ids[idPos + 1] > Wf(r) /\ ids[idPos + 1] \in Nat /\ idPos + 1 \in 1..Len(ids)
    BY <1>0, <1>4, <1>i
  <2>2. idPos + 1 # n /\ ids[n] < ids[idPos + 1]
    BY <2>1, <1>2, <1>3
  <2>3. ~(idPos + 1 < n)
    <3>1. SUFFICES ASSUME idPos + 1 < n PROVE FALSE
      OBVIOUS
    <3>2. ids[idPos + 1] < ids[n]
      BY <2>1, <3>1, <1>0 DEF IdsInv
    <3>3. QED
      BY <2>1, <2>2, <3>2, <1>i
  <2>4. QED
    BY <2>2, <2>3, <1>0, <1>2
<1>5. CASE ~(idPos < Len(ids))
  BY <1>0, <1>2, <1>5
<1>6. QED
  BY <1>4, <1>5

(* The position a writer read earlier and the counter it reads now name    *)
(* its own entry only when everything in front of it has left: the sum is  *)
(* never too far, whatever moved in between.                               *)
LEMMA RealFirstSays ==
  ASSUME IInv, NEW i \in Writers, pc[i] = "check", RealFirst(i) = i,
         \A v \in Writers : pc[v] \notin Releasing
  PROVE  AllBeforeLeft(i)
<1>0. /\ TypeOK /\ i \in Nat /\ mReadPos \in Nat /\ Cardinality(Finished) \in Nat
      /\ readPos[i] \in Nat /\ readPos[i] <= mReadPos
  BY Typed, FinishedFinite DEF IInv, GrantInv, TypeOK
<1>1. mReaders = - Cardinality(Finished)
  BY DEF IInv, ReaderAccounting
<1>2. readPos[i] + Cardinality(Finished) + 1 = i
  BY <1>0, <1>1 DEF RealFirst, At
<1>3. ~Popped(i)
  BY DEF Popped, InUnlock, InWake
<1>4. Cardinality(Finished) <= i - 1 - mReadPos
  BY <1>3, FinishedInFront
<1>5. Cardinality(Finished) = i - 1 - mReadPos
  BY <1>0, <1>2, <1>4
<1>6. QED
  BY <1>3, <1>5, FinishedInFront

(* A step of the dispatcher's hand-over or of a task that tries.           *)
LEMMA QuietSteps ==
  ASSUME IInv, TypeOK', NEW i \in Pushed,
         Dispatch(i) \/ Schedule(i) \/ ReadReadPos(i) \/ ReadFirstId(i) \/ Ignore(i)
  PROVE  IInv'
<1>0. TypeOK /\ i \in Ticket /\ pc \in [Ticket -> Label] /\ messages \in [Ticket -> Nat]
      /\ phase \in [Ticket -> Phase] /\ readPos \in [Ticket -> Nat]
      /\ DOMAIN firstId = Ticket
  BY Typed DEF IInv, TypeOK
<1>1. CASE Dispatch(i)
  <2>1. PICK label \in {"ready", "unschedulable"} :
          Goto(i, label) /\ (label = "unschedulable" => i \in Readers)
    BY <1>1 DEF Dispatch
  <2>2. UNCHANGED <<mWaiters, mReadPos, mReaders, ids, idPos, workflowId, count, cur,
                    written, value, seen, messages, readPos, firstId>>
    BY <1>1 DEF Dispatch, lockVars, passVars, localVars, wakeVars, dataVars
  <2>3. \A j \in Ticket : pc'[j] = IF j = i THEN label ELSE pc[j]
    BY <2>1, <1>0, GotoAt
  <2>4. /\ \A j \in Ticket : j # i => phase'[j] = phase[j]
        /\ i \in Writers => phase'[i] = phase[i]
    BY <1>0, <1>1, Typed DEF Dispatch
  <2>5. pc[i] \in Idle /\ label \in Idle /\ label # "check"
    BY <1>1 DEF Dispatch, Idle
  <2>6. QED
    BY <1>0, <2>1, <2>2, <2>3, <2>4, <2>5, QuietStep
<1>2. CASE Schedule(i)
  <2>1. Goto(i, "ready") /\ pc[i] \in Idle /\ "ready" \in Idle
    BY <1>2 DEF Schedule, Idle
  <2>2. UNCHANGED <<mWaiters, mReadPos, mReaders, ids, idPos, workflowId, count, cur,
                    written, value, seen, messages, readPos, firstId, phase>>
    BY <1>2 DEF Schedule, lockVars, passVars, localVars, wakeVars, dataVars
  <2>3. \A j \in Ticket : pc'[j] = IF j = i THEN "ready" ELSE pc[j]
    BY <2>1, <1>0, GotoAt
  <2>4. QED
    BY <1>0, <2>1, <2>2, <2>3, QuietStep
<1>3. CASE ReadReadPos(i)
  <2>1. Goto(i, "check") /\ pc[i] \in Idle /\ "check" \in Idle /\ i \in Writers /\ i \notin Readers
    BY <1>0, <1>3, Typed DEF ReadReadPos, Idle
  <2>2. UNCHANGED <<mWaiters, mReadPos, mReaders, ids, idPos, workflowId, count, cur,
                    written, value, seen, messages, firstId, phase>>
    BY <1>3 DEF ReadReadPos, lockVars, passVars, wakeVars, dataVars
  <2>3. \A j \in Ticket : pc'[j] = IF j = i THEN "check" ELSE pc[j]
    BY <2>1, <1>0, GotoAt
  <2>4. readPos'[i] = mReadPos /\ \A j \in Ticket : j # i => readPos'[j] = readPos[j]
    BY <1>0, <1>3 DEF ReadReadPos
  <2>5. readPos'[i] <= mReadPos /\ \A j \in Ticket : messages'[j] <= messages[j]
    BY <1>0, <2>2, <2>4, Typed
  <2>6. QED
    BY <1>0, <2>1, <2>2, <2>3, <2>4, <2>5, QuietStep
<1>4. CASE ReadFirstId(i)
  <2>1. Goto(i, "check") /\ pc[i] \in Idle /\ "check" \in Idle /\ i \in Readers /\ i \notin Writers
    BY <1>0, <1>4, Typed DEF ReadFirstId, Idle
  <2>2. UNCHANGED <<mWaiters, mReadPos, mReaders, ids, idPos, workflowId, count, cur,
                    written, value, seen, messages, readPos, phase>>
    BY <1>4 DEF ReadFirstId, lockVars, passVars, wakeVars, dataVars
  <2>3. \A j \in Ticket : pc'[j] = IF j = i THEN "check" ELSE pc[j]
    BY <2>1, <1>0, GotoAt
  <2>4. PICK id \in IF idPos < Len(ids) THEN {ids[idPos + 1]} ELSE StaleIds :
          firstId' = [firstId EXCEPT ![i] = id]
    BY <1>4 DEF ReadFirstId
  <2>5. firstId'[i] = id /\ \A j \in Ticket : j # i => firstId'[j] = firstId[j]
    BY <1>0, <2>4
  <2>6. ASSUME id > Wf(i) PROVE BehindPopped(i)
    <3>1. IF idPos < Len(ids) THEN ids[idPos + 1] > Wf(i) ELSE TRUE
      BY <2>6
    <3>2. QED
      BY <2>1, <3>1, FirstIdSays
  <2>7. firstId'[i] > Wf(i) => BehindPopped(i)
    BY <2>5, <2>6
  <2>8. \A j \in Ticket : messages'[j] <= messages[j]
    BY <1>0, <2>2
  <2>9. QED
    BY <1>0, <2>1, <2>2, <2>3, <2>5, <2>7, <2>8, QuietStep
<1>5. CASE Ignore(i)
  <2>1. UNCHANGED <<mWaiters, mReadPos, mReaders, ids, idPos, workflowId, count, cur,
                    written, value, seen, pc, readPos, firstId, phase>>
    BY <1>5 DEF Ignore, lockVars, passVars, localVars, dataVars
  <2>2. pc[i] \in Idle /\ pc[i] # "check" /\ (pc[i] = "unschedulable" => i \in Readers)
    BY <1>0, <1>5, Typed DEF Ignore, Idle, IInv, LabelsInv
  <2>3. \A j \in Ticket : messages'[j] <= messages[j]
    BY <1>0, <1>5 DEF Ignore, Take
  <2>4. \A j \in Ticket : pc'[j] = IF j = i THEN pc[i] ELSE pc[j]
    BY <2>1
  <2>5. QED
    BY <1>0, <2>1, <2>2, <2>3, <2>4, QuietStep
<1>6. QED
  BY <1>1, <1>2, <1>3, <1>4, <1>5

(* TryLock4 comes to its answer.                                           *)
LEMMA LoadReadersStep ==
  ASSUME IInv, TypeOK', NEW i \in Pushed, LoadReaders(i), SerialAdmission
  PROVE  IInv'
<1>0. /\ TypeOK /\ i \in Ticket /\ i \in Writers /\ i \notin Readers /\ pc[i] = "check"
      /\ pc[i] \in Idle /\ pc \in [Ticket -> Label]
      /\ UNCHANGED <<mWaiters, mReadPos, mReaders, ids, idPos, workflowId, phase, firstId,
                     count, cur, messages, written, value, seen>>
  BY Typed DEF IInv, TypeOK, LoadReaders, Idle, lockVars, passVars, wakeVars, dataVars
<1>1. \A j \in Ticket : j # i => readPos'[j] = readPos[j]
  BY <1>0 DEF LoadReaders, TypeOK
<1>2. \A j \in Ticket : messages'[j] <= messages[j]
  BY <1>0 DEF TypeOK
<1>3. CASE RealFirst(i) = i
  <2>1. \A j \in Ticket : pc'[j] = IF j = i THEN "holding" ELSE pc[j]
    BY <1>0, <1>3, GotoAt DEF LoadReaders
  <2>2. \A v \in Writers : pc[v] \notin Releasing
    BY <1>0, <2>1, Typed DEF SerialAdmission, Admits
  <2>3. AllBeforeLeft(i)
    BY <1>0, <1>3, <2>2, RealFirstSays
  <2>4. QED
    BY <1>0, <1>1, <1>2, <2>1, <2>2, <2>3, AdmitWriter
<1>4. CASE RealFirst(i) # i
  <2>1. /\ \A j \in Ticket : pc'[j] = IF j = i THEN "suspended" ELSE pc[j]
        /\ "suspended" \in Idle
    BY <1>0, <1>4, GotoAt DEF LoadReaders, Idle
  <2>2. QED
    BY <1>0, <1>1, <1>2, <2>1, QuietStep
<1>5. QED
  BY <1>3, <1>4

(* TrySharedLock4 comes to its answer.                                     *)
LEMMA ReadEmptyStep ==
  ASSUME IInv, TypeOK', NEW i \in Pushed, ReadEmpty(i)
  PROVE  IInv'
<1>0. /\ TypeOK /\ i \in Ticket /\ i \in Readers /\ i \notin Writers /\ pc[i] = "check"
      /\ pc[i] \in Idle /\ pc \in [Ticket -> Label]
      /\ UNCHANGED <<mWaiters, mReadPos, mReaders, ids, idPos, workflowId, readPos,
                     count, cur, messages, written, value, seen>>
  BY Typed DEF IInv, TypeOK, ReadEmpty, Idle, lockVars, passVars, wakeVars, dataVars
<1>1. \A j \in Ticket : j # i => firstId'[j] = firstId[j]
  BY <1>0 DEF ReadEmpty, TypeOK
<1>2. \A j \in Ticket : messages'[j] <= messages[j]
  BY <1>0 DEF TypeOK
<1>3. CASE hasLock(i)
  <2>1. \A j \in Ticket : pc'[j] = IF j = i THEN "admitted" ELSE pc[j]
    BY <1>0, <1>3, GotoAt DEF ReadEmpty
  <2>2. BehindPopped(i) /\ UNCHANGED phase
    <3>1. CASE idPos = Len(ids)
      <4>1. ~(idPos < Len(ids))
        BY <3>1, <1>0, Typed
      <4>2. QED
        BY <4>1, <1>0, <1>3, FirstIdSays DEF ReadEmpty
    <3>2. CASE firstId[i] > Wf(i)
      BY <3>2, <1>0, <1>3 DEF IInv, GrantInv, ReadEmpty
    <3>3. QED
      BY <1>3, <3>1, <3>2 DEF hasLock
  <2>3. QED
    BY <1>0, <1>1, <1>2, <2>1, <2>2, AdmitReader
<1>4. CASE ~hasLock(i)
  <2>1. PICK label \in {"ready", "suspended"} :
          /\ Goto(i, label)
          /\ UNCHANGED phase \/ phase' = [phase EXCEPT ![i] = "defer"]
    BY <1>4 DEF ReadEmpty
  <2>2. /\ \A j \in Ticket : pc'[j] = IF j = i THEN label ELSE pc[j]
        /\ label \in Idle /\ label # "check" /\ label # "unschedulable"
    BY <1>0, <2>1, GotoAt DEF Idle
  <2>3. \A j \in Ticket : j # i => phase'[j] = phase[j]
    BY <1>0, <2>1 DEF TypeOK
  <2>4. QED
    BY <1>0, <1>1, <1>2, <2>2, <2>3, QuietStep
<1>5. QED
  BY <1>3, <1>4

(* A task that waited is resumed by a wake-up: what it was sent still      *)
(* holds when it arrives.                                                  *)
LEMMA ResumeStep ==
  ASSUME IInv, TypeOK', NEW i \in Pushed, Resume(i), SerialAdmission
  PROVE  IInv'
<1>0. /\ TypeOK /\ i \in Ticket /\ pc[i] = "suspended" /\ pc[i] \in Idle
      /\ pc \in [Ticket -> Label] /\ messages[i] > 0
      /\ UNCHANGED <<mWaiters, mReadPos, mReaders, ids, idPos, workflowId, readPos, firstId,
                     phase, count, cur, written, value, seen>>
  BY Typed DEF IInv, TypeOK, Resume, Take, Idle, lockVars, passVars, localVars, dataVars
<1>1. \A j \in Ticket : messages'[j] <= messages[j]
  BY <1>0, SMTT(30) DEF Resume, Take, TypeOK
<1>2. CASE i \in Writers
  <2>1. \A j \in Ticket : pc'[j] = IF j = i THEN "holding" ELSE pc[j]
    BY <1>0, <1>2, GotoAt DEF Resume
  <2>2. \A v \in Writers : pc[v] \notin Releasing
    BY <1>0, <2>1, Typed DEF SerialAdmission, Admits
  <2>3. AllBeforeLeft(i)
    BY <1>0, <1>2 DEF IInv, GrantInv
  <2>4. QED
    BY <1>0, <1>1, <1>2, <2>1, <2>2, <2>3, AdmitWriter
<1>3. CASE i \notin Writers
  <2>1. /\ \A j \in Ticket : pc'[j] = IF j = i THEN "admitted" ELSE pc[j]
        /\ i \in Readers
    BY <1>0, <1>3, GotoAt, Typed DEF Resume
  <2>2. BehindPopped(i)
    BY <1>0, <2>1 DEF IInv, GrantInv
  <2>3. QED
    BY <1>0, <1>1, <2>1, <2>2, AdmitReader
<1>4. QED
  BY <1>2, <1>3

(* A reader releases, at its end or when its deferred access is granted.   *)
LEMMA ReaderEndSteps ==
  ASSUME IInv, TypeOK', NEW i \in Pushed, UnlockShared(i) \/ CompleteDeffered(i)
  PROVE  IInv'
<1>1. /\ Finish(i) /\ mReaders' = mReaders - 1
      /\ UNCHANGED <<mWaiters, mReadPos, ids, idPos, workflowId, localVars, dataVars>>
  BY DEF UnlockShared, CompleteDeffered, passVars
<1>2. i \in Readers
  <2>1. phase[i] = "defer" => i \notin Writers
    BY DEF IInv, LabelsInv
  <2>2. QED
    BY <2>1, Typed DEF UnlockShared, CompleteDeffered, IInv
<1>3. BehindPopped(i) /\ pc[i] # "done"
  BY <1>2 DEF UnlockShared, CompleteDeffered, IInv, GrantInv
<1>4. QED
  BY <1>1, <1>2, <1>3, EndReader

(* Every step of a task, alone or for a wake-up, keeps the invariant.      *)
LEMMA TicketOrder ==
  ASSUME IInv, TypeOK', NEW i \in Pushed, TicketStep(i), SerialAdmission
  PROVE  IInv'
<1>1. CASE Dispatch(i) \/ Schedule(i) \/ ReadReadPos(i) \/ ReadFirstId(i) \/ Ignore(i)
  BY <1>1, QuietSteps
<1>2. CASE LoadReaders(i)
  BY <1>2, LoadReadersStep
<1>3. CASE Process(i)
  BY <1>3, ProcessStep
<1>4. CASE UnlockWalk(i)
  BY <1>4, UnlockWalkStep
<1>5. CASE CountFinished(i)
  BY <1>5, CountFinishedStep
<1>6. CASE PopId(i)
  BY <1>6, PopIdStep
<1>7. CASE SkipOwn(i)
  BY <1>7, SkipOwnStep
<1>8. CASE WakeValid(i)
  BY <1>8, WakeValidStep
<1>9. CASE WakeFirst(i)
  BY <1>9, WakeFirstStep
<1>10. CASE WakeReader(i)
  BY <1>10, WakeReaderStep
<1>11. CASE WakeWriter(i)
  BY <1>11, WakeWriterStep
<1>12. CASE SkipReaders(i)
  BY <1>12, SkipReadersStep
<1>13. CASE Enqueue(i)
  BY <1>13, EnqueueStep
<1>14. CASE EndWake(i)
  BY <1>14, EndWakeStep
<1>15. CASE ReadEmpty(i)
  BY <1>15, ReadEmptyStep
<1>16. CASE ReadValue(i)
  BY <1>16, ReadValueStep
<1>17. CASE UnlockShared(i) \/ CompleteDeffered(i)
  BY <1>17, ReaderEndSteps
<1>18. CASE Resume(i)
  BY <1>18, ResumeStep
<1>19. QED
  BY <1>1, <1>2, <1>3, <1>4, <1>5, <1>6, <1>7, <1>8, <1>9, <1>10, <1>11, <1>12, <1>13, <1>14,
     <1>15, <1>16, <1>17, <1>18
     DEF TicketStep, WriterStep, ReaderStep, MessageStep

(* A pass of the dispatcher: its workflow id is larger than all before it, *)
(* and the node's own task is registered before the readers.               *)
LEMMA DispatcherOrder ==
  ASSUME IInv, TypeOK',
         \/ Lock
         \/ \E reached \in SUBSET Successors \ {{}} : PassBy(reached)
         \/ \E s \in Successors : LockShared(s)
  PROVE  IInv'
<1>0. TypeOK /\ workflowId \in Nat
  BY Typed DEF IInv
<1>1. CASE Lock
  <2>1. \E flow, new : flow = workflowId' /\ new = Len(mWaiters) + 1
    OBVIOUS
  <2>2. PICK flow, new : flow = workflowId' /\ new = Len(mWaiters) + 1
    BY <2>1
  <2>3. Push(flow, TRUE, OWNER) /\ ids' = Append(ids, flow) /\ workflowId < flow
    BY <1>0, <1>1, <2>2 DEF Lock, Push
  <2>4. workflowId <= flow /\ TRUE \in BOOLEAN
    BY <1>0, <1>1, <2>2 DEF Lock
  <2>5. QED
    BY <2>2, <2>3, <2>4, PushStep
<1>2. CASE \E reached \in SUBSET Successors \ {{}} : PassBy(reached)
  <2>0. PICK reached \in SUBSET Successors \ {{}} : PassBy(reached)
    BY <1>2
  <2>1. /\ workflowId' = workflowId + 1
        /\ UNCHANGED <<mWaiters, mReadPos, mReaders, ids, idPos, pc, phase, readPos, firstId,
                       count, cur, messages, written, value, seen>>
    BY <2>0 DEF PassBy, lockVars, localVars, wakeVars, dataVars
  <2>2. /\ Pushed' = Pushed /\ Writers' = Writers /\ Readers' = Readers
        /\ \A j : Wf(j)' = Wf(j)
    BY <2>1, SameQueue
  <2>3. /\ \A j : (Popped(j)' <=> Popped(j)) /\ (Active(j)' <=> Active(j))
        /\ \A j : Left(j)' <=> Left(j)
    BY <2>1, <2>2 DEF Popped, Active, Left, InUnlock, InWake
  <2>4. \A j : (BehindPopped(j)' <=> BehindPopped(j)) /\ (AllBeforeLeft(j)' <=> AllBeforeLeft(j))
    BY <2>2, <2>3 DEF BehindPopped, AllBeforeLeft
  <2>5. LabelsInv'
    BY <2>1, <2>2 DEF IInv, LabelsInv, Ticket
  <2>6. OrderInv'
    <3>1. \A j \in Pushed : Wf(j) <= workflowId'
      BY <1>0, <2>1, Typed DEF IInv, OrderInv
    <3>2. QED
      BY <2>2, <3>1 DEF IInv, OrderInv
  <2>7. IdsInv'
    <3>1. ids \in Seq(Workflow) /\ Workflow \subseteq Nat
      BY <1>0, ConstantsAssumption DEF TypeOK, Workflow
    <3>2. \A n \in 1..Len(ids) : ids[n] \in Workflow
      BY <3>1
    <3>3. \A n \in 1..Len(ids) : ids[n] \in Nat /\ ids[n] <= workflowId
      BY <3>1, <3>2 DEF IInv, IdsInv
    <3>4. \A n \in 1..Len(ids) : ids[n] <= workflowId'
      BY <3>3, <2>1, <1>0
    <3>5. QED
      BY <2>1, <2>2, <2>3, <3>4 DEF IInv, IdsInv
  <2>8. ExclusionInv'
    BY <2>2, <2>3 DEF IInv, ExclusionInv
  <2>9. GrantInv'
    BY <2>1, <2>2, <2>3, <2>4 DEF IInv, GrantInv
  <2>10. PositionInv'
    BY <2>1, <2>2, <2>3 DEF IInv, PositionInv
  <2>11. ReleaseInv'
    BY <1>0, <2>1, <2>3, ReleaseKept DEF IInv
  <2>12. ReaderAccounting'
    BY <2>1, <2>2 DEF IInv, ReaderAccounting, Finished
  <2>13. ValueInv'
    BY <2>1, <2>2 DEF IInv, ValueInv, ObservedValue
  <2>14. QED
    BY <2>5, <2>6, <2>7, <2>8, <2>9, <2>10, <2>11, <2>12, <2>13 DEF IInv
<1>3. CASE \E s \in Successors : LockShared(s)
  <2>0. PICK s \in Successors : LockShared(s)
    BY <1>3
  <2>2. PICK flow, new : flow = workflowId' /\ new = Len(mWaiters) + 1
    OBVIOUS
  <2>3. Push(flow, FALSE, s) /\ ids' = ids /\ workflowId <= flow /\ FALSE \in BOOLEAN
    BY <1>0, <2>0, <2>2 DEF LockShared, Push
  <2>4. QED
    BY <2>2, <2>3, PushStep
<1>4. QED
  BY <1>1, <1>2, <1>3

(* An empty queue satisfies the invariant.                                 *)
LEMMA InitOrder == Init => IInv
<1> SUFFICES ASSUME Init PROVE IInv
  OBVIOUS
<1>1. TypeOK
  BY InitType
<1>2. Pushed = {} /\ Writers = {} /\ Readers = {} /\ Len(mWaiters) = 0 /\ Len(ids) = 0
  BY DEF Init, Pushed, Writers, Readers
<1>3. LabelsInv
  BY <1>2 DEF Init, LabelsInv
<1>4. OrderInv /\ ExclusionInv /\ GrantInv /\ ReleaseInv
  BY <1>2 DEF OrderInv, ExclusionInv, GrantInv, ReleaseInv, ReleaseAt
<1>5. IdsInv
  BY <1>2 DEF Init, IdsInv
<1>6. PositionInv
  BY <1>2 DEF Init, PositionInv
<1>7. ReaderAccounting
  <2>1. Finished = {}
    BY <1>2 DEF Finished
  <2>2. QED
    BY <1>2, <2>1, FS_EmptySet DEF Init, ReaderAccounting
<1>8. ValueInv
  BY <1>2 DEF Init, ValueInv, ObservedValue
<1>9. QED
  BY <1>1, <1>3, <1>4, <1>5, <1>6, <1>7, <1>8 DEF IInv

(* Every step of SerialSpec keeps the invariant.                           *)
LEMMA SerialOrder == IInv /\ [SerialNext]_vars => IInv'
<1> SUFFICES ASSUME IInv, [SerialNext]_vars PROVE IInv'
  OBVIOUS
<1>1. TypeOK'
  BY NextType DEF IInv, SerialNext
<1>2. CASE SerialNext
  <2>1. CASE \E i \in Pushed : TicketStep(i)
    BY <1>1, <1>2, <2>1, TicketOrder DEF SerialNext
  <2>2. QED
    BY <1>1, <1>2, <2>1, DispatcherOrder DEF SerialNext, Next
<1>3. CASE UNCHANGED vars
  <2>1. UNCHANGED <<mWaiters, mReadPos, mReaders, ids, idPos, workflowId, pc, phase, readPos,
                    firstId, count, cur, messages, written, value, seen>>
    BY <1>3 DEF vars, lockVars, passVars, localVars, wakeVars, dataVars
  <2>2. /\ Pushed' = Pushed /\ Writers' = Writers /\ Readers' = Readers
        /\ \A j : Wf(j)' = Wf(j)
    BY <2>1, SameQueue
  <2>3. /\ \A j : (Popped(j)' <=> Popped(j)) /\ (Active(j)' <=> Active(j))
        /\ \A j : Left(j)' <=> Left(j)
    BY <2>1, <2>2 DEF Popped, Active, Left, InUnlock, InWake
  <2>4. \A j : (BehindPopped(j)' <=> BehindPopped(j)) /\ (AllBeforeLeft(j)' <=> AllBeforeLeft(j))
    BY <2>2, <2>3 DEF BehindPopped, AllBeforeLeft
  <2>5. LabelsInv' /\ OrderInv'
    BY <2>1, <2>2 DEF IInv, LabelsInv, OrderInv, Ticket
  <2>6. IdsInv' /\ ExclusionInv'
    BY <2>1, <2>2, <2>3 DEF IInv, IdsInv, ExclusionInv
  <2>7. GrantInv'
    BY <2>1, <2>2, <2>3, <2>4 DEF IInv, GrantInv
  <2>8. PositionInv' /\ ReleaseInv'
    <3>1. PositionInv'
      BY <2>1, <2>2, <2>3 DEF IInv, PositionInv
    <3>2. QED
      BY <3>1, <2>1, <2>3, ReleaseKept DEF IInv
  <2>9. ReaderAccounting' /\ ValueInv'
    BY <2>1, <2>2 DEF IInv, ReaderAccounting, Finished, ValueInv, ObservedValue
  <2>10. QED
    BY <1>1, <2>5, <2>6, <2>7, <2>8, <2>9 DEF IInv
<1>4. QED
  BY <1>2, <1>3

(* While no writer is admitted beside one that releases, the queue, the    *)
(* counters, what tasks have read and what wake-ups grant fit together.    *)
THEOREM LockInvariant == SerialSpec => []IInv
  BY InitOrder, SerialOrder, PTL DEF SerialSpec

(* The invariant implies the lock order.                                   *)
LEMMA InvariantOrders == IInv => OrderedAdmission
<1> SUFFICES ASSUME IInv, NEW i \in Pushed, Inside(i),
                    NEW j \in 1..(i - 1), i \in Writers \/ j \in Writers
             PROVE  Left(j)
  BY DEF OrderedAdmission
<1>0. TypeOK /\ j \in Pushed /\ j < i
  BY Typed DEF IInv
<1>1. CASE i \in Writers
  <2>1. AllBeforeLeft(i)
    BY <1>1 DEF Inside, IInv, GrantInv, Active, Releasing, InUnlock, InWake
  <2>2. QED
    BY <2>1 DEF AllBeforeLeft
<1>2. CASE i \notin Writers
  <2>1. i \in Readers /\ j \in Writers
    BY <1>0, <1>2, Typed
  <2>2. BehindPopped(i)
    BY <2>1, <1>2 DEF Inside, IInv, GrantInv
  <2>3. QED
    BY <1>0, <2>1, <2>2 DEF BehindPopped, Left
<1>3. QED
  BY <1>1, <1>2

(* Whoever uses a node's value under a lock does so after every access     *)
(* that conflicts with it and was registered before it: positions read     *)
(* separately from the counter, ids compared without a lock and wake-ups   *)
(* taken unchecked never admit a task out of its turn.                     *)
THEOREM AccessesAreOrdered == SerialSpec => []OrderedAdmission
  BY LockInvariant, InvariantOrders, PTL

(* Every reader finds the value that the last accepted writer before it in *)
(* the queue has stored, so the readers of one workflow agree.             *)
THEOREM ReadersAgree == SerialSpec => []ObservedValue
<1>1. IInv => ObservedValue
  BY DEF IInv, ValueInv
<1>2. QED
  BY <1>1, LockInvariant, PTL

(* mReaders is exact: minus the readers finished past the read position,   *)
(* plus what the writer that releases has added and not settled.           *)
THEOREM ReadersCounted == SerialSpec => []ReaderAccounting
<1>1. IInv => ReaderAccounting
  BY DEF IInv
<1>2. QED
  BY <1>1, LockInvariant, PTL

(* A workflow has at most one writer.                                      *)
LEMMA OneWriter ==
  ASSUME IInv, NEW v \in Writers, NEW w \in Writers, Wf(v) = Wf(w)
  PROVE  v = w
<1>1. v \in Pushed /\ w \in Pushed /\ v \in Nat /\ w \in Nat /\ Wf(v) \in Nat
  BY Typed DEF IInv
<1>2. ~(v < w) /\ ~(w < v)
  BY <1>1 DEF IInv, OrderInv
<1>3. QED
  BY <1>1, <1>2

(* The readers of a writer's workflow are behind it.                       *)
LEMMA ReadersBehind ==
  ASSUME IInv, NEW w \in Writers, NEW r \in Readers, Wf(r) = Wf(w)
  PROVE  w < r
<1>1. /\ r \in Pushed /\ w \in Pushed /\ r \in Nat /\ w \in Nat /\ Wf(w) \in Nat
      /\ r # w
  BY Typed DEF IInv
<1>2. ~(r < w)
  BY <1>1 DEF IInv, OrderInv
<1>3. QED
  BY <1>1, <1>2

(* While one writer releases, the others tell nobody anything new.         *)
LEMMA OthersTell ==
  ASSUME IInv, NEW i \in Writers, Active(i),
         NEW v \in Writers, v # i, pc'[v] = pc[v], NEW r \in Readers
  PROVE  Told(v, r)' <=> Told(v, r)
<1>1. ~Active(v)
  BY DEF IInv, ExclusionInv
<1>2. QED
  BY <1>1 DEF Told, Active, Releasing, InUnlock, InWake

(* A step that tells nobody of the writer's workflow anything and counts   *)
(* nothing down keeps the counts.                                          *)
LEMMA CountsKept ==
  ASSUME TypeOK, CountsInv,
         UNCHANGED <<mWaiters, workflowId, toPush, waitingLockCount>>,
         toPush = {} \/ \A w \in Writers : pc[w] = "queued" => pc'[w] = "queued",
         \A w \in Writers, r \in Readers : Wf(w) = Wf(r) => (Told(w, r)' <=> Told(w, r))
  PROVE  CountsInv'
<1>1. /\ Pushed' = Pushed /\ Writers' = Writers /\ Readers' = Readers
      /\ \A j : Wf(j)' = Wf(j)
  BY SameQueue
<1>2. toPush' # {} => \A w \in Writers' : Wf(w)' = workflowId' => pc'[w] = "queued"
  BY <1>1 DEF CountsInv
<1>3. \A r \in Readers : (\E w \in Writers : Wf(w)' = Wf(r)' /\ ~Told(w, r)')
                            <=> \E w \in Writers : Wf(w) = Wf(r) /\ ~Told(w, r)
  BY <1>1
<1>4. \A r \in Readers' :
        waitingLockCount'[r] = IF \E w \in Writers' : Wf(w)' = Wf(r)' /\ ~Told(w, r)' THEN 1 ELSE 0
  BY <1>1, <1>3 DEF CountsInv
<1>5. QED
  BY <1>2, <1>4 DEF CountsInv

(* Where a writer has told nobody anything yet.                            *)
Untold == {"queued", "ready", "check", "suspended", "holding"} \cup InUnlock

(* The steps of readers, and of writers before Wake.                       *)
LEMMA QuietCounts ==
  ASSUME IInv, CountsInv, NEW i \in Pushed,
         UNCHANGED <<mWaiters, workflowId, toPush, mReadPos, cur, waitingLockCount>>,
         \A j \in Pushed : j # i => pc'[j] = pc[j] /\ count'[j] = count[j],
         i \in Readers \/ (pc[i] \in Untold /\ pc'[i] \in Untold),
         toPush = {} \/ pc[i] # "queued" \/ pc'[i] = "queued"
  PROVE  CountsInv'
<1>1. TypeOK /\ Writers \subseteq Pushed /\ Writers \cap Readers = {}
  BY Typed DEF IInv
<1>2. ASSUME NEW w \in Writers, NEW r \in Readers PROVE Told(w, r)' <=> Told(w, r)
  <2>1. CASE w = i
    BY <2>1, <1>1 DEF Told, Untold, InUnlock
  <2>2. CASE w # i
    BY <2>2, <1>1 DEF Told
  <2>3. QED
    BY <2>1, <2>2
<1>3. toPush = {} \/ \A w \in Writers : pc[w] = "queued" => pc'[w] = "queued"
  BY <1>1
<1>4. QED
  BY <1>1, <1>2, <1>3, CountsKept

LEMMA QuietCountsSteps ==
  ASSUME IInv, CountsInv, NEW i \in Pushed,
         \/ Dispatch(i) \/ Schedule(i) \/ ReadReadPos(i) \/ LoadReaders(i)
         \/ Process(i) \/ UnlockWalk(i) \/ CountFinished(i) \/ PopId(i)
         \/ ReaderStep(i) \/ MessageStep(i)
  PROVE  CountsInv'
<1>0. /\ TypeOK /\ i \in Ticket /\ Pushed \subseteq Ticket /\ pc \in [Ticket -> Label]
      /\ count \in [Ticket -> Nat]
      /\ Writers \cap Readers = {} /\ Pushed = Writers \cup Readers
  BY Typed DEF IInv, TypeOK
<1>1. UNCHANGED <<mWaiters, workflowId, toPush, mReadPos, cur, waitingLockCount>>
  BY DEF Dispatch, Schedule, ReadReadPos, LoadReaders, Process, UnlockWalk,
         CountFinished, PopId, ReaderStep,
         ReadFirstId, ReadEmpty, ReadValue, UnlockShared, MessageStep, Resume,
         CompleteDeffered, Ignore, Take, lockVars, passVars, localVars, wakeVars
<1>2. \A j \in Pushed : j # i => pc'[j] = pc[j] /\ count'[j] = count[j]
  <2>1. (\E label : Goto(i, label)) \/ pc' = pc
    BY DEF Dispatch, Schedule, ReadReadPos, LoadReaders, Process, UnlockWalk,
         CountFinished, PopId, ReaderStep,
           ReadFirstId, ReadEmpty, ReadValue, UnlockShared, MessageStep, Resume,
           CompleteDeffered, Ignore, Finish
  <2>2. count' = count \/ count' = [count EXCEPT ![i] = @ + 1]
    BY DEF Dispatch, Schedule, ReadReadPos, LoadReaders, Process, UnlockWalk,
         CountFinished, PopId, ReaderStep,
           ReadFirstId, ReadEmpty, ReadValue, UnlockShared, MessageStep, Resume,
           CompleteDeffered, Ignore, localVars
  <2>3. \A j \in Pushed : j # i => pc'[j] = pc[j]
    BY <1>0, <2>1 DEF Goto
  <2>4. \A j \in Pushed : j # i => count'[j] = count[j]
    BY <1>0, <2>2
  <2>5. QED
    BY <2>3, <2>4
<1>3. i \in Readers \/ (pc[i] \in Untold /\ pc'[i] \in Untold)
  <2> SUFFICES ASSUME i \notin Readers PROVE pc[i] \in Untold /\ pc'[i] \in Untold
    OBVIOUS
  <2>0. /\ i \in Writers /\ phase[i] = "none"
        /\ pc[i] # "unschedulable"
    BY <1>0 DEF IInv, LabelsInv
  <2>1. CASE Dispatch(i) \/ Resume(i) \/ Ignore(i)
    BY <1>0, <2>0, <2>1, GotoAt DEF Dispatch, Resume, Ignore, Untold
  <2>2. CASE ReadReadPos(i) \/ LoadReaders(i) \/ Process(i)
    <3>1. PICK label \in {"check", "holding", "suspended", "unlocking"} : Goto(i, label)
      BY <2>2 DEF ReadReadPos, LoadReaders, Process
    <3>2. pc[i] \in Untold
      BY <2>2 DEF ReadReadPos, LoadReaders, Process, Untold
    <3>3. QED
      BY <1>0, <3>1, <3>2, GotoAt DEF Untold, InUnlock
  <2>3. CASE UnlockWalk(i) \/ CountFinished(i) \/ PopId(i)
    <3>1. PICK label \in InUnlock : Goto(i, label)
      BY <2>3 DEF UnlockWalk, CountFinished, PopId, InUnlock
    <3>2. pc[i] \in Untold
      BY <2>3 DEF UnlockWalk, CountFinished, PopId, Untold, InUnlock
    <3>3. QED
      BY <1>0, <3>1, <3>2, GotoAt DEF Untold
  <2>4. QED
    BY <2>0, <2>1, <2>2, <2>3 DEF Schedule, ReaderStep, ReadFirstId, ReadEmpty, ReadValue,
       UnlockShared, MessageStep, CompleteDeffered
<1>4. toPush = {} \/ pc[i] # "queued" \/ pc'[i] = "queued"
  BY DEF Dispatch, Schedule, ReadReadPos, LoadReaders, Process, UnlockWalk,
         CountFinished, PopId, ReaderStep,
         ReadFirstId, ReadEmpty, ReadValue, UnlockShared, MessageStep, Resume,
         CompleteDeffered, Ignore
<1>5. QED
  BY <1>1, <1>2, <1>3, <1>4, QuietCounts

(* Unlock ends and Wake begins: all readers of the writer are still to be  *)
(* told.                                                                   *)
LEMMA SkipOwnCounts ==
  ASSUME IInv, CountsInv, NEW i \in Pushed, SkipOwn(i)
  PROVE  CountsInv'
<1>t. /\ TypeOK /\ i \in Ticket /\ pc \in [Ticket -> Label] /\ count \in [Ticket -> Nat]
      /\ Writers \subseteq Ticket
  BY Typed DEF IInv, TypeOK
<1>0. /\ TypeOK /\ i \in Writers /\ i \in Ticket /\ i \in Nat /\ pc[i] = "skip"
      /\ mReadPos' = mReadPos + count[i] + 1 /\ count'[i] = 0
      /\ \A j \in Ticket : pc'[j] = IF j = i THEN "wake" ELSE pc[j]
      /\ UNCHANGED <<mWaiters, workflowId, toPush, waitingLockCount>>
      /\ Writers \subseteq Ticket
  BY <1>t, Typed, GotoAt DEF SkipOwn, passVars, wakeVars
<1>1. mReadPos' = i /\ Active(i)
  BY <1>0 DEF IInv, ReleaseInv, Active, Releasing, InUnlock, InWake, ReleaseAt
<1>2. ASSUME NEW w \in Writers, NEW r \in Readers, Wf(w) = Wf(r)
      PROVE  Told(w, r)' <=> Told(w, r)
  <2>1. CASE w = i
    <3>1. i < r /\ r \in Nat
      BY <1>0, <1>2, <2>1, ReadersBehind, Typed
    <3>2. ~(r <= mReadPos' + count'[i])
      BY <1>0, <1>1, <3>1
    <3>3. QED
      BY <1>0, <2>1, <3>2 DEF Told
  <2>2. CASE w # i
    BY <1>0, <1>1, <2>2, OthersTell
  <2>3. QED
    BY <2>1, <2>2
<1>3. \A w \in Writers : pc[w] = "queued" => pc'[w] = "queued"
  BY <1>0
<1>4. QED
  BY <1>0, <1>2, <1>3, CountsKept

(* Wake looks at the next entry, or finds none and has told all.           *)
LEMMA WakeValidCounts ==
  ASSUME IInv, CountsInv, NEW i \in Pushed, WakeValid(i)
  PROVE  CountsInv'
<1>0. /\ TypeOK /\ i \in Writers /\ i \in Ticket /\ pc[i] = "wake"
      /\ UNCHANGED <<mWaiters, mReadPos, workflowId, toPush, waitingLockCount, count>>
      /\ Writers \subseteq Ticket /\ pc \in [Ticket -> Label]
      /\ mReadPos \in Nat /\ count[i] \in Nat /\ Len(mWaiters) \in Nat
  BY Typed DEF IInv, TypeOK, WakeValid, lockVars, passVars, localVars, wakeVars
<1>1. Active(i)
  BY <1>0 DEF Active, Releasing, InWake
<1>2. PICK label \in {"first", "endWake"} :
         /\ Goto(i, label)
         /\ label = "endWake" => ~(mReadPos + count[i] < Len(mWaiters))
  BY DEF WakeValid
<1>3. \A j \in Ticket : pc'[j] = IF j = i THEN label ELSE pc[j]
  BY <1>0, <1>2, GotoAt
<1>4. ASSUME NEW w \in Writers, NEW r \in Readers, Wf(w) = Wf(r)
      PROVE  Told(w, r)' <=> Told(w, r)
  <2>1. CASE w = i
    <3>1. r \in Nat /\ r <= Len(mWaiters)
      BY <1>0, Typed
    <3>2. label = "endWake" => r <= mReadPos + count[i]
      BY <1>0, <1>2, <3>1
    <3>3. QED
      BY <1>0, <1>3, <2>1, <3>2 DEF Told
  <2>2. CASE w # i
    BY <1>0, <1>1, <1>3, <2>2, OthersTell
  <2>3. QED
    BY <2>1, <2>2
<1>5. \A w \in Writers : pc[w] = "queued" => pc'[w] = "queued"
  BY <1>0, <1>3
<1>6. QED
  BY <1>0, <1>4, <1>5, CountsKept

(* Taking the entry out tells nobody.                                      *)
LEMMA WakeFirstCounts ==
  ASSUME IInv, CountsInv, NEW i \in Pushed, WakeFirst(i)
  PROVE  CountsInv'
<1>0. /\ TypeOK /\ i \in Writers /\ i \in Ticket /\ pc[i] = "first"
      /\ UNCHANGED <<mWaiters, mReadPos, workflowId, toPush, waitingLockCount, count>>
      /\ Writers \subseteq Ticket /\ pc \in [Ticket -> Label]
  BY Typed DEF IInv, TypeOK, WakeFirst, lockVars, passVars, wakeVars
<1>1. Active(i)
  BY <1>0 DEF Active, Releasing, InWake
<1>2. PICK label \in {"wakeWriter", "wakeReader"} : Goto(i, label)
  BY DEF WakeFirst
<1>3. \A j \in Ticket : pc'[j] = IF j = i THEN label ELSE pc[j]
  BY <1>0, <1>2, GotoAt
<1>4. ASSUME NEW w \in Writers, NEW r \in Readers, Wf(w) = Wf(r)
      PROVE  Told(w, r)' <=> Told(w, r)
  <2>1. CASE w = i
    BY <1>0, <1>3, <2>1 DEF Told
  <2>2. CASE w # i
    BY <1>0, <1>1, <1>3, <2>2, OthersTell
  <2>3. QED
    BY <2>1, <2>2
<1>5. \A w \in Writers : pc[w] = "queued" => pc'[w] = "queued"
  BY <1>0, <1>3
<1>6. QED
  BY <1>0, <1>4, <1>5, CountsKept

(* A reader is counted before it is told.                                  *)
LEMMA WakeReaderCounts ==
  ASSUME IInv, CountsInv, NEW i \in Pushed, WakeReader(i)
  PROVE  CountsInv'
<1>t. /\ TypeOK /\ i \in Ticket /\ pc \in [Ticket -> Label] /\ count \in [Ticket -> Nat]
      /\ Writers \subseteq Ticket /\ Readers \subseteq Nat /\ mReadPos \in Nat
  BY Typed DEF IInv, TypeOK
<1>0. /\ i \in Writers /\ pc[i] = "wakeReader" /\ count[i] \in Nat
      /\ \A j \in Ticket : pc'[j] = IF j = i THEN "enqueue" ELSE pc[j]
      /\ UNCHANGED <<mWaiters, mReadPos, workflowId, toPush, waitingLockCount, cur>>
  BY <1>t, GotoAt DEF WakeReader, passVars, wakeVars
<1>1. Active(i) /\ cur[i] = mReadPos + count[i] + 1
  BY <1>0 DEF IInv, ReleaseInv, ReleaseAt, Active, Releasing, InWake
<1>2. ASSUME NEW w \in Writers, NEW r \in Readers, Wf(w) = Wf(r)
      PROVE  Told(w, r)' <=> Told(w, r)
  <2>1. CASE w = i
    <3>1. r < cur[i] <=> r <= mReadPos + count[i]
      BY <1>t, <1>0, <1>1
    <3>2. QED
      BY <1>t, <1>0, <2>1, <3>1 DEF Told
  <2>2. CASE w # i
    BY <1>t, <1>0, <1>1, <2>2, OthersTell
  <2>3. QED
    BY <2>1, <2>2
<1>3. \A w \in Writers : pc[w] = "queued" => pc'[w] = "queued"
  BY <1>t, <1>0
<1>4. QED
  BY <1>t, <1>0, <1>2, <1>3, CountsKept

(* A writer is behind every reader of an earlier workflow.                 *)
LEMMA ReadersInFront ==
  ASSUME IInv, NEW i \in Writers, NEW c \in Writers, i < c, NEW r \in Readers, Wf(r) = Wf(i)
  PROVE  Wf(c) # Wf(i) /\ r < c
<1>1. /\ i \in Pushed /\ c \in Pushed /\ r \in Pushed /\ r \in Nat /\ c \in Nat /\ r # c
      /\ Wf(i) \in Nat /\ Wf(c) \in Nat
  BY Typed DEF IInv
<1>2. Wf(i) < Wf(c)
  BY <1>1 DEF IInv, OrderInv
<1>3. ~(c < r)
  BY <1>1, <1>2 DEF IInv, OrderInv
<1>4. QED
  BY <1>1, <1>2, <1>3

(* Where Wake stops at a writer it has told all readers of its workflow.   *)
LEMMA WakeWriterCounts ==
  ASSUME IInv, CountsInv, NEW i \in Pushed, WakeWriter(i)
  PROVE  CountsInv'
<1>t. /\ TypeOK /\ i \in Ticket /\ pc \in [Ticket -> Label] /\ count \in [Ticket -> Nat]
      /\ Writers \subseteq Ticket /\ Readers \subseteq Nat /\ mReadPos \in Nat /\ i \in Nat
      /\ Ticket \subseteq Nat
  BY Typed DEF IInv, TypeOK
<1>0. /\ i \in Writers /\ pc[i] = "wakeWriter" /\ count[i] \in Nat
      /\ UNCHANGED <<mWaiters, mReadPos, workflowId, toPush, waitingLockCount, count>>
  BY <1>t DEF WakeWriter, lockVars, passVars, localVars, wakeVars
<1>1. /\ Active(i) /\ Popped(i) /\ cur[i] \in Writers
      /\ cur[i] = mReadPos + count[i] + 1
  BY <1>0 DEF IInv, ReleaseInv, ReleaseAt, Active, Releasing, Popped, InWake
<1>2. PICK c \in Writers : c = cur[i]
  BY <1>1
<1>3. i < c
  <2>1. i <= mReadPos
    BY <1>t, <1>0, <1>1 DEF IInv, PositionInv
  <2>2. QED
    BY <1>t, <1>0, <1>1, <1>2, <2>1
<1>4. PICK label \in {"skipReaders", "endWake"} : Goto(i, label)
  BY DEF WakeWriter
<1>5. \A j \in Ticket : pc'[j] = IF j = i THEN label ELSE pc[j]
  BY <1>t, <1>4, GotoAt
<1>6. ASSUME NEW w \in Writers, NEW r \in Readers, Wf(w) = Wf(r)
      PROVE  Told(w, r)' <=> Told(w, r)
  <2>1. CASE w = i
    <3>1. r < c
      BY <1>3, <1>6, <2>1, ReadersInFront
    <3>2. r <= mReadPos + count[i]
      BY <1>t, <1>0, <1>1, <1>2, <3>1
    <3>3. QED
      BY <1>t, <1>0, <1>5, <2>1, <3>2 DEF Told
  <2>2. CASE w # i
    BY <1>t, <1>0, <1>1, <1>5, <2>2, OthersTell
  <2>3. QED
    BY <2>1, <2>2
<1>7. \A w \in Writers : pc[w] = "queued" => pc'[w] = "queued"
  BY <1>t, <1>0, <1>5
<1>8. QED
  BY <1>t, <1>0, <1>6, <1>7, CountsKept

(* The position moves, what Wake has reached does not.                     *)
LEMMA SkipReadersCounts ==
  ASSUME IInv, CountsInv, NEW i \in Pushed, SkipReaders(i)
  PROVE  CountsInv'
<1>t. /\ TypeOK /\ i \in Ticket /\ pc \in [Ticket -> Label] /\ count \in [Ticket -> Nat]
      /\ Writers \subseteq Ticket /\ Readers \subseteq Nat /\ mReadPos \in Nat
  BY Typed DEF IInv, TypeOK
<1>0. /\ i \in Writers /\ pc[i] = "skipReaders" /\ count[i] \in Nat
      /\ \A j \in Ticket : pc'[j] = IF j = i THEN "enqueue" ELSE pc[j]
      /\ UNCHANGED <<mWaiters, workflowId, toPush, waitingLockCount, cur>>
  BY <1>t, GotoAt DEF SkipReaders, passVars, wakeVars
<1>1. Active(i) /\ cur[i] = mReadPos + count[i] + 1
  BY <1>0 DEF IInv, ReleaseInv, ReleaseAt, Active, Releasing, InWake
<1>2. ASSUME NEW w \in Writers, NEW r \in Readers, Wf(w) = Wf(r)
      PROVE  Told(w, r)' <=> Told(w, r)
  <2>1. CASE w = i
    <3>1. r < cur[i] <=> r <= mReadPos + count[i]
      BY <1>t, <1>0, <1>1
    <3>2. QED
      BY <1>t, <1>0, <2>1, <3>1 DEF Told
  <2>2. CASE w # i
    BY <1>t, <1>0, <1>1, <2>2, OthersTell
  <2>3. QED
    BY <2>1, <2>2
<1>3. \A w \in Writers : pc[w] = "queued" => pc'[w] = "queued"
  BY <1>t, <1>0
<1>4. QED
  BY <1>t, <1>0, <1>2, <1>3, CountsKept

(* A reader is told once, and its count drops if it is of the workflow; a  *)
(* writer is not of the workflow.                                          *)
LEMMA EnqueueCounts ==
  ASSUME IInv, CountsInv, NEW i \in Pushed, Enqueue(i)
  PROVE  CountsInv'
<1>t. /\ TypeOK /\ i \in Ticket /\ pc \in [Ticket -> Label] /\ count \in [Ticket -> Nat]
      /\ Writers \subseteq Ticket /\ Readers \subseteq Ticket /\ Ticket \subseteq Nat
      /\ mReadPos \in Nat /\ waitingLockCount \in [Ticket -> Int] /\ i \in Nat
      /\ Writers \cap Readers = {}
  BY Typed DEF IInv, TypeOK
<1>0. /\ i \in Writers /\ pc[i] = "enqueue" /\ count[i] \in Nat
      /\ UNCHANGED <<mWaiters, mReadPos, workflowId, toPush, count, cur>>
  BY <1>t DEF Enqueue, lockVars, passVars, localVars
<1>1. /\ Active(i) /\ Popped(i)
      /\ \/ cur[i] = mReadPos + count[i] /\ cur[i] \in Readers
         \/ cur[i] = mReadPos + 1 /\ cur[i] \in Writers /\ count[i] = 0
  BY <1>0 DEF IInv, ReleaseInv, ReleaseAt, Active, Releasing, Popped, InWake
<1>2. PICK c \in Writers \cup Readers : c = cur[i]
  BY <1>1
<1>3. waitingLockCount' = [waitingLockCount EXCEPT ![c] = IF Wf(c) = Wf(i) THEN @ - 1 ELSE @]
  BY <1>2 DEF Enqueue, WakeUp
<1>4. CASE c \in Writers
  <2>1. i < c /\ cur[i] = mReadPos + 1 /\ count[i] = 0
    <3>1. i <= mReadPos
      BY <1>t, <1>0, <1>1 DEF IInv, PositionInv
    <3>2. QED
      BY <1>t, <1>1, <1>2, <1>4, <3>1
  <2>2. Wf(c) # Wf(i)
    <3>1. i \in Pushed /\ c \in Pushed /\ Wf(i) \in Nat /\ Wf(c) \in Nat
      BY <1>0, <1>4, Typed DEF IInv
    <3>2. QED
      BY <1>4, <2>1, <3>1 DEF IInv, OrderInv
  <2>3. waitingLockCount' = waitingLockCount
    BY <1>t, <1>3, <2>2
  <2>4. \A j \in Ticket : pc'[j] = IF j = i THEN "endWake" ELSE pc[j]
    <3>1. Goto(i, "endWake")
      BY <1>2, <1>4 DEF Enqueue
    <3>2. QED
      BY <1>t, <3>1, GotoAt
  <2>5. ASSUME NEW w \in Writers, NEW r \in Readers, Wf(w) = Wf(r)
        PROVE  Told(w, r)' <=> Told(w, r)
    <3>1. CASE w = i
      <4>1. r < cur[i]
        BY <1>2, <1>4, <2>1, <2>5, <3>1, ReadersInFront
      <4>2. QED
        BY <1>t, <1>0, <2>4, <3>1, <4>1 DEF Told
    <3>2. CASE w # i
      BY <1>t, <1>0, <1>1, <2>4, <3>2, OthersTell
    <3>3. QED
      BY <3>1, <3>2
  <2>6. \A w \in Writers : pc[w] = "queued" => pc'[w] = "queued"
    BY <1>t, <1>0, <2>4
  <2>7. QED
    BY <1>t, <1>0, <2>3, <2>5, <2>6, CountsKept
<1>5. CASE c \in Readers
  <2>1. cur[i] = mReadPos + count[i]
    BY <1>t, <1>1, <1>2, <1>5
  <2>2. \A j \in Ticket : pc'[j] = IF j = i THEN "wake" ELSE pc[j]
    <3>1. Goto(i, "wake")
      BY <1>t, <1>2, <1>5 DEF Enqueue
    <3>2. QED
      BY <1>t, <3>1, GotoAt
  <2>3. /\ \A r \in Readers : r # c => waitingLockCount'[r] = waitingLockCount[r]
        /\ waitingLockCount'[c] = IF Wf(c) = Wf(i) THEN waitingLockCount[c] - 1
                                                   ELSE waitingLockCount[c]
    BY <1>t, <1>3, <1>5
  <2>4. /\ Pushed' = Pushed /\ Writers' = Writers /\ Readers' = Readers
        /\ \A j : Wf(j)' = Wf(j)
    BY <1>0, SameQueue
  <2>5. ASSUME NEW w \in Writers, NEW r \in Readers, w # i \/ r # c
        PROVE  Told(w, r)' <=> Told(w, r)
    <3>1. CASE w = i
      <4>1. r < cur[i] <=> r <= mReadPos + count[i]
        BY <1>t, <1>0, <1>2, <2>1, <2>5, <3>1
      <4>2. QED
        BY <1>t, <1>0, <2>2, <3>1, <4>1 DEF Told
    <3>2. CASE w # i
      BY <1>t, <1>0, <1>1, <2>2, <3>2, OthersTell
    <3>3. QED
      BY <3>1, <3>2
  <2>6. ~Told(i, c) /\ Told(i, c)'
    <3>1. ~(c < cur[i]) /\ c <= mReadPos + count[i]
      BY <1>t, <1>0, <1>2, <2>1
    <3>2. QED
      BY <1>t, <1>0, <2>2, <3>1 DEF Told
  <2>7. ASSUME NEW r \in Readers
        PROVE  waitingLockCount'[r] = IF \E w \in Writers : Wf(w) = Wf(r) /\ ~Told(w, r)'
                                        THEN 1 ELSE 0
    <3>1. waitingLockCount[r] = IF \E w \in Writers : Wf(w) = Wf(r) /\ ~Told(w, r) THEN 1 ELSE 0
      BY DEF CountsInv
    <3>2. CASE r # c
      BY <2>3, <2>5, <3>1, <3>2
    <3>3. CASE r = c /\ Wf(c) # Wf(i)
      BY <2>3, <2>5, <3>1, <3>3
    <3>4. CASE r = c /\ Wf(c) = Wf(i)
      <4>1. \A w \in Writers : Wf(w) = Wf(r) => w = i
        BY <1>0, <3>4, OneWriter
      <4>2. waitingLockCount[r] = 1
        BY <1>0, <2>6, <3>1, <3>4
      <4>3. waitingLockCount'[r] = 0
        BY <2>3, <3>4, <4>2
      <4>4. QED
        BY <2>6, <3>4, <4>1, <4>3
    <3>5. QED
      BY <3>2, <3>3, <3>4
  <2>8. toPush' # {} => \A w \in Writers' : Wf(w)' = workflowId' => pc'[w] = "queued"
    BY <1>t, <1>0, <2>2, <2>4 DEF CountsInv
  <2>9. QED
    BY <2>4, <2>7, <2>8 DEF CountsInv
<1>6. QED
  BY <1>2, <1>4, <1>5

LEMMA EndWakeCounts ==
  ASSUME IInv, CountsInv, NEW i \in Pushed, EndWake(i)
  PROVE  CountsInv'
<1>t. /\ TypeOK /\ i \in Ticket /\ pc \in [Ticket -> Label] /\ count \in [Ticket -> Nat]
      /\ Writers \subseteq Ticket
  BY Typed DEF IInv, TypeOK
<1>0. /\ TypeOK /\ i \in Writers /\ pc[i] = "endWake" /\ Active(i)
      /\ \A j \in Ticket : pc'[j] = IF j = i THEN "done" ELSE pc[j]
      /\ UNCHANGED <<mWaiters, workflowId, toPush, waitingLockCount>>
      /\ Writers \subseteq Ticket
  BY <1>t, GotoAt DEF EndWake, Finish, passVars, Active, Releasing, InUnlock, InWake
<1>1. ASSUME NEW w \in Writers, NEW r \in Readers, Wf(w) = Wf(r)
      PROVE  Told(w, r)' <=> Told(w, r)
  <2>1. CASE w = i
    BY <1>0, <2>1 DEF Told
  <2>2. CASE w # i
    BY <1>0, <2>2, OthersTell
  <2>3. QED
    BY <2>1, <2>2
<1>2. \A w \in Writers : pc[w] = "queued" => pc'[w] = "queued"
  BY <1>0
<1>3. QED
  BY <1>0, <1>1, <1>2, CountsKept

(* A reader registered behind its workflow's writer depends on the lock    *)
(* once; that writer is not dispatched yet.                                *)
LEMMA PushCounts ==
  ASSUME IInv, TypeOK', CountsInv, NEW writer \in BOOLEAN, NEW node,
         NEW flow, flow = workflowId', NEW new, new = Len(mWaiters) + 1,
         Push(flow, writer, node),
         writer => workflowId < flow,
         ~writer => workflowId = flow /\ toPush # {}
  PROVE  CountsInv'
<1>0. /\ TypeOK /\ Writers \subseteq Pushed /\ Readers \subseteq Pushed
      /\ Pushed \subseteq Ticket /\ workflowId \in Nat
      /\ \A j \in Pushed : Wf(j) \in Nat
      /\ waitingLockCount \in [Ticket -> Int]
      /\ UNCHANGED <<mReadPos, count, cur>>
  BY Typed DEF IInv, TypeOK, Push, localVars
<1>p. /\ new \in Ticket \ Pushed
      /\ \A j \in Pushed : Wf(j)' = Wf(j)
      /\ Wf(new)' = flow
      /\ Writers' = IF writer THEN Writers \cup {new} ELSE Writers
      /\ Readers' = IF writer THEN Readers ELSE Readers \cup {new}
      /\ \A j \in Ticket : pc'[j] = IF j = new THEN "queued" ELSE pc[j]
  BY PushFacts
<1>1. /\ \A j \in Pushed : waitingLockCount'[j] = waitingLockCount[j]
      /\ waitingLockCount'[new] = IF ~writer /\ \E w \in Writers : Wf(w) = flow THEN 1 ELSE 0
  BY <1>0, <1>p DEF Push
<1>2. \A w \in Writers : \A r : Told(w, r)' <=> Told(w, r)
  BY <1>0, <1>p DEF Told
<1>3. ASSUME writer, NEW j \in Pushed PROVE Wf(j) # flow
  BY <1>0, <1>3 DEF IInv, OrderInv
<1>4. toPush' # {} => \A w \in Writers' : Wf(w)' = workflowId' => pc'[w] = "queued"
  <2>1. CASE writer
    BY <2>1, <1>0, <1>p, <1>3
  <2>2. CASE ~writer
    BY <2>2, <1>0, <1>p DEF CountsInv
  <2>3. QED
    BY <2>1, <2>2
<1>5. ASSUME NEW r \in Readers
      PROVE  waitingLockCount'[r] = IF \E w \in Writers' : Wf(w)' = Wf(r)' /\ ~Told(w, r)'
                                      THEN 1 ELSE 0
  <2>1. /\ r \in Pushed
        /\ waitingLockCount[r] = IF \E w \in Writers : Wf(w) = Wf(r) /\ ~Told(w, r) THEN 1 ELSE 0
    BY <1>0 DEF CountsInv
  <2>2. writer => Wf(new)' # Wf(r)'
    BY <1>3, <1>p, <2>1
  <2>3. (\E w \in Writers' : Wf(w)' = Wf(r)' /\ ~Told(w, r)')
           <=> \E w \in Writers : Wf(w) = Wf(r) /\ ~Told(w, r)
    BY <1>0, <1>2, <1>p, <2>1, <2>2
  <2>4. QED
    BY <1>1, <2>1, <2>3
<1>6. ~writer => waitingLockCount'[new] = IF \E w \in Writers' : Wf(w)' = Wf(new)' /\ ~Told(w, new)'
                                            THEN 1 ELSE 0
  <2> SUFFICES ASSUME ~writer
               PROVE  (\E w \in Writers' : Wf(w)' = Wf(new)' /\ ~Told(w, new)')
                         <=> \E w \in Writers : Wf(w) = flow
    BY <1>1
  <2>1. \A w \in Writers : Wf(w) = flow => pc[w] = "queued"
    BY DEF CountsInv
  <2>2. \A w \in Writers : Wf(w) = flow => ~Told(w, new)
    BY <2>1 DEF Told
  <2>3. QED
    BY <1>0, <1>2, <1>p, <2>2
<1>7. QED
  BY <1>4, <1>5, <1>6, <1>p DEF CountsInv

(* Every step of SerialSpec keeps the counts.                              *)
LEMMA SerialCounts == SerialInv /\ [SerialNext]_vars => SerialInv'
<1> SUFFICES ASSUME IInv, CountsInv, [SerialNext]_vars PROVE IInv' /\ CountsInv'
  BY DEF SerialInv
<1>0. IInv' /\ TypeOK' /\ TypeOK /\ workflowId \in Nat /\ \A j \in Pushed : Wf(j) \in Nat
  <2>1. IInv'
    BY SerialOrder
  <2>2. QED
    BY <2>1, Typed DEF IInv
<1>1. CASE Lock
  <2>1. \E flow, new : flow = workflowId' /\ new = Len(mWaiters) + 1
    OBVIOUS
  <2>2. PICK flow, new : flow = workflowId' /\ new = Len(mWaiters) + 1
    BY <2>1
  <2>3. Push(flow, TRUE, OWNER) /\ workflowId < flow /\ TRUE \in BOOLEAN
    BY <1>0, <1>1, <2>2 DEF Lock, Push
  <2>4. QED
    BY <1>0, <2>2, <2>3, PushCounts
<1>2. CASE \E s \in Successors : LockShared(s)
  <2>1. PICK s \in Successors : LockShared(s)
    BY <1>2
  <2>2. \E flow, new : flow = workflowId' /\ new = Len(mWaiters) + 1
    OBVIOUS
  <2>3. PICK flow, new : flow = workflowId' /\ new = Len(mWaiters) + 1
    BY <2>2
  <2>4. Push(flow, FALSE, s) /\ workflowId = flow /\ toPush # {} /\ FALSE \in BOOLEAN
    BY <2>1, <2>3 DEF LockShared
  <2>5. QED
    BY <1>0, <2>3, <2>4, PushCounts
<1>3. CASE \E reached \in SUBSET Successors \ {{}} : PassBy(reached)
  <2>1. /\ workflowId' = workflowId + 1
        /\ UNCHANGED <<mWaiters, mReadPos, count, cur, pc, waitingLockCount>>
    BY <1>3 DEF PassBy, lockVars, localVars, wakeVars
  <2>2. /\ Pushed' = Pushed /\ Writers' = Writers /\ Readers' = Readers
        /\ \A j : Wf(j)' = Wf(j)
    BY <2>1, SameQueue
  <2>3. \A w \in Writers : Wf(w) # workflowId'
    BY <1>0, <2>1, Typed DEF IInv, OrderInv
  <2>4. \A w, r : Told(w, r)' <=> Told(w, r)
    BY <2>1 DEF Told
  <2>5. \A r \in Readers :
          waitingLockCount'[r] = IF \E w \in Writers : Wf(w)' = Wf(r)' /\ ~Told(w, r)' THEN 1 ELSE 0
    BY <2>1, <2>2, <2>4 DEF CountsInv
  <2>6. QED
    BY <1>0, <2>2, <2>3, <2>5 DEF CountsInv
<1>4. CASE \E i \in Pushed : TicketStep(i)
  <2>1. PICK i \in Pushed : TicketStep(i)
    BY <1>4
  <2>2. CASE \/ SkipOwn(i) \/ WakeValid(i) \/ WakeFirst(i) \/ WakeReader(i) \/ WakeWriter(i)
             \/ SkipReaders(i) \/ Enqueue(i) \/ EndWake(i)
    BY <1>0, <2>2, SkipOwnCounts, WakeValidCounts, WakeFirstCounts, WakeReaderCounts,
       WakeWriterCounts, SkipReadersCounts, EnqueueCounts, EndWakeCounts
  <2>3. CASE \/ Dispatch(i) \/ Schedule(i) \/ ReadReadPos(i) \/ LoadReaders(i)
             \/ Process(i) \/ UnlockWalk(i) \/ CountFinished(i) \/ PopId(i)
             \/ ReaderStep(i) \/ MessageStep(i)
    BY <1>0, <2>3, QuietCountsSteps
  <2>4. QED
    BY <1>0, <2>1, <2>2, <2>3 DEF TicketStep, WriterStep
<1>5. CASE UNCHANGED vars
  <2>1. UNCHANGED <<mWaiters, mReadPos, workflowId, toPush, pc, count, cur, waitingLockCount>>
    BY <1>5 DEF vars, lockVars, passVars, localVars, wakeVars
  <2>2. \A w \in Writers, r \in Readers : Told(w, r)' <=> Told(w, r)
    BY <2>1 DEF Told
  <2>3. QED
    BY <1>0, <2>1, <2>2, CountsKept
<1>6. QED
  BY <1>0, <1>1, <1>2, <1>3, <1>4, <1>5 DEF SerialNext, Next

LEMMA InitCounts == Init => SerialInv
<1> SUFFICES ASSUME Init PROVE SerialInv
  OBVIOUS
<1>1. Writers = {} /\ Readers = {}
  BY DEF Init, Pushed, Writers, Readers
<1>2. QED
  BY <1>1, InitOrder DEF CountsInv, SerialInv

(* The invariant that the runs check: the lock's, and that a reader's      *)
(* share of the waiting lock count is one exactly until it was told.       *)
THEOREM CountsInvariant == SerialSpec => []SerialInv
  BY InitCounts, SerialCounts, PTL DEF SerialSpec

(* The writer of a workflow tells each of its readers once: no share of a  *)
(* waiting lock count falls below zero, and none is left over when the     *)
(* writer leaves Wake, which would keep the task from ever being           *)
(* schedulable.                                                            *)
THEOREM ReadersToldOnce == SerialSpec => []CountedOnce
<1>1. SerialInv => CountedOnce
  <2> SUFFICES ASSUME IInv, CountsInv, NEW r \in Readers
               PROVE  /\ waitingLockCount[r] >= 0
                      /\ \A w \in Writers :
                           Wf(w) = Wf(r) /\ pc[w] \in {"endWake", "done"} /\ pc[r] = "unschedulable"
                             => waitingLockCount[r] = 0
    BY DEF CountedOnce, SerialInv
  <2>1. waitingLockCount[r] = IF \E w \in Writers : Wf(w) = Wf(r) /\ ~Told(w, r) THEN 1 ELSE 0
    BY DEF CountsInv
  <2>2. ASSUME NEW w \in Writers, Wf(w) = Wf(r), pc[w] \in {"endWake", "done"}
        PROVE  waitingLockCount[r] = 0
    <3>1. Told(w, r)
      BY <2>2 DEF Told
    <3>2. \A v \in Writers : Wf(v) = Wf(r) => v = w
      BY <2>2, OneWriter
    <3>3. QED
      BY <2>1, <3>1, <3>2
  <2>3. QED
    BY <2>1, <2>2
<1>2. QED
  BY <1>1, CountsInvariant, PTL
-----------------------------------------------------------------------------
(* The lock implements ordered access: each step is a step of              *)
(* OrderedAccess or leaves its state alone.  The invariant says when a     *)
(* task may go in; what is left is to see which steps move a task in or    *)
(* out, and that the others move none.                                     *)

(* The mapped variables of OrderedAccess.                                  *)
Kinds == [i \in DOMAIN mWaiters |-> mWaiters[i].IsWriter]
Where == [i \in Ticket |-> IF i \notin Pushed THEN "absent"
            ELSE IF Inside(i) THEN "inside" ELSE IF Left(i) THEN "left" ELSE "outside"]

(* The mapped queue has an element for each entry, its kind.               *)
LEMMA KindsSeq ==
  ASSUME TypeOK
  PROVE  /\ Kinds \in Seq(BOOLEAN) /\ Len(Kinds) = Len(mWaiters)
         /\ DOMAIN Kinds = Pushed
         /\ \A i \in Pushed : Kinds[i] = (i \in Writers)
<1>1. /\ mWaiters \in Seq(WaiterType) /\ Len(mWaiters) \in Nat
      /\ DOMAIN mWaiters = 1..Len(mWaiters)
  BY Typed DEF TypeOK
<1>2. \A i \in 1..Len(mWaiters) : mWaiters[i].IsWriter \in BOOLEAN
  <2>1. \A i \in 1..Len(mWaiters) : mWaiters[i] \in WaiterType
    BY <1>1
  <2>2. QED
    BY <2>1 DEF WaiterType
<1>3. Kinds \in [1..Len(mWaiters) -> BOOLEAN]
  BY <1>1, <1>2 DEF Kinds
<1>4. Kinds \in Seq(BOOLEAN)
  <2>1. \E n \in Nat : Kinds \in [1..n -> BOOLEAN]
    BY <1>1, <1>3
  <2>2. Seq(BOOLEAN) = UNION {[1..n -> BOOLEAN] : n \in Nat}
    BY SeqDef
  <2>3. QED
    BY <2>1, <2>2, Zenon
<1>5. Len(Kinds) = Len(mWaiters)
  BY <1>1, <1>3, <1>4, LenProperties
<1>6. \A i \in Pushed : Kinds[i] = mWaiters[i].IsWriter
  BY <1>1 DEF Kinds, Pushed
<1>7. \A i \in Pushed : (i \in Writers) = mWaiters[i].IsWriter
  BY <1>1, <1>2 DEF Pushed, Writers
<1>8. QED
  BY <1>1, <1>3, <1>4, <1>5, <1>6, <1>7 DEF Pushed

(* A step that moves no task, stores no value and reads none.              *)
LEMMA StutterStep ==
  ASSUME UNCHANGED <<mWaiters, value, seen>>,
         \A j \in Pushed : (Inside(j)' <=> Inside(j)) /\ (Left(j)' <=> Left(j))
  PROVE  UNCHANGED Accesses!avars
<1>1. Pushed' = Pushed /\ Ticket' = Ticket
  BY SameQueue DEF Ticket
<1>2. Kinds' = Kinds
  BY DEF Kinds
<1>3. Where' = Where
  BY <1>1 DEF Where
<1>4. QED
  BY <1>2, <1>3 DEF Accesses!avars, Kinds, Where

(* A step that moves one task only: where the mapped state says it is.     *)
LEMMA MoveStep ==
  ASSUME TypeOK, mWaiters' = mWaiters, NEW i \in Pushed, NEW place,
         place = (IF Inside(i)' THEN "inside" ELSE IF Left(i)' THEN "left" ELSE "outside"),
         \A j \in Pushed \ {i} : (Inside(j)' <=> Inside(j)) /\ (Left(j)' <=> Left(j))
  PROVE  Kinds' = Kinds /\ Where' = [Where EXCEPT ![i] = place]
<1>1. Pushed' = Pushed /\ Ticket' = Ticket /\ i \in Ticket
  BY SameQueue, Typed DEF Ticket
<1>2. Kinds' = Kinds
  BY DEF Kinds
<1>3. \A j \in Ticket : Where'[j] = IF j = i THEN place ELSE Where[j]
  BY <1>1 DEF Where
<1>4. DOMAIN Where = Ticket /\ DOMAIN Where' = Ticket
  BY <1>1 DEF Where
<1>5. Where' = [j \in Ticket |-> Where'[j]]
  BY <1>1 DEF Where
<1>6. QED
  BY <1>1, <1>2, <1>3, <1>4, <1>5

(* A task goes in: by then every access it conflicts with has left.        *)
LEMMA EnterStep ==
  ASSUME TypeOK, OrderedAdmission', UNCHANGED <<mWaiters, value, seen>>, NEW i \in Pushed,
         ~Inside(i), ~Left(i), Inside(i)',
         \A j \in Pushed \ {i} : (Inside(j)' <=> Inside(j)) /\ (Left(j)' <=> Left(j))
  PROVE  Accesses!ANext
<1>1. /\ Pushed' = Pushed /\ Writers' = Writers /\ i \in Ticket /\ i \in Nat
      /\ Pushed = 1..Len(mWaiters) /\ Len(mWaiters) \in Nat /\ i \in 1..Len(Kinds)
  BY SameQueue, Typed, KindsSeq
<1>2. Kinds' = Kinds /\ Where' = [Where EXCEPT ![i] = "inside"]
  BY MoveStep
<1>3. Where[i] = "outside"
  BY <1>1 DEF Where
<1>4. \A j \in 1..(i - 1) : Kinds[i] \/ Kinds[j] => Where[j] = "left"
  <2>1. SUFFICES ASSUME NEW j \in 1..(i - 1), Kinds[i] \/ Kinds[j] PROVE Where[j] = "left"
    OBVIOUS
  <2>2. j \in Pushed /\ j # i /\ j \in Ticket
    BY <1>1, Typed, SMTT(30)
  <2>3. i \in Writers \/ j \in Writers
    BY <2>1, <2>2, KindsSeq
  <2>4. Left(j)'
    BY <1>1, <2>2, <2>3 DEF OrderedAdmission
  <2>5. Left(j) /\ ~Inside(j)
    BY <2>2, <2>4 DEF Left, Inside, Popped, InUnlock, InWake
  <2>6. QED
    BY <2>2, <2>5 DEF Where
<1>5. Accesses!Enter(i)
  BY <1>2, <1>3, <1>4 DEF Accesses!Enter, Accesses!Ahead, Kinds, Where
<1>6. QED
  BY <1>1, <1>5 DEF Accesses!ANext, Kinds

(* A task that was in leaves.                                              *)
LEMMA LeaveStep ==
  ASSUME TypeOK, UNCHANGED <<mWaiters, value, seen>>, NEW i \in Pushed,
         Inside(i), ~Inside(i)', Left(i)',
         \A j \in Pushed \ {i} : (Inside(j)' <=> Inside(j)) /\ (Left(j)' <=> Left(j))
  PROVE  Accesses!ANext
<1>1. i \in Ticket /\ i \in 1..Len(Kinds)
  BY Typed, KindsSeq
<1>2. Kinds' = Kinds /\ Where' = [Where EXCEPT ![i] = "left"]
  BY MoveStep
<1>3. Where[i] = "inside"
  BY <1>1 DEF Where
<1>4. Accesses!Leave(i)
  BY <1>2, <1>3 DEF Accesses!Leave, Kinds, Where
<1>5. QED
  BY <1>1, <1>4 DEF Accesses!ANext, Kinds

(* The dispatcher pushes an entry: an access is registered.                *)
LEMMA RegisterStep ==
  ASSUME IInv, TypeOK', NEW flow, NEW writer \in BOOLEAN, NEW node, NEW new,
         new = Len(mWaiters) + 1, Push(flow, writer, node)
  PROVE  Accesses!ANext
<1>0. /\ TypeOK /\ mWaiters \in Seq(WaiterType) /\ Len(mWaiters) \in Nat
      /\ Pushed = 1..Len(mWaiters) /\ pc \in [Ticket -> Label]
      /\ UNCHANGED <<value, seen>>
      /\ mWaiters' = Append(mWaiters, [wf |-> flow, IsWriter |-> writer, node |-> node])
  BY Typed DEF IInv, TypeOK, Push, dataVars
<1>1. new \in Ticket /\ Len(mWaiters') = new /\ Pushed' = Pushed \cup {new} /\ new \notin Pushed
  <2>1. Len(mWaiters') = new
    BY <1>0
  <2>2. Pushed' = 1..new /\ new \in Nat
    BY <1>0, <2>1 DEF Pushed
  <2>3. new \in 1..MaxWaiters
    <3>1. mWaiters' \in Seq(WaiterType) /\ IsFiniteSet(toPush') /\ Cardinality(toPush') \in Nat
      BY ConstantsAssumption, FS_Subset, FS_CardinalityType DEF TypeOK
    <3>2. Len(mWaiters') <= MaxWaiters
      BY <2>1, <2>2, <3>1, ConstantsAssumption DEF TypeOK
    <3>3. QED
      BY <1>0, <2>1, <2>2, <3>2, ConstantsAssumption
  <2>4. QED
    BY <1>0, <2>1, <2>2, <2>3 DEF Ticket
<1>2. /\ \A j \in Pushed : mWaiters'[j] = mWaiters[j]
      /\ mWaiters'[new].IsWriter = writer
  BY <1>0
<1>3. /\ \A j \in Ticket : pc'[j] = IF j = new THEN "queued" ELSE pc[j]
      /\ seen' = seen /\ seen[new] = -1
  BY <1>0, <1>1 DEF Push, Goto, IInv, LabelsInv
<1>4. \A j \in Pushed : (Inside(j)' <=> Inside(j)) /\ (Left(j)' <=> Left(j))
  <2>1. \A j \in Pushed : j \in Ticket /\ j # new /\ (j \in Writers' <=> j \in Writers)
    BY <1>0, <1>1, <1>2, Typed DEF Writers
  <2>2. QED
    BY <1>3, <2>1 DEF Inside, Left, Popped, InUnlock, InWake
<1>5. ~Inside(new)' /\ ~Left(new)'
  BY <1>1, <1>3 DEF Inside, Left, Popped, InUnlock, InWake
<1>6. Where' = [Where EXCEPT ![new] = "outside"]
  <2>1. Ticket' = Ticket
    BY DEF Ticket
  <2>2. \A j \in Ticket : Where'[j] = IF j = new THEN "outside" ELSE Where[j]
    BY <1>1, <1>4, <1>5, <2>1 DEF Where
  <2>3. DOMAIN Where = Ticket /\ Where' = [j \in Ticket |-> Where'[j]]
    BY <2>1 DEF Where
  <2>4. QED
    BY <1>1, <2>2, <2>3
<1>7. Kinds' = Append(Kinds, writer)
  <2>1. /\ Kinds \in Seq(BOOLEAN) /\ Len(Kinds) = Len(mWaiters) /\ DOMAIN Kinds = Pushed
    BY <1>0, KindsSeq
  <2>2. DOMAIN mWaiters = Pushed /\ DOMAIN mWaiters' = 1..new /\ Pushed' = 1..new
    BY <1>0, <1>1 DEF Pushed, TypeOK
  <2>3. /\ Kinds' = [j \in 1..new |-> Kinds'[j]]
        /\ \A j \in Pushed : Kinds'[j] = Kinds[j]
        /\ Kinds'[new] = writer
    BY <1>0, <1>1, <1>2, <2>2 DEF Kinds
  <2>4. /\ Append(Kinds, writer) = [j \in 1..new |-> Append(Kinds, writer)[j]]
        /\ \A j \in Pushed : Append(Kinds, writer)[j] = Kinds[j]
        /\ Append(Kinds, writer)[new] = writer
    <3>1. /\ Append(Kinds, writer) \in Seq(BOOLEAN)
          /\ Len(Append(Kinds, writer)) = Len(Kinds) + 1
          /\ \A j \in 1..Len(Kinds) : Append(Kinds, writer)[j] = Kinds[j]
          /\ Append(Kinds, writer)[Len(Kinds) + 1] = writer
      BY <2>1, AppendProperties
    <3>2. Append(Kinds, writer) \in [1..(Len(Kinds) + 1) -> BOOLEAN]
      BY <3>1, LenProperties
    <3>3. Append(Kinds, writer) \in [1..new -> BOOLEAN]
      BY <2>1, <3>2
    <3>4. QED
      BY <1>0, <2>1, <3>1, <3>3
  <2>5. QED
    BY <1>0, <1>1, <2>2, <2>3, <2>4
<1>8. Len(Kinds) = Len(mWaiters) /\ Len(Kinds) < MaxWaiters
  BY <1>0, <1>1, KindsSeq, ConstantsAssumption DEF Ticket
<1>9. Accesses!Register(writer)
  BY <1>0, <1>6, <1>7, <1>8 DEF Accesses!Register, Kinds, Where
<1>10. QED
  BY <1>9 DEF Accesses!ANext

(* The steps with which a task tries, and those of a writer that releases,  *)
(* move no task in or out.                                                 *)
LEMMA NothingMoves ==
  ASSUME IInv, NEW i \in Pushed,
         \/ Dispatch(i) \/ Schedule(i) \/ ReadReadPos(i) \/ ReadFirstId(i) \/ Ignore(i)
         \/ UnlockWalk(i) \/ CountFinished(i) \/ SkipOwn(i) \/ WakeValid(i) \/ WakeFirst(i)
         \/ WakeReader(i) \/ WakeWriter(i) \/ SkipReaders(i) \/ Enqueue(i) \/ EndWake(i)
  PROVE  UNCHANGED Accesses!avars
<1>0. pc \in [Ticket -> Label] /\ i \in Ticket /\ Pushed \subseteq Ticket
  BY Typed DEF IInv, TypeOK
<1>1. UNCHANGED <<mWaiters, value, seen>>
  BY DEF Dispatch, Schedule, ReadReadPos, ReadFirstId, Ignore, UnlockWalk, CountFinished,
         SkipOwn, WakeValid, WakeFirst, WakeReader, WakeWriter, SkipReaders, Enqueue, EndWake,
         lockVars, dataVars
<1>2. Writers' = Writers
  BY <1>1, SameQueue
<1>3. \A j \in Ticket \ {i} : pc'[j] = pc[j]
  BY <1>0 DEF Dispatch, Schedule, ReadReadPos, ReadFirstId, Ignore, UnlockWalk, CountFinished,
              SkipOwn, WakeValid, WakeFirst, WakeReader, WakeWriter, SkipReaders, Enqueue,
              EndWake, Goto, Finish
<1>4. (Inside(i)' <=> Inside(i)) /\ (Left(i)' <=> Left(i))
  <2>1. CASE Dispatch(i) \/ Schedule(i) \/ ReadReadPos(i) \/ ReadFirstId(i) \/ Ignore(i)
    <3>1. pc[i] \in Idle /\ pc'[i] \in Idle
      BY <1>0, <2>1 DEF Dispatch, Schedule, ReadReadPos, ReadFirstId, Ignore, Goto, Idle
    <3>2. QED
      BY <1>1, <1>2, <3>1 DEF Idle, Inside, Left, Popped, InUnlock, InWake
  <2>2. CASE UnlockWalk(i) \/ CountFinished(i)
    BY <1>0, <1>2, <2>2 DEF UnlockWalk, CountFinished, Goto, Inside, Left, Popped, InUnlock,
                            InWake
  <2>3. CASE SkipOwn(i)
    <3>1. i \in Writers /\ Popped(i) /\ Popped(i)'
      BY <1>0, <2>3 DEF SkipOwn, Goto, Popped, InWake
    <3>2. QED
      BY <1>2, <3>1 DEF Inside, Left, Popped, InWake
  <2>4. CASE \/ WakeValid(i) \/ WakeFirst(i) \/ WakeReader(i) \/ WakeWriter(i)
             \/ SkipReaders(i) \/ Enqueue(i)
    <3>1. PICK label \in InWake : Goto(i, label)
      BY <2>4 DEF WakeValid, WakeFirst, WakeReader, WakeWriter, SkipReaders, Enqueue, InWake
    <3>2. i \in Writers /\ Popped(i)
      BY <2>4 DEF WakeValid, WakeFirst, WakeReader, WakeWriter, SkipReaders, Enqueue, Popped,
                  InWake
    <3>3. Popped(i)'
      BY <1>0, <3>1 DEF Goto, Popped
    <3>4. QED
      BY <1>2, <3>2, <3>3 DEF Inside, Left, Popped, InWake
  <2>5. CASE EndWake(i)
    <3>1. i \in Writers /\ Popped(i) /\ Popped(i)'
      BY <1>0, <2>5 DEF EndWake, Finish, Goto, Popped, InWake
    <3>2. QED
      BY <1>2, <3>1 DEF Inside, Left, Popped, InWake
  <2>6. QED
    BY <2>1, <2>2, <2>3, <2>4, <2>5
<1>5. \A j \in Pushed \ {i} : (Inside(j)' <=> Inside(j)) /\ (Left(j)' <=> Left(j))
  BY <1>0, <1>1, <1>2, <1>3 DEF Inside, Left, Popped, InUnlock, InWake
<1>6. QED
  BY <1>1, <1>4, <1>5, StutterStep

(* A step of one task at a time: what the others hold and have left is as  *)
(* it was.                                                                 *)
LEMMA OthersStay ==
  ASSUME TypeOK, NEW i \in Pushed, NEW label, Goto(i, label), mWaiters' = mWaiters,
         \A j \in Pushed \ {i} : seen'[j] = seen[j]
  PROVE  /\ Writers' = Writers /\ pc'[i] = label
         /\ \A j \in Pushed \ {i} : (Inside(j)' <=> Inside(j)) /\ (Left(j)' <=> Left(j))
<1>1. Writers' = Writers /\ Pushed \subseteq Ticket /\ pc \in [Ticket -> Label]
  BY SameQueue, Typed DEF TypeOK
<1>2. \A j \in Ticket : pc'[j] = IF j = i THEN label ELSE pc[j]
  BY <1>1 DEF Goto
<1>3. QED
  BY <1>1, <1>2 DEF Inside, Left, Popped, InUnlock, InWake

(* TryLock4 or TrySharedLock4 comes to its answer, or a wake-up grants it. *)
LEMMA AnswerStep ==
  ASSUME IInv, OrderedAdmission', NEW i \in Pushed,
         LoadReaders(i) \/ ReadEmpty(i) \/ Resume(i)
  PROVE  Accesses!ANext \/ UNCHANGED Accesses!avars
<1>0. /\ TypeOK /\ pc[i] \in Idle
      /\ UNCHANGED <<mWaiters, value, seen>>
  BY DEF IInv, LoadReaders, ReadEmpty, Resume, Idle, lockVars, dataVars
<1>1. PICK label \in {"holding", "admitted", "suspended", "ready"} : Goto(i, label)
  BY DEF LoadReaders, ReadEmpty, Resume
<1>2. /\ Writers' = Writers /\ pc'[i] = label
      /\ \A j \in Pushed \ {i} : (Inside(j)' <=> Inside(j)) /\ (Left(j)' <=> Left(j))
  BY <1>0, <1>1, OthersStay
<1>3. ~Left(i) /\ ~Left(i)'
  BY <1>0, <1>2 DEF Idle, Left, Popped, InUnlock, InWake
<1>4. CASE Inside(i)' <=> Inside(i)
  BY <1>0, <1>2, <1>3, <1>4, StutterStep
<1>5. CASE Inside(i)' /\ ~Inside(i)
  BY <1>0, <1>2, <1>3, <1>5, EnterStep
<1>6. Inside(i) => Inside(i)'
  BY <1>0, <1>2 DEF Idle, Inside
<1>7. QED
  BY <1>4, <1>5, <1>6

(* A writer runs: it stores a value, or is not accepted and stores none.   *)
LEMMA RunStep ==
  ASSUME IInv, NEW i \in Pushed, Process(i)
  PROVE  Accesses!ANext \/ UNCHANGED Accesses!avars
<1>0. /\ TypeOK /\ i \in Writers /\ pc[i] = "holding" /\ Goto(i, "unlocking")
      /\ UNCHANGED <<mWaiters, seen>> /\ i \in Ticket /\ i \in 1..Len(Kinds) /\ Kinds[i]
  BY Typed, KindsSeq DEF IInv, Process, lockVars
<1>2. /\ Writers' = Writers /\ pc'[i] = "unlocking"
      /\ \A j \in Pushed \ {i} : (Inside(j)' <=> Inside(j)) /\ (Left(j)' <=> Left(j))
  BY <1>0, OthersStay
<1>3. Inside(i) /\ ~Left(i) /\ Inside(i)' /\ ~Left(i)'
  BY <1>0, <1>2 DEF Left, Popped, Inside, InUnlock, InWake
<1>4. CASE value' = value
  BY <1>0, <1>2, <1>3, <1>4, StutterStep
<1>5. CASE value' = i
  <2>1. Where[i] = "inside"
    BY <1>0, <1>3 DEF Where
  <2>2. Kinds' = Kinds /\ Where' = Where
    <3>1. Pushed' = Pushed /\ Ticket' = Ticket
      BY <1>0, SameQueue DEF Ticket
    <3>2. \A j \in Pushed : (Inside(j)' <=> Inside(j)) /\ (Left(j)' <=> Left(j))
      BY <1>2, <1>3
    <3>3. QED
      BY <1>0, <3>1, <3>2 DEF Kinds, Where
  <2>3. Accesses!Store(i)
    BY <1>0, <1>5, <2>1, <2>2 DEF Accesses!Store, Kinds, Where
  <2>4. QED
    BY <1>0, <2>3 DEF Accesses!ANext, Kinds
<1>6. QED
  BY <1>4, <1>5 DEF Process

(* A reader looks at the node's value, and keeps the lock.                 *)
LEMMA LookStep ==
  ASSUME IInv, TypeOK', NEW i \in Pushed, ReadValue(i)
  PROVE  Accesses!ANext
<1>0. /\ TypeOK /\ i \in Readers /\ i \notin Writers /\ pc[i] = "admitted" /\ Goto(i, "ready")
      /\ UNCHANGED <<mWaiters, value>> /\ i \in Ticket /\ i \in 1..Len(Kinds) /\ ~Kinds[i]
      /\ seen' = [seen EXCEPT ![i] = value]
  BY Typed, KindsSeq DEF IInv, ReadValue, lockVars
<1>1. seen'[i] = value /\ value # -1 /\ \A j \in Pushed \ {i} : seen'[j] = seen[j]
  BY <1>0, Typed, ConstantsAssumption DEF TypeOK, Ticket
<1>2. /\ Writers' = Writers /\ pc'[i] = "ready"
      /\ \A j \in Pushed \ {i} : (Inside(j)' <=> Inside(j)) /\ (Left(j)' <=> Left(j))
  BY <1>0, <1>1, OthersStay
<1>3. Inside(i) /\ ~Left(i) /\ Inside(i)' /\ ~Left(i)'
  BY <1>0, <1>1, <1>2 DEF Left, Popped, Inside, InUnlock, InWake
<1>4. Where[i] = "inside"
  BY <1>0, <1>3 DEF Where
<1>5. Kinds' = Kinds /\ Where' = Where
  <2>1. Pushed' = Pushed /\ Ticket' = Ticket
    BY <1>0, SameQueue DEF Ticket
  <2>2. \A j \in Pushed : (Inside(j)' <=> Inside(j)) /\ (Left(j)' <=> Left(j))
    BY <1>2, <1>3
  <2>3. QED
    BY <1>0, <2>1, <2>2 DEF Kinds, Where
<1>6. Accesses!Load(i)
  BY <1>0, <1>4, <1>5 DEF Accesses!Load, Kinds, Where
<1>7. QED
  BY <1>0, <1>6 DEF Accesses!ANext, Kinds

(* A writer pops its id, or a reader that looked or was admitted ends.     *)
(* One that was handed its turn without having been in passes.             *)
LEMMA EndStep ==
  ASSUME IInv, NEW i \in Pushed, PopId(i) \/ UnlockShared(i) \/ CompleteDeffered(i)
  PROVE  Accesses!ANext
<1>0. /\ TypeOK /\ i \in Ticket /\ UNCHANGED <<mWaiters, value, seen>>
  BY Typed DEF IInv, PopId, UnlockShared, CompleteDeffered, lockVars, dataVars
<1>1. CASE PopId(i)
  <2>1. /\ Writers' = Writers /\ pc'[i] = "skip" /\ i \in Writers /\ pc[i] = "pop"
        /\ \A j \in Pushed \ {i} : (Inside(j)' <=> Inside(j)) /\ (Left(j)' <=> Left(j))
    BY <1>0, <1>1, OthersStay DEF PopId
  <2>2. Inside(i) /\ ~Inside(i)' /\ Left(i)'
    BY <2>1 DEF Inside, Left, Popped, InUnlock, InWake
  <2>3. QED
    BY <1>0, <2>1, <2>2, LeaveStep
<1>2. CASE UnlockShared(i) \/ CompleteDeffered(i)
  <2>0. i \in Readers /\ i \notin Writers
    <3>1. phase[i] = "defer" => i \notin Writers
      BY DEF IInv, LabelsInv
    <3>2. QED
      BY <1>0, <1>2, <3>1, Typed DEF UnlockShared, CompleteDeffered
  <2>1. /\ Writers' = Writers /\ pc'[i] = "done" /\ pc[i] # "done"
        /\ \A j \in Pushed \ {i} : (Inside(j)' <=> Inside(j)) /\ (Left(j)' <=> Left(j))
    BY <1>0, <1>2, OthersStay DEF UnlockShared, CompleteDeffered, Finish
  <2>2. ~Inside(i)' /\ Left(i)' /\ ~Left(i)
    BY <2>0, <2>1 DEF Inside, Left
  <2>3. CASE Inside(i)
    BY <1>0, <2>1, <2>2, <2>3, LeaveStep
  <2>4. CASE ~Inside(i)
    <3>1. CompleteDeffered(i)
      BY <1>2, <2>0, <2>4 DEF UnlockShared, Inside
    <3>2. BehindPopped(i)
      BY <2>0, <3>1 DEF CompleteDeffered, IInv, GrantInv
    <3>3. Kinds' = Kinds /\ Where' = [Where EXCEPT ![i] = "left"]
      BY <1>0, <2>1, <2>2, MoveStep
    <3>4. Where[i] = "outside" /\ ~Kinds[i] /\ i \in 1..Len(Kinds)
      BY <1>0, <2>0, <2>2, <2>4, Typed, KindsSeq DEF Where
    <3>5. \A j \in 1..(i - 1) : Kinds[j] => Where[j] = "left"
      <4>1. SUFFICES ASSUME NEW j \in 1..(i - 1), Kinds[j] PROVE Where[j] = "left"
        OBVIOUS
      <4>2. j \in Pushed /\ j < i /\ j \in Ticket
        BY <1>0, Typed
      <4>3. j \in Writers
        BY <1>0, <4>1, <4>2, KindsSeq
      <4>4. Popped(j)
        BY <3>2, <4>2, <4>3 DEF BehindPopped
      <4>5. QED
        BY <4>2, <4>3, <4>4 DEF Where, Inside, Left, Popped, InUnlock, InWake
    <3>6. Accesses!Pass(i)
      BY <1>0, <3>3, <3>4, <3>5 DEF Accesses!Pass, Accesses!Ahead, Kinds, Where
    <3>7. QED
      BY <3>4, <3>6 DEF Accesses!ANext, Kinds
  <2>5. QED
    BY <2>3, <2>4
<1>3. QED
  BY <1>1, <1>2

(* Each step of the lock is a step of ordered access, or none of its.      *)
LEMMA StepRefines ==
  IInv /\ IInv' /\ OrderedAdmission' /\ [SerialNext]_vars => [Accesses!ANext]_(Accesses!avars)
<1> SUFFICES ASSUME IInv, IInv', OrderedAdmission', [SerialNext]_vars
             PROVE  Accesses!ANext \/ UNCHANGED Accesses!avars
  OBVIOUS
<1>0. TypeOK' /\ TypeOK
  BY DEF IInv
<1>1. CASE UNCHANGED vars
  <2>1. UNCHANGED <<mWaiters, value, seen, pc>>
    BY <1>1 DEF vars, lockVars, dataVars
  <2>2. \A j \in Pushed : (Inside(j)' <=> Inside(j)) /\ (Left(j)' <=> Left(j))
    BY <2>1, SameQueue DEF Inside, Left, Popped, InUnlock, InWake
  <2>3. QED
    BY <2>1, <2>2, StutterStep
<1>2. CASE Lock
  <2>1. PICK flow, new : flow = workflowId' /\ new = Len(mWaiters) + 1
    OBVIOUS
  <2>2. Push(flow, TRUE, OWNER) /\ TRUE \in BOOLEAN
    BY <1>2, <2>1 DEF Lock, Push
  <2>3. QED
    BY <1>0, <2>1, <2>2, RegisterStep
<1>3. CASE \E reached \in SUBSET Successors \ {{}} : PassBy(reached)
  <2>1. UNCHANGED <<mWaiters, value, seen, pc>>
    BY <1>3 DEF PassBy, lockVars, dataVars
  <2>2. \A j \in Pushed : (Inside(j)' <=> Inside(j)) /\ (Left(j)' <=> Left(j))
    BY <2>1, SameQueue DEF Inside, Left, Popped, InUnlock, InWake
  <2>3. QED
    BY <2>1, <2>2, StutterStep
<1>4. CASE \E s \in Successors : LockShared(s)
  <2>1. PICK s \in Successors : LockShared(s)
    BY <1>4
  <2>2. PICK flow, new : flow = workflowId /\ new = Len(mWaiters) + 1
    OBVIOUS
  <2>3. Push(flow, FALSE, s) /\ FALSE \in BOOLEAN
    BY <2>1, <2>2 DEF LockShared, Push
  <2>4. QED
    BY <1>0, <2>2, <2>3, RegisterStep
<1>5. CASE \E i \in Pushed : TicketStep(i)
  <2>1. PICK i \in Pushed : TicketStep(i)
    BY <1>5
  <2>2. CASE LoadReaders(i) \/ ReadEmpty(i) \/ Resume(i)
    BY <2>2, AnswerStep
  <2>3. CASE Process(i)
    BY <2>3, RunStep
  <2>4. CASE ReadValue(i)
    BY <1>0, <2>4, LookStep
  <2>5. CASE PopId(i) \/ UnlockShared(i) \/ CompleteDeffered(i)
    BY <2>5, EndStep
  <2>6. CASE \/ Dispatch(i) \/ Schedule(i) \/ ReadReadPos(i) \/ ReadFirstId(i) \/ Ignore(i)
             \/ UnlockWalk(i) \/ CountFinished(i) \/ SkipOwn(i) \/ WakeValid(i) \/ WakeFirst(i)
             \/ WakeReader(i) \/ WakeWriter(i) \/ SkipReaders(i) \/ Enqueue(i) \/ EndWake(i)
    BY <2>6, NothingMoves
  <2>7. QED
    BY <2>1, <2>2, <2>3, <2>4, <2>5, <2>6 DEF TicketStep, WriterStep, ReaderStep, MessageStep
<1>6. QED
  BY <1>1, <1>2, <1>3, <1>4, <1>5 DEF SerialNext, Next

(* The empty queue is ordered access with nothing registered.              *)
LEMMA InitRefines == Init => Accesses!AInit
<1> SUFFICES ASSUME Init PROVE Accesses!AInit
  OBVIOUS
<1>1. TypeOK /\ Pushed = {} /\ mWaiters = <<>>
  BY InitType DEF Init, Pushed
<1>2. Kinds = <<>>
  BY <1>1 DEF Kinds
<1>3. Where = [i \in Ticket |-> "absent"]
  BY <1>1 DEF Where
<1>4. QED
  BY <1>2, <1>3 DEF Accesses!AInit, Init, Kinds, Where, Ticket, Accesses!Access

(* While no writer is admitted beside one that releases, the node's lock   *)
(* implements ordered access: tasks use the value in the order in which    *)
(* the dispatcher registered them, whatever the workers' interleaving.     *)
THEOREM LockRefines == SerialSpec => ImplementsOrderedAccess
<1>1. SerialSpec => []IInv
  BY LockInvariant
<1>2. SerialSpec => []OrderedAdmission
  BY AccessesAreOrdered
<1>3. QED
  BY <1>1, <1>2, InitRefines, StepRefines, PTL
     DEF SerialSpec, ImplementsOrderedAccess, Accesses!ASpec
=============================================================================
