-------------------------- MODULE SharedMutexInv --------------------------
(***************************************************************************)
(* The inductive invariant of SharedMutex under SerialSpec, part by part.  *)
(* It says why the lock order holds: mReaders locates the first unpopped   *)
(* writer because only readers in front of that writer can have finished,  *)
(* and every piece of knowledge a task or a wake-up carries (a position    *)
(* read earlier, an id read earlier, a queued message) stays true.         *)
(***************************************************************************)
EXTENDS SharedMutex

Active(w) == pc[w] = "holding" \/ pc[w] \in Releasing

(* Tasks are where tasks of their kind can be, and a ticket not yet pushed *)
(* has no state.                                                           *)
LabelsInv ==
  /\ \A i \in Ticket \ Pushed :
       /\ pc[i] = "absent" /\ seen[i] = -1 /\ messages[i] = 0 /\ phase[i] = "none"
       /\ count[i] = 0
  /\ \A i \in Pushed : pc[i] # "absent"
  /\ \A w \in Writers :
       pc[w] \notin {"admitted", "unschedulable"} /\ seen[w] = -1 /\ phase[w] = "none"
  /\ \A r \in Readers : pc[r] # "holding" /\ pc[r] \notin Releasing

(* The queue is ordered by workflow, a writer first in its own.            *)
OrderInv ==
  /\ \A i \in Pushed : Wf(i) <= workflowId
  /\ \A i, j \in Pushed : i < j => Wf(i) <= Wf(j)
  /\ \A i \in Pushed, w \in Writers : i < w => Wf(i) < Wf(w)

(* The id queue holds the workflow ids of the writers, in order, and its   *)
(* read position separates the popped ones from the others.                *)
IdsInv ==
  /\ idPos <= Len(ids)
  /\ \A n \in 1..Len(ids) : ids[n] <= workflowId
  /\ \A m, n \in 1..Len(ids) : m < n => ids[m] < ids[n]
  /\ \A n \in 1..Len(ids) : \E w \in Writers : ids[n] = Wf(w)
  /\ \A w \in Writers : \E n \in 1..Len(ids) : ids[n] = Wf(w) /\ (n <= idPos <=> Popped(w))

(* Nobody holds the lock beside a writer that holds or releases it.        *)
ExclusionInv == \A v, w \in Writers : Active(v) /\ Active(w) => v = w

BehindPopped(i) == \A w \in Writers : w < i => Popped(w)
AllBeforeLeft(i) == \A j \in 1..(i - 1) : Left(j)

(* What was granted, what a task has read to be granted, and what a queued *)
(* wake-up grants.                                                         *)
GrantInv ==
  /\ \A w \in Writers : (Active(w) \/ Popped(w)) => AllBeforeLeft(w)
  /\ \A w \in Writers : messages[w] > 0 => AllBeforeLeft(w)
  /\ \A r \in Readers :
       pc[r] \in {"admitted", "done"} \/ seen[r] # -1 \/ messages[r] > 0 => BehindPopped(r)
  /\ \A r \in Readers : pc[r] = "check" /\ firstId[r] > Wf(r) => BehindPopped(r)
  /\ \A w \in Writers : pc[w] = "check" => readPos[w] <= mReadPos

(* Skipped entries are those of tasks that left; a popped writer that is   *)
(* not skipped yet is just about to skip itself.                           *)
PositionInv ==
  /\ mReadPos <= Len(mWaiters)
  /\ \A j \in 1..mReadPos : Left(j)
  /\ \A w \in Writers : Popped(w) /\ w > mReadPos => pc[w] = "skip"

(* Where Unlock and Wake stand in the queue.                               *)
Scanned(w) == (mReadPos + 1)..(mReadPos + count[w])
ReleaseAt(w) ==
  /\ pc[w] \notin Releasing => count[w] = 0
  /\ pc[w] = "unlocking" => mReadPos + count[w] < w
  /\ pc[w] = "count" => mReadPos + count[w] + 1 < w
  /\ pc[w] \in {"pop", "skip"} => mReadPos + count[w] + 1 = w
  /\ pc[w] \in InWake \ {"endWake"} =>
       mReadPos + count[w] <= Len(mWaiters) /\ Scanned(w) \subseteq Readers
  /\ pc[w] = "first" => mReadPos + count[w] < Len(mWaiters)
  /\ pc[w] = "wakeReader" => cur[w] = mReadPos + count[w] + 1 /\ cur[w] \in Readers
  /\ pc[w] \in {"wakeWriter", "skipReaders"} =>
       cur[w] = mReadPos + count[w] + 1 /\ cur[w] \in Writers
  /\ pc[w] = "skipReaders" => \A j \in Scanned(w) : Left(j)
  /\ pc[w] = "enqueue" =>
       \/ cur[w] = mReadPos + count[w] /\ cur[w] \in Readers
       \/ cur[w] = mReadPos + 1 /\ cur[w] \in Writers /\ count[w] = 0
ReleaseInv == \A w \in Writers : ReleaseAt(w)

(* The stored values come from writers that were granted the lock, the     *)
(* current one from the last of them.                                      *)
ValueInv ==
  /\ \A w \in written : w \in Writers /\ (pc[w] \in Releasing \/ pc[w] = "done")
  /\ value \in written \cup {0}
  /\ \A w \in written : w <= value
  /\ ObservedValue

(* The inductive invariant: it implies the lock order and the value each   *)
(* reader observes, and every step of SerialSpec keeps it.                 *)
IInv ==
  /\ TypeOK /\ LabelsInv /\ OrderInv /\ IdsInv /\ ExclusionInv /\ GrantInv
  /\ PositionInv /\ ReleaseInv /\ ReaderAccounting /\ ValueInv

(* Writer w has already reached the entry of reader r in Wake, or has left *)
(* Wake.                                                                   *)
Told(w, r) ==
  \/ pc[w] \in {"endWake", "done"}
  \/ pc[w] = "enqueue" /\ r < cur[w]
  \/ pc[w] \in {"wake", "first", "wakeReader", "wakeWriter", "skipReaders"}
     /\ r <= mReadPos + count[w]

(* A reader depends on the lock once, from its registration until the      *)
(* writer of its workflow tells it; that writer is not dispatched before   *)
(* all of its readers are registered.                                      *)
CountsInv ==
  /\ toPush # {} => \A w \in Writers : Wf(w) = workflowId => pc[w] = "queued"
  /\ \A r \in Readers :
       waitingLockCount[r] = IF \E w \in Writers : Wf(w) = Wf(r) /\ ~Told(w, r) THEN 1 ELSE 0

SerialInv == IInv /\ CountsInv
=============================================================================
