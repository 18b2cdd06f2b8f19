----------------------------- MODULE SpscArray -----------------------------
(***************************************************************************)
(* DSpscArray.h, the ring that carries raises to the dispatcher, tasks to  *)
(* the workers and waiters to the locks: one thread pushes, one thread     *)
(* takes, by consume_all or by Valid, First and Skip.  Pushing is three    *)
(* accesses to shared memory and taking is several, interleaved here; the  *)
(* n-th element pushed is the number n.  Stores and loads of one thread    *)
(* take effect in program order.  Positions are not wrapped at 32 bits.    *)
(***************************************************************************)
EXTENDS Integers, Sequences

CONSTANTS
  mCapacity,
  MaxPushes      \* bound on the elements pushed in one behaviour

ASSUME ConstantsAssumption == mCapacity \in Nat \ {0} /\ MaxPushes \in Nat

VARIABLES
  mData,
  mWritePos,
  mReadPos,
  producer,   \* "idle", "store", "publish", "aborted"
  consumer,   \* "idle", "first", "consuming"
  readPos, writePos,   \* consume_all's local copies
  looked,     \* the elements First returned since the last Skip
  taken       \* the elements that the consumer is done with

vars == <<mData, mWritePos, mReadPos, producer, consumer, readPos, writePos, looked, taken>>
producerVars == <<mData, mWritePos, producer>>
consumerVars == <<mReadPos, consumer, readPos, writePos, looked, taken>>

Slot == 0..(mCapacity - 1)
slotOf(pos) == pos % mCapacity

Init ==
  /\ mData = [s \in Slot |-> 0]
  /\ mWritePos = 0 /\ mReadPos = 0
  /\ producer = "idle" /\ consumer = "idle"
  /\ readPos = 0 /\ writePos = 0
  /\ looked = <<>> /\ taken = <<>>
-----------------------------------------------------------------------------
(* Push: the assertion, the store, the publication.                        *)

(* Mutant: one element too many.                                           *)
HasRoom_OneMore == mWritePos - mReadPos <= mCapacity
HasRoom == mWritePos - mReadPos < mCapacity

Assert ==
  /\ producer = "idle" /\ mWritePos < MaxPushes
  /\ producer' = IF HasRoom THEN "store" ELSE "aborted"
  /\ UNCHANGED <<mData, mWritePos, consumerVars>>

Store ==
  /\ producer = "store"
  /\ mData' = [mData EXCEPT ![slotOf(mWritePos)] = mWritePos + 1]
  /\ producer' = "publish"
  /\ UNCHANGED <<mWritePos, consumerVars>>

Publish ==
  /\ producer = "publish"
  /\ mWritePos' = mWritePos + 1
  /\ producer' = "idle"
  /\ UNCHANGED <<mData, consumerVars>>
-----------------------------------------------------------------------------
(* consume_all: positions first, one callback per element, then mReadPos.  *)

BeginConsume ==
  /\ consumer = "idle" /\ looked = <<>>
  /\ consumer' = "consuming"
  /\ writePos' = mWritePos /\ readPos' = mReadPos
  /\ UNCHANGED <<producerVars, mReadPos, looked, taken>>

CallBack ==
  /\ consumer = "consuming" /\ readPos < writePos
  /\ taken' = Append(taken, mData[slotOf(readPos)])
  /\ readPos' = readPos + 1
  /\ UNCHANGED <<producerVars, mReadPos, consumer, writePos, looked>>

EndConsume ==
  /\ consumer = "consuming" /\ readPos = writePos
  /\ mReadPos' = readPos
  /\ consumer' = "idle"
  /\ readPos' = 0 /\ writePos' = 0
  /\ UNCHANGED <<producerVars, looked, taken>>

(* Valid(k), then First(k) if it holds; Skip(k) takes k elements at once.  *)
Valid ==
  /\ consumer = "idle"
  /\ mWritePos - mReadPos - Len(looked) > 0
  /\ consumer' = "first"
  /\ UNCHANGED <<producerVars, mReadPos, readPos, writePos, looked, taken>>

First ==
  /\ consumer = "first"
  /\ looked' = Append(looked, mData[slotOf(mReadPos + Len(looked))])
  /\ consumer' = "idle"
  /\ UNCHANGED <<producerVars, mReadPos, readPos, writePos, taken>>

Skip ==
  /\ consumer = "idle" /\ looked # <<>>
  /\ mReadPos' = mReadPos + Len(looked)
  /\ taken' = taken \o looked
  /\ looked' = <<>>
  /\ UNCHANGED <<producerVars, consumer, readPos, writePos>>

Push == Assert \/ Store \/ Publish
ConsumeAll == BeginConsume \/ CallBack \/ EndConsume
Take == Valid \/ First \/ Skip

Next == Push \/ ConsumeAll \/ Take
Spec == Init /\ [][Next]_vars
-----------------------------------------------------------------------------
TypeOK ==
  /\ mData \in [Slot -> Nat]
  /\ mWritePos \in Nat /\ mReadPos \in 0..mWritePos
  /\ producer \in {"idle", "store", "publish", "aborted"}
  /\ consumer \in {"idle", "first", "consuming"}
  /\ readPos \in Nat /\ writePos \in Nat
  /\ looked \in Seq(Nat) /\ taken \in Seq(Nat)

(* What the consumer got is what was pushed: every element once, in order, *)
(* none from a slot that was overwritten or not written yet.               *)
InOrder ==
  /\ Len(taken) + Len(looked) <= mWritePos
  /\ \A i \in 1..Len(taken) : taken[i] = i
  /\ \A i \in 1..Len(looked) : looked[i] = Len(taken) + i

(* Seen through its slots and positions the ring is a FIFO.  An element is *)
(* handed out by its callback in consume_all, or when Skip gives it up.    *)
Contents == [i \in 1..(mWritePos - Len(taken)) |-> mData[slotOf(Len(taken) + i - 1)]]
Elements == INSTANCE Fifo WITH queue <- Contents, out <- taken
ImplementsFifo == Elements!Spec

(* Why it is so: the elements between the two positions are in their       *)
(* slots, no more of them than there are slots, and the consumer stays     *)
(* between the positions until it gives the slots back.  This is the       *)
(* inductive invariant.                                                    *)
RingInv ==
  /\ TypeOK /\ InOrder
  /\ mWritePos - mReadPos <= mCapacity
  /\ producer \in {"store", "publish"} => mWritePos - mReadPos < mCapacity
  /\ \A pos \in mReadPos..(mWritePos - 1) : mData[slotOf(pos)] = pos + 1
  /\ producer = "publish" => mData[slotOf(mWritePos)] = mWritePos + 1
  /\ consumer = "consuming" =>
       /\ looked = <<>>
       /\ mReadPos <= readPos /\ readPos <= writePos /\ writePos <= mWritePos
       /\ Len(taken) = readPos
  /\ consumer # "consuming" => Len(taken) = mReadPos
  /\ consumer = "first" => mReadPos + Len(looked) < mWritePos
=============================================================================
