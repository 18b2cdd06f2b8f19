-------------------------- MODULE SpscArrayProofs --------------------------
(***************************************************************************)
(* SpscArray hands over every element once and in order, for every         *)
(* capacity and every number of pushes, and implements Fifo.               *)
(***************************************************************************)
EXTENDS SpscArray, TLAPS, SequenceTheorems

(* Two positions less than the capacity apart have different slots.        *)
LEMMA SlotsDiffer ==
  ASSUME NEW a \in Nat, NEW b \in Nat, a < b, b - a < mCapacity
  PROVE  slotOf(a) # slotOf(b)
<1>1. mCapacity \in Nat /\ mCapacity > 0
  BY ConstantsAssumption
<1>2. /\ a = mCapacity * (a \div mCapacity) + slotOf(a)
      /\ a \div mCapacity \in Int
  BY <1>1, SMT DEF slotOf
<1>3. /\ b = mCapacity * (b \div mCapacity) + slotOf(b)
      /\ b \div mCapacity \in Int
  BY <1>1, SMT DEF slotOf
<1>4. SUFFICES ASSUME slotOf(a) = slotOf(b) PROVE FALSE
  OBVIOUS
<1> DEFINE q == a \div mCapacity
           r == b \div mCapacity
<1>5. b - a = mCapacity * (r - q)
  BY <1>1, <1>2, <1>3, <1>4, SMT DEF slotOf
<1> HIDE DEF q, r
<1>6. r - q \in Int
  BY <1>2, <1>3 DEF q, r
<1>7. r - q <= 0 \/ r - q >= 1
  BY <1>6
<1>8. r - q <= 0 => mCapacity * (r - q) <= 0
  BY <1>1, <1>6, SMT
<1>9. r - q >= 1 => mCapacity * (r - q) >= mCapacity
  BY <1>1, <1>6, SMT
<1> QED
  BY <1>1, <1>5, <1>6, <1>7, <1>8, <1>9

(* Every position has its slot.                                            *)
LEMMA SlotType ==
  ASSUME NEW a \in Nat
  PROVE  slotOf(a) \in Slot
BY ConstantsAssumption, SMT DEF slotOf, Slot

(* The empty ring.                                                         *)
LEMMA InitRing == Init => RingInv
<1> SUFFICES ASSUME Init PROVE RingInv
  OBVIOUS
<1>1. TypeOK
  BY DEF Init, TypeOK
<1>2. InOrder
  BY DEF Init, InOrder
<1> QED
  BY <1>1, <1>2, ConstantsAssumption DEF Init, RingInv

(* The producer's steps leave what the consumer can see alone.             *)
LEMMA PushRing == RingInv /\ Push => RingInv'
<1> SUFFICES ASSUME RingInv, Push PROVE RingInv'
  OBVIOUS
<1> USE DEF RingInv
<1>1. CASE Assert
  <2>1. TypeOK'
    BY <1>1 DEF Assert, TypeOK, consumerVars
  <2>2. InOrder'
    BY <1>1 DEF Assert, InOrder, consumerVars
  <2> QED
    BY <1>1, <2>1, <2>2 DEF Assert, HasRoom, consumerVars
<1>2. CASE Store
  <2>0. mData' \in [Slot -> Nat]
    <3>1. mData \in [Slot -> Nat] /\ mWritePos + 1 \in Nat
      BY DEF TypeOK
    <3>2. mData' = [mData EXCEPT ![slotOf(mWritePos)] = mWritePos + 1]
      BY <1>2 DEF Store
    <3> QED
      BY <3>1, <3>2
  <2>1. TypeOK'
    BY <1>2, <2>0 DEF Store, TypeOK, consumerVars
  <2>2. InOrder'
    BY <1>2 DEF Store, InOrder, consumerVars
  <2>3. \A pos \in mReadPos..(mWritePos - 1) : mData'[slotOf(pos)] = pos + 1
    <3> TAKE pos \in mReadPos..(mWritePos - 1)
    <3>1. pos \in Nat /\ pos < mWritePos /\ mWritePos - pos < mCapacity
      BY <1>2, ConstantsAssumption DEF Store, TypeOK
    <3>2. slotOf(pos) # slotOf(mWritePos)
      BY <3>1, SlotsDiffer DEF TypeOK
    <3> QED
      BY <1>2, <3>1, <3>2, SlotType DEF Store, TypeOK
  <2>4. mData'[slotOf(mWritePos)] = mWritePos + 1
    BY <1>2, SlotType DEF Store, TypeOK
  <2> QED
    BY <1>2, <2>1, <2>2, <2>3, <2>4 DEF Store, consumerVars
<1>3. CASE Publish
  <2>1. TypeOK'
    BY <1>3 DEF Publish, TypeOK, consumerVars
  <2>2. InOrder'
    BY <1>3 DEF Publish, InOrder, TypeOK, consumerVars
  <2>3. \A pos \in mReadPos..mWritePos : mData[slotOf(pos)] = pos + 1
    BY <1>3 DEF Publish, TypeOK
  <2> QED
    BY <1>3, <2>1, <2>2, <2>3, ConstantsAssumption DEF Publish, TypeOK, consumerVars
<1> QED
  BY <1>1, <1>2, <1>3 DEF Push

(* consume_all hands out what lies between the positions it read.          *)
LEMMA ConsumeAllRing == RingInv /\ ConsumeAll => RingInv'
<1> SUFFICES ASSUME RingInv, ConsumeAll PROVE RingInv'
  OBVIOUS
<1> USE DEF RingInv
<1>1. CASE BeginConsume
  <2>1. TypeOK'
    BY <1>1 DEF BeginConsume, TypeOK, producerVars
  <2>2. InOrder'
    BY <1>1 DEF BeginConsume, InOrder, producerVars
  <2> QED
    BY <1>1, <2>1, <2>2 DEF BeginConsume, TypeOK, producerVars
<1>2. CASE CallBack
  <2>1. mData[slotOf(readPos)] = Len(taken) + 1
    BY <1>2 DEF CallBack, TypeOK
  <2>2. taken' \in Seq(Nat) /\ Len(taken') = Len(taken) + 1
    BY <1>2, SlotType DEF CallBack, TypeOK
  <2>3. TypeOK'
    BY <1>2, <2>2 DEF CallBack, TypeOK, producerVars
  <2>4. \A i \in 1..Len(taken') : taken'[i] = i
    BY <1>2, <2>1, <2>2 DEF CallBack, TypeOK, InOrder
  <2>5. InOrder'
    BY <1>2, <2>2, <2>4 DEF CallBack, TypeOK, InOrder, producerVars
  <2> QED
    BY <1>2, <2>2, <2>3, <2>5 DEF CallBack, TypeOK, producerVars
<1>3. CASE EndConsume
  <2>1. TypeOK'
    BY <1>3 DEF EndConsume, TypeOK, producerVars
  <2>2. InOrder'
    BY <1>3 DEF EndConsume, InOrder, producerVars
  <2>3. /\ mReadPos \in Nat /\ mWritePos \in Nat
        /\ mReadPos' \in Nat /\ mReadPos <= mReadPos' /\ mReadPos' <= mWritePos
        /\ looked = <<>> /\ Len(taken) = mReadPos'
    BY <1>3 DEF EndConsume, TypeOK
  <2>4. \A pos \in mReadPos'..(mWritePos - 1) : mData[slotOf(pos)] = pos + 1
    BY <2>3
  <2> QED
    BY <1>3, <2>1, <2>2, <2>3, <2>4, ConstantsAssumption DEF EndConsume, TypeOK, producerVars
<1> QED
  BY <1>1, <1>2, <1>3 DEF ConsumeAll

(* First reads only what was published, and Skip gives up what was read.   *)
LEMMA TakeRing == RingInv /\ Take => RingInv'
<1> SUFFICES ASSUME RingInv, Take PROVE RingInv'
  OBVIOUS
<1> USE DEF RingInv
<1>1. CASE Valid
  <2>1. TypeOK'
    BY <1>1 DEF Valid, TypeOK, producerVars
  <2>2. InOrder'
    BY <1>1 DEF Valid, InOrder, producerVars
  <2> QED
    BY <1>1, <2>1, <2>2 DEF Valid, TypeOK, producerVars
<1>2. CASE First
  <2>0. /\ mReadPos \in Nat /\ mWritePos \in Nat /\ Len(looked) \in Nat
        /\ Len(taken) = mReadPos
    BY <1>2 DEF First, TypeOK
  <2> DEFINE at == mReadPos + Len(looked)
  <2>a. at \in mReadPos..(mWritePos - 1)
    BY <1>2, <2>0 DEF First
  <2>1. mData[slotOf(at)] = Len(taken) + Len(looked) + 1
    BY <2>0, <2>a
  <2>2. looked' \in Seq(Nat) /\ Len(looked') = Len(looked) + 1
    BY <1>2, <2>1 DEF First, TypeOK
  <2>3. TypeOK'
    BY <1>2, <2>2 DEF First, TypeOK, producerVars
  <2>4. \A i \in 1..Len(looked') : looked'[i] = Len(taken) + i
    <3>1. looked \in Seq(Nat) /\ looked' = Append(looked, mData[slotOf(at)])
      BY <1>2 DEF First, TypeOK
    <3>2. looked' = Append(looked, Len(taken) + Len(looked) + 1)
      BY <2>1, <3>1
    <3>3. \A i \in 1..Len(looked) : looked[i] = Len(taken) + i
      BY DEF InOrder
    <3>4. ASSUME NEW i \in 1..Len(looked') PROVE looked'[i] = Len(taken) + i
      <4>1. CASE i \in 1..Len(looked)
        <5>1. looked'[i] = looked[i]
          BY <3>1, <4>1
        <5> QED
          BY <3>3, <4>1, <5>1
      <4>2. CASE i = Len(looked) + 1
        <5>1. looked'[i] = Len(taken) + Len(looked) + 1
          BY <3>1, <3>2, <4>2
        <5> QED
          BY <2>0, <4>2, <5>1
      <4> QED
        BY <2>0, <2>2, <4>1, <4>2
    <3> HIDE DEF RingInv
    <3> QED
      BY <3>4
  <2>5. InOrder'
    BY <1>2, <2>2, <2>4 DEF First, TypeOK, InOrder, producerVars
  <2> QED
    BY <1>2, <2>2, <2>3, <2>5 DEF First, TypeOK, producerVars
<1>3. CASE Skip
  <2>1. taken' \in Seq(Nat) /\ Len(taken') = Len(taken) + Len(looked) /\ looked' = <<>>
    BY <1>3 DEF Skip, TypeOK
  <2>2. mReadPos' = mReadPos + Len(looked) /\ mReadPos' <= mWritePos
    BY <1>3 DEF Skip, TypeOK, InOrder
  <2>3. TypeOK'
    BY <1>3, <2>1, <2>2 DEF Skip, TypeOK, producerVars
  <2>4. \A i \in 1..Len(taken') : taken'[i] = i
    BY <1>3, <2>1 DEF Skip, TypeOK, InOrder
  <2>5. InOrder'
    BY <1>3, <2>1, <2>2, <2>4 DEF Skip, TypeOK, InOrder, producerVars
  <2>6. /\ mReadPos \in Nat /\ mWritePos \in Nat /\ Len(looked) \in Nat
        /\ mReadPos' \in Nat /\ mReadPos <= mReadPos' /\ Len(taken') = mReadPos'
    <3>1. mReadPos \in Nat /\ mWritePos \in Nat /\ looked \in Seq(Nat)
      BY DEF TypeOK
    <3>2. consumer = "idle"
      BY <1>3 DEF Skip
    <3>3. Len(looked) \in Nat /\ Len(taken) = mReadPos
      BY <3>1, <3>2
    <3> QED
      BY <2>1, <2>2, <3>1, <3>3
  <2>7. \A pos \in mReadPos'..(mWritePos - 1) : mData[slotOf(pos)] = pos + 1
    BY <2>6
  <2> QED
    BY <1>3, <2>1, <2>2, <2>3, <2>5, <2>6, <2>7, ConstantsAssumption
    DEF Skip, TypeOK, producerVars
<1> QED
  BY <1>1, <1>2, <1>3 DEF Take

(* The ring keeps its invariant whatever the two threads do, so the        *)
(* consumer gets what the producer pushed, in order, once.                 *)
THEOREM RingInvariant == Spec => []RingInv
<1>1. RingInv /\ [Next]_vars => RingInv'
  <2> SUFFICES ASSUME RingInv, [Next]_vars PROVE RingInv'
    OBVIOUS
  <2>1. CASE UNCHANGED vars
    BY <2>1 DEF vars, RingInv, TypeOK, InOrder
  <2> QED
    BY <2>1, PushRing, ConsumeAllRing, TakeRing DEF Next
<1> QED
  BY InitRing, <1>1, PTL DEF Spec

(* Every element is handed over once and in order: see InOrder.            *)
THEOREM HandedOverInOrder == Spec => []InOrder
<1>1. RingInv => InOrder
  BY DEF RingInv
<1> QED
  BY RingInvariant, <1>1, PTL

-----------------------------------------------------------------------------
(* The refinement of Fifo.                                                 *)

(* The k elements after the first m.                                       *)
Numbers(m, k) == [i \in 1..k |-> m + i]

(* Numbers are a sequence.                                                 *)
LEMMA NumbersSeq ==
  ASSUME NEW m \in Nat, NEW k \in Nat
  PROVE  /\ Numbers(m, k) \in Seq(Nat) /\ Len(Numbers(m, k)) = k
         /\ \A i \in 1..k : Numbers(m, k)[i] = m + i
<1>1. Numbers(m, k) \in [1..k -> Nat]
  BY DEF Numbers
<1>2. Numbers(m, k) \in Seq(Nat)
  <2>1. Seq(Nat) = UNION {[1..j -> Nat] : j \in Nat}
    BY SeqDef
  <2>2. QED
    BY <1>1, <2>1, Zenon
<1>3. Len(Numbers(m, k)) = k
  BY <1>1, <1>2, LenProperties
<1>4. QED
  BY <1>2, <1>3 DEF Numbers

(* Accepting one more element.                                             *)
LEMMA NumbersAppend ==
  ASSUME NEW m \in Nat, NEW k \in Nat
  PROVE  Numbers(m, k + 1) = Append(Numbers(m, k), m + k + 1)
<1>1. /\ Numbers(m, k) \in Seq(Nat) /\ Len(Numbers(m, k)) = k
      /\ \A i \in 1..k : Numbers(m, k)[i] = m + i
  BY NumbersSeq
<1>2. /\ Numbers(m, k + 1) \in Seq(Nat) /\ Len(Numbers(m, k + 1)) = k + 1
      /\ \A i \in 1..(k + 1) : Numbers(m, k + 1)[i] = m + i
  <2>1. k + 1 \in Nat
    OBVIOUS
  <2>2. QED
    BY <2>1, NumbersSeq
<1>3. /\ Append(Numbers(m, k), m + k + 1) \in Seq(Nat)
      /\ Len(Append(Numbers(m, k), m + k + 1)) = k + 1
      /\ \A i \in 1..k : Append(Numbers(m, k), m + k + 1)[i] = m + i
      /\ Append(Numbers(m, k), m + k + 1)[k + 1] = m + k + 1
  <2>1. m + k + 1 \in Nat
    OBVIOUS
  <2>2. QED
    BY <1>1, <2>1, AppendProperties
<1>4. \A i \in 1..(k + 1) : Numbers(m, k + 1)[i] = Append(Numbers(m, k), m + k + 1)[i]
  BY <1>2, <1>3
<1>5. QED
  BY <1>2, <1>3, <1>4, SeqEqual

(* Handing out the first k of k + l elements.                              *)
Firsts(s, k) == SubSeq(s, 1, k)
Rest(s, k) == SubSeq(s, k + 1, Len(s))
LEMMA NumbersSplit ==
  ASSUME NEW m \in Nat, NEW k \in Nat, NEW l \in Nat
  PROVE  Firsts(Numbers(m, k + l), k) = Numbers(m, k) /\ Rest(Numbers(m, k + l), k) = Numbers(m + k, l)
<1>1. /\ Numbers(m, k + l) \in Seq(Nat) /\ Len(Numbers(m, k + l)) = k + l
      /\ \A i \in 1..(k + l) : Numbers(m, k + l)[i] = m + i
  <2>1. k + l \in Nat
    OBVIOUS
  <2>2. QED
    BY <2>1, NumbersSeq
<1>2. SubSeq(Numbers(m, k + l), 1, k) = [i \in 1..k |-> Numbers(m, k + l)[i]]
  BY <1>1
<1>3. SubSeq(Numbers(m, k + l), k + 1, k + l) = [i \in 1..l |-> Numbers(m, k + l)[i + k]]
  BY <1>1
<1>4. \A i \in 1..k : Numbers(m, k + l)[i] = m + i
  BY <1>1
<1>5. \A i \in 1..l : Numbers(m, k + l)[i + k] = (m + k) + i
  BY <1>1
<1>6. SubSeq(Numbers(m, k + l), 1, k) = Numbers(m, k)
  BY <1>2, <1>4 DEF Numbers
<1>7. SubSeq(Numbers(m, k + l), k + 1, k + l) = Numbers(m + k, l)
  BY <1>3, <1>5 DEF Numbers
<1>8. QED
  BY <1>1, <1>6, <1>7 DEF Firsts, Rest

(* Between what was handed out and mWritePos the slots hold what was       *)
(* pushed.                                                                 *)
ContentsNumbered ==
  /\ Contents = Numbers(Len(taken), mWritePos - Len(taken))
  /\ taken \in Seq(Nat) /\ mWritePos \in Nat /\ Len(taken) <= mWritePos

(* So it is in every state that satisfies the ring's invariant.            *)
LEMMA ContentsAre == RingInv => ContentsNumbered
<1> SUFFICES ASSUME RingInv PROVE ContentsNumbered
  OBVIOUS
<1>1. /\ Len(taken) \in Nat /\ mWritePos \in Nat /\ taken \in Seq(Nat) /\ looked \in Seq(Nat)
      /\ mReadPos \in Nat /\ readPos \in Nat
  BY DEF RingInv, TypeOK
<1>2. mReadPos <= Len(taken) /\ Len(taken) <= mWritePos
  <2>1. mReadPos <= Len(taken)
    BY <1>1 DEF RingInv
  <2>2. Len(taken) <= mWritePos
    BY <1>1 DEF RingInv, InOrder
  <2>3. QED
    BY <2>1, <2>2
<1>3. \A i \in 1..(mWritePos - Len(taken)) : mData[slotOf(Len(taken) + i - 1)] = Len(taken) + i
  <2>1. SUFFICES ASSUME NEW i \in 1..(mWritePos - Len(taken))
                 PROVE  mData[slotOf(Len(taken) + i - 1)] = Len(taken) + i
    OBVIOUS
  <2>2. Len(taken) + i - 1 \in mReadPos..(mWritePos - 1)
    BY <1>1, <1>2
  <2>3. mData[slotOf(Len(taken) + i - 1)] = (Len(taken) + i - 1) + 1
    BY <2>2 DEF RingInv
  <2>4. QED
    BY <1>1, <2>3
<1>4. Contents = Numbers(Len(taken), mWritePos - Len(taken))
  BY <1>3 DEF Contents, Numbers
<1>5. QED
  BY <1>1, <1>2, <1>4 DEF ContentsNumbered

(* Publish is what accepts an element.                                     *)
LEMMA PublishPushes ==
  ASSUME ContentsNumbered, ContentsNumbered', Publish
  PROVE  Elements!Push
<1>1. mWritePos' = mWritePos + 1 /\ taken' = taken
  BY DEF Publish, consumerVars
<1>2. PICK m, k : m = Len(taken) /\ k = mWritePos - Len(taken)
  OBVIOUS
<1>3. m \in Nat /\ k \in Nat /\ mWritePos + 1 - m = k + 1
  BY <1>2 DEF ContentsNumbered
<1>4. Contents = Numbers(m, k)
  BY <1>2 DEF ContentsNumbered
<1>5. Contents' = Numbers(m, k + 1)
  <2>1. Contents' = Numbers(m, mWritePos + 1 - m)
    BY <1>1, <1>2 DEF ContentsNumbered, Numbers
  <2>2. QED
    BY <1>3, <2>1
<1>6. Contents' = Append(Contents, m + k + 1)
  BY <1>3, <1>4, <1>5, NumbersAppend
<1>7. Len(Contents) = k
  BY <1>3, <1>4, NumbersSeq
<1>8. QED
  BY <1>1, <1>2, <1>6, <1>7 DEF Elements!Push

(* Handing out k elements takes them from the front of the queue.          *)
LEMMA HandOut ==
  ASSUME ContentsNumbered, ContentsNumbered', mWritePos' = mWritePos,
         NEW m, m = Len(taken), NEW k \in Nat \ {0}, m + k <= mWritePos,
         taken' = taken \o Numbers(m, k)
  PROVE  Elements!Take
<1>1. PICK l : l = mWritePos - m - k
  OBVIOUS
<1>2. /\ m \in Nat /\ l \in Nat /\ k \in Nat /\ mWritePos \in Nat /\ taken \in Seq(Nat)
      /\ mWritePos - m = k + l /\ mWritePos - (m + k) = l
  BY <1>1 DEF ContentsNumbered
<1>3. Contents = Numbers(m, k + l)
  BY <1>2 DEF ContentsNumbered
<1>4. Len(taken') = m + k
  <2>1. Numbers(m, k) \in Seq(Nat) /\ Len(Numbers(m, k)) = k
    BY <1>2, NumbersSeq
  <2>2. Len(taken \o Numbers(m, k)) = Len(taken) + Len(Numbers(m, k))
    BY <1>2, <2>1, ConcatProperties
  <2>3. QED
    BY <2>1, <2>2
<1>5. Contents' = Numbers(m + k, l)
  <2>1. Contents' = Numbers(Len(taken'), mWritePos' - Len(taken'))
    BY DEF ContentsNumbered, Numbers
  <2>2. QED
    BY <1>2, <1>4, <2>1
<1>6. Len(Contents) = k + l
  <2>1. k + l \in Nat
    BY <1>2
  <2>2. QED
    BY <1>2, <1>3, <2>1, NumbersSeq
<1>s. Firsts(Contents, k) = Numbers(m, k) /\ Rest(Contents, k) = Numbers(m + k, l)
  <2>1. m \in Nat /\ k \in Nat /\ l \in Nat
    BY <1>2
  <2>2. Firsts(Numbers(m, k + l), k) = Numbers(m, k) /\ Rest(Numbers(m, k + l), k) = Numbers(m + k, l)
    BY ONLY <2>1, NumbersSplit
  <2>3. QED
    BY ONLY <1>3, <2>2
<1>7. SubSeq(Contents, 1, k) = Numbers(m, k)
  BY <1>s DEF Firsts
<1>8. SubSeq(Contents, k + 1, Len(Contents)) = Numbers(m + k, l)
  BY <1>s DEF Rest
<1>9. k \in 1..Len(Contents)
  BY <1>2, <1>6
<1>10. QED
  BY <1>5, <1>7, <1>8, <1>9 DEF Elements!Take

(* The callback of consume_all hands out one element.                      *)
LEMMA CallBackTakes ==
  ASSUME RingInv, ContentsNumbered, ContentsNumbered', CallBack
  PROVE  Elements!Take
<1>0. /\ Len(taken) \in Nat /\ mWritePos \in Nat /\ taken \in Seq(Nat) /\ mReadPos \in Nat
      /\ readPos \in Nat /\ writePos \in Nat /\ consumer = "consuming" /\ readPos < writePos
  BY DEF RingInv, TypeOK, CallBack
<1>1. /\ Len(taken) = readPos /\ readPos < mWritePos /\ mReadPos <= readPos
  BY <1>0 DEF RingInv
<1>2. mData[slotOf(readPos)] = Len(taken) + 1
  BY <1>0, <1>1 DEF RingInv
<1>3. taken' = Append(taken, Len(taken) + 1) /\ mWritePos' = mWritePos
  BY <1>2 DEF CallBack, producerVars
<1>4. Append(taken, Len(taken) + 1) = taken \o <<Len(taken) + 1>>
  BY <1>0, AppendIsConcat
<1>5. <<Len(taken) + 1>> = Numbers(Len(taken), 1)
  BY <1>0 DEF Numbers
<1>6. PICK m : m = Len(taken)
  OBVIOUS
<1>7. taken' = taken \o Numbers(m, 1)
  BY <1>3, <1>4, <1>5, <1>6
<1>8. 1 \in Nat \ {0} /\ m + 1 <= mWritePos
  BY <1>0, <1>1, <1>6
<1>9. QED
  BY <1>3, <1>6, <1>7, <1>8, HandOut

(* Skip hands out what First looked at.                                    *)
LEMMA SkipTakes ==
  ASSUME RingInv, ContentsNumbered, ContentsNumbered', Skip
  PROVE  Elements!Take
<1>0. /\ Len(taken) \in Nat /\ mWritePos \in Nat /\ looked \in Seq(Nat) /\ looked # <<>>
      /\ taken' = taken \o looked /\ mWritePos' = mWritePos
  BY DEF RingInv, TypeOK, Skip, producerVars
<1>1. PICK m, k : m = Len(taken) /\ k = Len(looked)
  OBVIOUS
<1>2. k \in Nat \ {0}
  BY <1>0, <1>1
<1>3. m + k <= mWritePos /\ \A i \in 1..k : looked[i] = m + i
  BY <1>1 DEF RingInv, InOrder
<1>4. looked = Numbers(m, k)
  <2>1. looked = [i \in 1..k |-> looked[i]]
    BY <1>0, <1>1
  <2>2. QED
    BY <1>3, <2>1 DEF Numbers
<1>5. QED
  BY <1>0, <1>1, <1>2, <1>3, <1>4, HandOut

(* The other steps of the two threads do not show.                         *)
LEMMA StepTakes ==
  RingInv /\ ContentsNumbered /\ ContentsNumbered' /\ [Next]_vars
    => [Elements!Push \/ Elements!Take]_<<Contents, taken>>
<1> SUFFICES ASSUME RingInv, ContentsNumbered, ContentsNumbered', [Next]_vars
             PROVE  Elements!Push \/ Elements!Take \/ UNCHANGED <<Contents, taken>>
  OBVIOUS
<1>1. CASE UNCHANGED <<mWritePos, taken>>
  BY <1>1 DEF ContentsNumbered, Numbers
<1>2. CASE Publish
  BY <1>2, PublishPushes
<1>3. CASE CallBack
  BY <1>3, CallBackTakes
<1>4. CASE Skip
  BY <1>4, SkipTakes
<1>5. CASE Assert \/ Store \/ BeginConsume \/ EndConsume \/ Valid \/ First \/ UNCHANGED vars
  <2>1. UNCHANGED <<mWritePos, taken>>
    BY <1>5 DEF Assert, Store, BeginConsume, EndConsume, Valid, First, vars, consumerVars,
                producerVars
  <2>2. QED
    BY <1>1, <2>1
<1>6. QED
  BY <1>2, <1>3, <1>4, <1>5 DEF Next, Push, ConsumeAll, Take

(* Nothing is in the ring at the start.                                    *)
LEMMA InitEmpty == Init => Elements!Init
<1> SUFFICES ASSUME Init PROVE Elements!Init
  OBVIOUS
<1>1. taken = <<>> /\ mWritePos = 0 /\ 1..(mWritePos - Len(taken)) = {}
  BY DEF Init
<1>2. Contents = <<>>
  BY <1>1 DEF Contents
<1>3. QED
  BY <1>1, <1>2 DEF Elements!Init

(* The ring implements a FIFO, for every capacity: an element is accepted  *)
(* when Publish makes it visible and handed out by its callback or by Skip.*)
THEOREM RingRefines == Spec => ImplementsFifo
<1>1. Spec => []ContentsNumbered
  BY RingInvariant, ContentsAre, PTL
<1>2. QED
  BY <1>1, RingInvariant, InitEmpty, StepTakes, PTL
     DEF Spec, ImplementsFifo, Elements!Spec
=============================================================================
