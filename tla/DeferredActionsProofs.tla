----------------------- MODULE DeferredActionsProofs -----------------------
(***************************************************************************)
(* Proofs about DeferredActions, for any number of calls: the collection   *)
(* never stalls and handles every object once.                             *)
(***************************************************************************)
EXTENDS DeferredActions, TLAPS, FiniteSetTheorems, SequenceTheorems

Ascending(s) == \A i, j \in DOMAIN s : i < j => s[i] < s[j]

(* The objects 1..n are handled, in hand, queued or removed, each one of   *)
(* these, with h the order in which they were handled, q the queue.        *)
Accounted(mode, h, hand, q, gone, n) ==
  /\ n \in Nat /\ h \in Seq(Nat) /\ q \in Seq(Nat)
  /\ Range(h) \cup hand \cup Range(q) \cup gone = 1..n
  /\ Range(h) \cap (hand \cup Range(q) \cup gone) = {}
  /\ hand \cap (Range(q) \cup gone) = {} /\ Range(q) \cap gone = {}
  /\ \A i, j \in DOMAIN h : i # j => h[i] # h[j]
  /\ Ascending(q)
  /\ mode = "FIFO" => /\ Ascending(h)
                      /\ \A x \in Range(h) : \A y \in hand \cup Range(q) : x < y
                      /\ \A x \in hand : \A y \in Range(q) : x < y

(* An object taken when a objects had been added may be followed by y if   *)
(* the newest of them is taken first.                                      *)
Follows(y, x, a) == y < x \/ y > a

(* Last in first out: what follows in h, in hand or in the queue may do so.*)
NewestFirst(mode, h, hand, q, n, at) ==
  /\ at \in Seq(Nat) /\ \A i \in 1..Len(at) : at[i] <= n
  /\ Len(at) = IF hand = {} THEN Len(h) ELSE Len(h) + 1
  /\ mode = "FILO" =>
       /\ \A i, j \in 1..Len(h) : i < j => Follows(h[j], h[i], at[i])
       /\ \A i \in 1..Len(h) : \A y \in hand \cup Range(q) : Follows(y, h[i], at[i])
       /\ \A x \in hand : \A y \in Range(q) : Follows(y, x, at[Len(h) + 1])

IsIdle == io \in {idle, inAdd}

(* The object that has been taken from the queue and is not handled yet.   *)
InHand == IF IsIdle THEN posted[1] ELSE io
Hand == IF mHasTaskInRuning THEN {InHand} ELSE {}

TakenInv ==
  /\ mMode \in {"FIFO", "FILO"} /\ mHasTaskInRuning \in BOOLEAN
  /\ posted \in Seq(Nat)
  /\ Len(posted) = IF mHasTaskInRuning /\ IsIdle THEN 1 ELSE 0
  /\ ~IsIdle => mHasTaskInRuning
  /\ mHasTaskInRuning => InHand \in Nat \ {0}
  /\ mStatus = "Started" /\ mQueue # <<>> => mHasTaskInRuning

(* The inductive invariant.                                                *)
ActionsInv ==
  /\ TakenInv
  /\ Accounted(mMode, handled, Hand, mQueue, removed, numAdded)
  /\ NewestFirst(mMode, handled, Hand, mQueue, numAdded, takenAt)
-----------------------------------------------------------------------------
(* Sequences.                                                              *)

(* The members of a sequence.                                              *)
LEMMA Members ==
  ASSUME NEW s \in Seq(Nat)
  PROVE  /\ Len(s) \in Nat /\ DOMAIN s = 1..Len(s)
         /\ \A i \in 1..Len(s) : s[i] \in Nat /\ s[i] \in Range(s)
         /\ \A x \in Range(s) : x \in Nat /\ \E i \in 1..Len(s) : s[i] = x
<1>1. Len(s) \in Nat /\ DOMAIN s = 1..Len(s) /\ s \in [1..Len(s) -> Nat]
  BY LenProperties
<1>2. \A i \in 1..Len(s) : s[i] \in Nat
  BY <1>1
<1>3. QED
  BY <1>1, <1>2 DEF Range

(* The empty sequence.                                                     *)
LEMMA EmptyNats == <<>> \in Seq(Nat) /\ Len(<<>>) = 0
BY EmptySeq

(* A new object at the end.                                                *)
LEMMA AppendMembers ==
  ASSUME NEW s \in Seq(Nat), NEW o \in Nat
  PROVE  /\ Append(s, o) \in Seq(Nat) /\ Len(Append(s, o)) = Len(s) + 1
         /\ \A i \in 1..Len(s) : Append(s, o)[i] = s[i]
         /\ Append(s, o)[Len(s) + 1] = o
         /\ Range(Append(s, o)) = Range(s) \cup {o}
<1> DEFINE t == Append(s, o)
<1>1. /\ t \in Seq(Nat) /\ Len(t) = Len(s) + 1
      /\ \A i \in 1..Len(s) : t[i] = s[i]
      /\ t[Len(s) + 1] = o
  BY AppendProperties
<1> HIDE DEF t
<1>2. \A x \in Range(t) : x \in Range(s) \cup {o}
  <2>1. TAKE x \in Range(t)
  <2>2. PICK i \in 1..Len(t) : t[i] = x
    BY <1>1, Members
  <2>3. i \in 1..Len(s) \/ i = Len(s) + 1
    BY <1>1, <2>2, Members
  <2>4. QED
    BY <1>1, <2>2, <2>3, Members
<1>3. \A x \in Range(s) \cup {o} : x \in Range(t)
  <2>1. o \in Range(t)
    <3>1. Len(s) + 1 \in 1..Len(t)
      BY <1>1, Members
    <3>2. QED
      BY <1>1, <3>1, Members
  <2>2. ASSUME NEW x \in Range(s)
        PROVE  x \in Range(t)
    <3>1. PICK i \in 1..Len(s) : s[i] = x
      BY Members
    <3>2. i \in 1..Len(t) /\ t[i] = x
      BY <1>1, <3>1, Members
    <3>3. QED
      BY <1>1, <3>2, Members
  <2>3. QED
    BY <2>1, <2>2
<1>4. QED
  BY <1>1, <1>2, <1>3 DEF t

(* t is s without the member at position k.                                *)
Without(t, s, k) ==
  /\ Len(s) = Len(t) + 1
  /\ \A i \in 1..Len(t) : (i < k => t[i] = s[i]) /\ (k <= i => t[i] = s[i + 1])

(* It has all other members, in the same order.                            *)
LEMMA RemoveMember ==
  ASSUME NEW s \in Seq(Nat), NEW k \in 1..Len(s), Ascending(s), NEW t \in Seq(Nat),
         Without(t, s, k)
  PROVE  Ascending(t) /\ Range(t) = Range(s) \ {s[k]}
<1> USE DEF Without
<1>1. Len(s) \in Nat /\ Len(t) \in Nat /\ DOMAIN s = 1..Len(s) /\ DOMAIN t = 1..Len(t)
  BY Members
<1>2. \A i, j \in 1..Len(s) : s[i] \in Nat /\ (i < j => s[i] < s[j])
  BY <1>1, Members DEF Ascending
<1>20. ASSUME NEW i \in 1..Len(t)
       PROVE  \E a \in 1..Len(s) : t[i] = s[a] /\ ((i < k /\ a = i) \/ (k <= i /\ a = i + 1))
  <2>1. i \in Nat /\ k \in Nat /\ i + 1 \in 1..Len(s) /\ i \in 1..Len(s)
    BY <1>1
  <2>2. CASE i < k
    BY <2>1, <2>2
  <2>3. CASE ~(i < k)
    BY <2>1, <2>3
  <2>4. QED
    BY <2>2, <2>3
<1>3. ASSUME NEW i \in 1..Len(t), NEW j \in 1..Len(t), i < j
      PROVE  t[i] < t[j]
  <2>1. PICK a \in 1..Len(s) : t[i] = s[a] /\ ((i < k /\ a = i) \/ (k <= i /\ a = i + 1))
    BY <1>20
  <2>2. PICK b \in 1..Len(s) : t[j] = s[b] /\ ((j < k /\ b = j) \/ (k <= j /\ b = j + 1))
    BY <1>20
  <2>3. a < b
    <3>1. /\ (i < k /\ a = i) \/ (k <= i /\ a = i + 1)
          /\ (j < k /\ b = j) \/ (k <= j /\ b = j + 1)
      BY <2>1, <2>2
    <3>2. i \in Nat /\ j \in Nat /\ k \in Nat
      BY <1>1
    <3>3. QED
      BY ONLY <1>3, <3>1, <3>2
  <2>4. QED
    BY <1>2, <2>1, <2>2, <2>3
<1>4. ASSUME NEW x \in Range(t)
      PROVE  x \in Range(s) /\ x # s[k]
  <2>1. PICK i \in 1..Len(t) : t[i] = x
    BY Members
  <2>2. PICK a \in 1..Len(s) : t[i] = s[a] /\ ((i < k /\ a = i) \/ (k <= i /\ a = i + 1))
    BY <1>20
  <2>3. x = s[a] /\ (a < k \/ k < a)
    BY <1>1, <2>1, <2>2
  <2>4. s[a] \in Nat /\ s[k] \in Nat /\ (s[a] < s[k] \/ s[k] < s[a])
    BY <1>2, <2>3
  <2>5. s[a] \in Range(s)
    BY Members
  <2>6. QED
    BY <2>3, <2>4, <2>5
<1>5. ASSUME NEW x \in Range(s), x # s[k]
      PROVE  x \in Range(t)
  <2>1. PICK i \in 1..Len(s) : s[i] = x
    BY Members
  <2>2. PICK a \in 1..Len(t) : a = IF i < k THEN i ELSE i - 1
    <3>1. i # k
      BY <1>5, <2>1
    <3>2. QED
      BY <1>1, <3>1
  <2>3. t[a] = x
    <3>1. i # k
      BY <1>5, <2>1
    <3>2. QED
      BY <1>1, <2>1, <2>2, <3>1
  <2>4. QED
    BY <2>3, Members
<1>6. QED
  BY <1>1, <1>3, <1>4, <1>5 DEF Ascending

(* RemoveAt, Tail and Front remove a member.                               *)
LEMMA RemoveAtMember ==
  ASSUME NEW s \in Seq(Nat), NEW k \in 1..Len(s), Ascending(s)
  PROVE  /\ RemoveAt(s, k) \in Seq(Nat) /\ Ascending(RemoveAt(s, k))
         /\ Range(RemoveAt(s, k)) = Range(s) \ {s[k]}
<1> DEFINE a == SubSeq(s, 1, k - 1)
           b == SubSeq(s, k + 1, Len(s))
           t == RemoveAt(s, k)
<1>1. Len(s) \in Nat /\ k \in Nat
  BY Members
<1>2. /\ a \in Seq(Nat) /\ Len(a) = k - 1
      /\ \A i \in 1..(k - 1) : a[i] = s[i]
  BY <1>1
<1>3. /\ b \in Seq(Nat) /\ Len(b) = Len(s) - k
      /\ \A i \in 1..(Len(s) - k) : b[i] = s[k + i]
  BY <1>1
<1>4. t = a \o b
  BY DEF RemoveAt
<1> HIDE DEF a, b, t
<1>5. /\ t \in Seq(Nat) /\ Len(t) = Len(a) + Len(b)
      /\ \A i \in 1..Len(t) : t[i] = IF i <= Len(a) THEN a[i] ELSE b[i - Len(a)]
  <2>1. a \o b \in Seq(Nat)
    BY <1>2, <1>3
  <2>2. Len(a \o b) = Len(a) + Len(b)
    BY <1>2, <1>3, ConcatProperties
  <2>3. \A i \in 1..(Len(a) + Len(b)) : (a \o b)[i] = IF i <= Len(a) THEN a[i] ELSE b[i - Len(a)]
    BY <1>2, <1>3, ConcatProperties
  <2>4. QED
    BY <1>4, <2>1, <2>2, <2>3
<1>6. Len(s) = Len(t) + 1
  <2>1. Len(a) = k - 1 /\ Len(b) = Len(s) - k /\ Len(t) = Len(a) + Len(b)
    BY <1>2, <1>3, <1>5
  <2>2. QED
    BY ONLY <1>1, <2>1
<1>7. ASSUME NEW i \in 1..Len(t)
      PROVE  (i < k => t[i] = s[i]) /\ (k <= i => t[i] = s[i + 1])
  <2>1. CASE i < k
    <3>1. i \in 1..(k - 1) /\ i <= Len(a) /\ ~(k <= i)
      BY <1>1, <1>2, <2>1
    <3>2. QED
      BY <1>2, <1>5, <2>1, <3>1
  <2>2. CASE ~(i < k)
    <3>1. i - Len(a) \in 1..(Len(s) - k) /\ k + (i - Len(a)) = i + 1 /\ ~(i <= Len(a))
      <4>1. Len(a) = k - 1 /\ Len(t) \in Nat /\ i \in 1..Len(t)
        BY <1>2, <1>5, Members
      <4>2. QED
        BY ONLY <1>1, <1>6, <2>2, <4>1
    <3>2. t[i] = b[i - Len(a)]
      BY <1>5, <3>1
    <3>3. b[i - Len(a)] = s[k + (i - Len(a))]
      BY <1>3, <3>1
    <3>4. QED
      BY <2>2, <3>1, <3>2, <3>3
  <2>3. QED
    BY <2>1, <2>2
<1>70. Without(t, s, k)
  BY <1>6, <1>7 DEF Without
<1>8. Ascending(t) /\ Range(t) = Range(s) \ {s[k]}
  BY <1>5, <1>70, RemoveMember
<1>9. QED
  BY <1>5, <1>8 DEF t

(* The first object, and the others behind it.                             *)
LEMMA TailMember ==
  ASSUME NEW s \in Seq(Nat), s # <<>>, Ascending(s)
  PROVE  /\ Tail(s) \in Seq(Nat) /\ Ascending(Tail(s))
         /\ Head(s) \in Range(s) /\ Range(Tail(s)) = Range(s) \ {Head(s)}
         /\ \A y \in Range(Tail(s)) : Head(s) < y
<1> DEFINE t == Tail(s)
<1>1. /\ Len(s) \in Nat /\ Len(s) > 0 /\ DOMAIN s = 1..Len(s)
      /\ \A i \in 1..Len(s) : s[i] \in Nat /\ s[i] \in Range(s)
  BY Members, EmptySeq
<1>2. Head(s) = s[1] /\ 1 \in 1..Len(s)
  BY <1>1
<1>3. t \in Seq(Nat) /\ Len(s) = Len(t) + 1 /\ \A i \in 1..Len(t) : t[i] = s[i + 1]
  BY <1>1, HeadTailProperties
<1> HIDE DEF t
<1>4. Without(t, s, 1)
  BY <1>3 DEF Without
<1>5. Ascending(t) /\ Range(t) = Range(s) \ {s[1]}
  BY <1>2, <1>3, <1>4, RemoveMember
<1>6. ASSUME NEW y \in Range(t)
      PROVE  s[1] < y
  <2>1. PICK i \in 1..Len(t) : t[i] = y
    BY <1>3, Members
  <2>2. i + 1 \in 1..Len(s) /\ 1 < i + 1 /\ y = s[i + 1]
    BY <1>1, <1>3, <2>1
  <2>3. QED
    BY <1>1, <1>2, <2>2 DEF Ascending
<1>7. QED
  BY <1>1, <1>2, <1>3, <1>5, <1>6 DEF t

(* The last object, and the others.                                        *)
LEMMA FrontMember ==
  ASSUME NEW s \in Seq(Nat), s # <<>>, Ascending(s)
  PROVE  /\ Front(s) \in Seq(Nat) /\ Ascending(Front(s))
         /\ Last(s) \in Range(s) /\ Range(Front(s)) = Range(s) \ {Last(s)}
         /\ \A y \in Range(Front(s)) : y < Last(s)
<1> DEFINE t == Front(s)
<1>1. Len(s) \in Nat /\ Len(s) > 0 /\ \A i \in 1..Len(s) : s[i] \in Nat /\ s[i] \in Range(s)
  BY Members, EmptySeq
<1>2. Last(s) = s[Len(s)] /\ Len(s) \in 1..Len(s)
  BY <1>1 DEF Last
<1>3. t \in Seq(Nat) /\ Len(s) = Len(t) + 1 /\ \A i \in 1..Len(t) : t[i] = s[i]
  <2>1. PICK m \in Nat : Len(s) = m + 1
    BY <1>1
  <2>2. t = SubSeq(s, 1, m)
    BY <2>1 DEF Front
  <2>3. \A i \in 1..m : s[i] \in Nat
    BY <1>1, <2>1
  <2> HIDE DEF t
  <2>4. t \in Seq(Nat) /\ Len(t) = m
    BY <2>2, <2>3, SubSeqProperties
  <2>5. \A i \in 1..m : t[i] = s[i]
    BY <2>2, <2>3, SubSeqProperties
  <2>6. QED
    BY <2>1, <2>4, <2>5
<1> HIDE DEF t
<1>4. Without(t, s, Len(s))
  BY <1>1, <1>3 DEF Without
<1>5. Ascending(t) /\ Range(t) = Range(s) \ {s[Len(s)]}
  BY <1>2, <1>3, <1>4, RemoveMember
<1>6. ASSUME NEW y \in Range(t)
      PROVE  y < s[Len(s)]
  <2>1. PICK i \in 1..Len(t) : t[i] = y
    BY <1>3, Members
  <2>2. i \in 1..Len(s) /\ i < Len(s) /\ y = s[i] /\ DOMAIN s = 1..Len(s)
    <3>1. Len(t) \in Nat /\ Len(s) = Len(t) + 1 /\ i \in 1..Len(t)
      BY <1>3, Members
    <3>2. i \in 1..Len(s) /\ i < Len(s)
      BY ONLY <3>1
    <3>3. QED
      BY <1>3, <2>1, <3>2, Members
  <2>3. QED
    BY <1>2, <2>2 DEF Ascending
<1>7. QED
  BY <1>1, <1>2, <1>3, <1>5, <1>6 DEF t

(* The object that EmitOne takes, and what it leaves.                      *)
LEMMA TakeMember ==
  ASSUME NEW s \in Seq(Nat), s # <<>>, Ascending(s), mMode \in {"FIFO", "FILO"},
         NEW t, t = IF mMode = "FIFO" THEN Tail(s) ELSE Front(s)
  PROVE  /\ t \in Seq(Nat) /\ Ascending(t)
         /\ NextObject(s) \in Range(s) /\ Range(t) = Range(s) \ {NextObject(s)}
         /\ mMode = "FIFO" => \A y \in Range(t) : NextObject(s) < y
         /\ mMode = "FILO" => \A y \in Range(t) : y < NextObject(s)
<1>1. CASE mMode = "FIFO"
  BY <1>1, TailMember DEF NextObject
<1>2. CASE mMode = "FILO"
  BY <1>2, FrontMember DEF NextObject
<1>3. QED
  BY <1>1, <1>2
-----------------------------------------------------------------------------
(* What becomes of the account.                                            *)

(* EmitOne takes an object in hand.                                        *)
LEMMA AccountTaken ==
  ASSUME NEW mode, NEW h, NEW q, NEW gone, NEW n, Accounted(mode, h, {}, q, gone, n),
         NEW o \in Range(q), NEW r \in Seq(Nat), Ascending(r), Range(r) = Range(q) \ {o},
         mode = "FIFO" => \A y \in Range(r) : o < y
  PROVE  Accounted(mode, h, {o}, r, gone, n)
BY DEF Accounted

(* Add puts the next object at the end of the queue.                       *)
LEMMA AccountPushed ==
  ASSUME NEW mode, NEW h, NEW hand, NEW q, NEW gone, NEW n, Accounted(mode, h, hand, q, gone, n)
  PROVE  Accounted(mode, h, hand, Append(q, n + 1), gone, n + 1)
<1> DEFINE r == Append(q, n + 1)
<1>1. n \in Nat /\ n + 1 \in Nat /\ h \in Seq(Nat) /\ q \in Seq(Nat)
  BY DEF Accounted
<1>2. /\ r \in Seq(Nat) /\ Len(r) = Len(q) + 1 /\ Len(q) \in Nat
      /\ \A i \in 1..Len(q) : r[i] = q[i] /\ q[i] \in Range(q)
      /\ r[Len(q) + 1] = n + 1
      /\ Range(r) = Range(q) \cup {n + 1}
      /\ DOMAIN r = 1..Len(r) /\ DOMAIN q = 1..Len(q)
  BY <1>1, AppendMembers, Members
<1> HIDE DEF r
<1>3. \A x \in Range(h) \cup hand \cup Range(q) \cup gone : x \in Nat /\ x < n + 1
  BY <1>1 DEF Accounted
<1>4. 1..(n + 1) = 1..n \cup {n + 1} /\ n + 1 \notin 1..n
  BY <1>1
<1>5. Ascending(r)
  <2>1. ASSUME NEW i \in 1..Len(r), NEW j \in 1..Len(r), i < j
        PROVE  r[i] < r[j]
    <3>1. i \in 1..Len(q) /\ (j \in 1..Len(q) \/ j = Len(q) + 1)
      BY <1>2, <2>1
    <3>2. CASE j \in 1..Len(q)
      BY <1>2, <2>1, <3>1, <3>2 DEF Accounted, Ascending
    <3>3. CASE j = Len(q) + 1
      BY <1>2, <1>3, <3>1, <3>3
    <3>4. QED
      BY <3>1, <3>2, <3>3
  <2>2. QED
    BY <1>2, <2>1 DEF Ascending
<1>6. /\ Range(h) \cup hand \cup Range(r) \cup gone = 1..(n + 1)
      /\ Range(h) \cap (hand \cup Range(r) \cup gone) = {}
      /\ hand \cap (Range(r) \cup gone) = {} /\ Range(r) \cap gone = {}
  BY <1>1, <1>2, <1>4 DEF Accounted
<1>7. mode = "FIFO" => /\ \A x \in Range(h) : \A y \in hand \cup Range(r) : x < y
                       /\ \A x \in hand : \A y \in Range(r) : x < y
  BY <1>2, <1>3 DEF Accounted
<1>8. QED
  BY <1>1, <1>2, <1>5, <1>6, <1>7 DEF Accounted, r

(* Remove takes an object out of the queue.                                *)
LEMMA AccountRemoved ==
  ASSUME NEW mode, NEW h, NEW hand, NEW q, NEW gone, NEW n, Accounted(mode, h, hand, q, gone, n),
         NEW o \in Range(q), NEW r \in Seq(Nat), Ascending(r), Range(r) = Range(q) \ {o}
  PROVE  Accounted(mode, h, hand, r, gone \cup {o}, n)
BY DEF Accounted

(* The end of an action: the object in hand is handled.                    *)
LEMMA AccountHandled ==
  ASSUME NEW mode, NEW h, NEW o, NEW q, NEW gone, NEW n, Accounted(mode, h, {o}, q, gone, n)
  PROVE  Accounted(mode, Append(h, o), {}, q, gone, n)
<1> DEFINE k == Append(h, o)
<1>1. n \in Nat /\ h \in Seq(Nat) /\ q \in Seq(Nat) /\ o \in Nat /\ o \notin Range(h)
  BY DEF Accounted
<1>2. /\ k \in Seq(Nat) /\ Len(k) = Len(h) + 1 /\ Len(h) \in Nat
      /\ \A i \in 1..Len(h) : k[i] = h[i] /\ h[i] \in Range(h)
      /\ k[Len(h) + 1] = o
      /\ Range(k) = Range(h) \cup {o}
      /\ DOMAIN k = 1..Len(k) /\ DOMAIN h = 1..Len(h)
  BY <1>1, AppendMembers, Members
<1> HIDE DEF k
<1>3. \A i \in DOMAIN k : i \in DOMAIN h \/ i = Len(h) + 1
  BY <1>2
<1>4. \A i, j \in DOMAIN k : i # j => k[i] # k[j]
  BY <1>1, <1>2, <1>3 DEF Accounted
<1>5. mode = "FIFO" => Ascending(k)
  <2>1. ASSUME mode = "FIFO", NEW i \in 1..Len(k), NEW j \in 1..Len(k), i < j
        PROVE  k[i] < k[j]
    <3>1. i \in 1..Len(h) /\ (j \in 1..Len(h) \/ j = Len(h) + 1)
      BY <1>2, <2>1
    <3>2. CASE j \in 1..Len(h)
      BY <1>2, <2>1, <3>1, <3>2 DEF Accounted, Ascending
    <3>3. CASE j = Len(h) + 1
      BY <1>2, <2>1, <3>1, <3>3 DEF Accounted
    <3>4. QED
      BY <3>1, <3>2, <3>3
  <2>2. QED
    BY <1>2, <2>1 DEF Ascending
<1>6. /\ Range(k) \cup {} \cup Range(q) \cup gone = 1..n
      /\ Range(k) \cap ({} \cup Range(q) \cup gone) = {}
      /\ {} \cap (Range(q) \cup gone) = {} /\ Range(q) \cap gone = {}
  BY <1>2 DEF Accounted
<1>7. mode = "FIFO" => /\ \A x \in Range(k) : \A y \in {} \cup Range(q) : x < y
                       /\ \A x \in {} : \A y \in Range(q) : x < y
  BY <1>2 DEF Accounted
<1>8. QED
  BY <1>1, <1>2, <1>4, <1>5, <1>6, <1>7 DEF Accounted, k

(* EmitOne takes an object: when it is the newest, the others may follow.  *)
LEMMA NewestTaken ==
  ASSUME NEW mode, NEW h \in Seq(Nat), NEW q \in Seq(Nat), NEW n \in Nat, NEW at,
         NewestFirst(mode, h, {}, q, n, at),
         NEW o \in Range(q), NEW r, Range(r) = Range(q) \ {o},
         mode = "FILO" => \A y \in Range(r) : y < o
  PROVE  NewestFirst(mode, h, {o}, r, n, Append(at, n))
<1> DEFINE bt == Append(at, n)
<1>1. Len(h) \in Nat /\ at \in Seq(Nat) /\ Len(at) = Len(h)
  BY Members DEF NewestFirst
<1>2. /\ bt \in Seq(Nat) /\ Len(bt) = Len(h) + 1
      /\ \A i \in 1..Len(h) : bt[i] = at[i]
      /\ bt[Len(h) + 1] = n
  BY <1>1, AppendMembers
<1> HIDE DEF bt
<1>3. \A i \in 1..Len(bt) : bt[i] <= n
  <2>1. ASSUME NEW i \in 1..Len(bt) PROVE bt[i] <= n
    <3>1. i \in 1..Len(h) \/ i = Len(h) + 1
      BY <1>1, <1>2
    <3>2. CASE i \in 1..Len(h)
      <4>1. at[i] <= n
        BY <1>1, <3>2 DEF NewestFirst
      <4>2. QED
        BY <1>2, <3>2, <4>1
    <3>3. CASE i = Len(h) + 1
      BY <1>2, <3>3
    <3>4. QED
      BY <3>1, <3>2, <3>3
  <2>2. QED
    BY <2>1
<1>4. mode = "FILO" => \A i, j \in 1..Len(h) : i < j => Follows(h[j], h[i], bt[i])
  BY <1>2 DEF NewestFirst
<1>5. mode = "FILO" => \A i \in 1..Len(h) : \A y \in {o} \cup Range(r) : Follows(y, h[i], bt[i])
  BY <1>2 DEF NewestFirst
<1>6. mode = "FILO" => \A y \in Range(r) : Follows(y, o, bt[Len(h) + 1])
  BY DEF Follows
<1>7. QED
  BY <1>2, <1>3, <1>4, <1>5, <1>6 DEF NewestFirst, bt

(* What Add pushes was not added when the others were taken.               *)
LEMMA NewestPushed ==
  ASSUME NEW mode, NEW h \in Seq(Nat), NEW hand, NEW q \in Seq(Nat), NEW n \in Nat, NEW at,
         NewestFirst(mode, h, hand, q, n, at)
  PROVE  NewestFirst(mode, h, hand, Append(q, n + 1), n + 1, at)
<1>1. /\ Len(h) \in Nat /\ at \in Seq(Nat) /\ Len(at) \in Nat
      /\ \A i \in 1..Len(at) : at[i] \in Nat /\ at[i] <= n
      /\ Len(at) = IF hand = {} THEN Len(h) ELSE Len(h) + 1
  BY Members DEF NewestFirst
<1>2. \A y \in Range(Append(q, n + 1)) : y \in Range(q) \/ y = n + 1
  BY AppendMembers
<1>3. \A i \in 1..Len(at) : at[i] < n + 1 /\ at[i] <= n + 1
  <2>1. ASSUME NEW i \in 1..Len(at) PROVE at[i] < n + 1 /\ at[i] <= n + 1
    <3>1. PICK a \in Nat : a = at[i] /\ a <= n
      BY <1>1
    <3>2. QED
      BY <3>1
  <2>2. QED
    BY <2>1
<1>4. \A i \in 1..Len(at) : \A x : Follows(n + 1, x, at[i])
  BY <1>3 DEF Follows
<1>5. \A i \in 1..Len(h) : i \in 1..Len(at)
  BY <1>1
<1>6. hand # {} => Len(h) + 1 \in 1..Len(at)
  BY <1>1
<1>7. mode = "FILO" => \A i \in 1..Len(h) : \A y \in hand \cup Range(Append(q, n + 1)) :
                         Follows(y, h[i], at[i])
  BY <1>2, <1>4, <1>5 DEF NewestFirst
<1>8. mode = "FILO" => \A x \in hand : \A y \in Range(Append(q, n + 1)) :
                         Follows(y, x, at[Len(h) + 1])
  BY <1>2, <1>4, <1>6 DEF NewestFirst
<1>9. QED
  BY <1>1, <1>3, <1>7, <1>8 DEF NewestFirst

(* Removing an object takes no other out of its order.                     *)
LEMMA NewestRemoved ==
  ASSUME NEW mode, NEW h, NEW hand, NEW q, NEW n, NEW at, NewestFirst(mode, h, hand, q, n, at),
         NEW r, Range(r) \subseteq Range(q)
  PROVE  NewestFirst(mode, h, hand, r, n, at)
BY DEF NewestFirst

(* The end of an action.                                                   *)
LEMMA NewestHandled ==
  ASSUME NEW mode, NEW h \in Seq(Nat), NEW o \in Nat, NEW q, NEW n, NEW at,
         NewestFirst(mode, h, {o}, q, n, at)
  PROVE  NewestFirst(mode, Append(h, o), {}, q, n, at)
<1> DEFINE k == Append(h, o)
<1>1. /\ k \in Seq(Nat) /\ Len(k) = Len(h) + 1 /\ Len(h) \in Nat
      /\ \A i \in 1..Len(h) : k[i] = h[i]
      /\ k[Len(h) + 1] = o
  BY AppendMembers, Members
<1> HIDE DEF k
<1>2. Len(at) = Len(k)
  BY <1>1 DEF NewestFirst
<1>3. \A i \in 1..Len(k) : i \in 1..Len(h) \/ i = Len(h) + 1
  BY <1>1
<1>4. ASSUME mode = "FILO", NEW i \in 1..Len(k), NEW j \in 1..Len(k), i < j
      PROVE  Follows(k[j], k[i], at[i])
  <2>1. i \in 1..Len(h)
    BY <1>1, <1>4
  <2>2. CASE j \in 1..Len(h)
    BY <1>1, <1>4, <2>1, <2>2 DEF NewestFirst
  <2>3. CASE j = Len(h) + 1
    BY <1>1, <1>4, <2>1, <2>3 DEF NewestFirst
  <2>4. QED
    BY <1>3, <2>2, <2>3
<1>5. ASSUME mode = "FILO", NEW i \in 1..Len(k), NEW y \in Range(q)
      PROVE  Follows(y, k[i], at[i])
  <2>1. CASE i \in 1..Len(h)
    BY <1>1, <1>5, <2>1 DEF NewestFirst
  <2>2. CASE i = Len(h) + 1
    BY <1>1, <1>5, <2>2 DEF NewestFirst
  <2>3. QED
    BY <1>3, <2>1, <2>2
<1>6. QED
  BY <1>2, <1>4, <1>5 DEF NewestFirst, k
-----------------------------------------------------------------------------
(* The invariant, one lemma per action.                                    *)

(* EmitOne when nothing is in hand.                                        *)
LEMMA EmitKeeps ==
  ASSUME NEW q, EmitOne(q, mStatus', FALSE), posted = <<>>, io' \in {idle, inAdd},
         mMode \in {"FIFO", "FILO"}, mMode' = mMode,
         Accounted(mMode, handled', {}, q, removed', numAdded'),
         NewestFirst(mMode, handled', {}, q, numAdded', takenAt)
  PROVE  ActionsInv'
<1>1. /\ q \in Seq(Nat) /\ Ascending(q) /\ \A x \in Range(q) : x \in Nat \ {0}
      /\ handled' \in Seq(Nat) /\ numAdded' \in Nat
  BY DEF Accounted
<1>2. CASE mStatus' = "Started" /\ q # <<>>
  <2>1. PICK o \in Range(q) : o = NextObject(q) /\ o \in Nat \ {0}
    BY <1>1, <1>2, TakeMember
  <2>2. /\ mQueue' = IF mMode = "FIFO" THEN Tail(q) ELSE Front(q)
        /\ mHasTaskInRuning' = TRUE /\ posted' = Append(<<>>, o)
        /\ takenAt' = Append(takenAt, numAdded')
    BY <1>2, <2>1 DEF EmitOne
  <2>3. /\ mQueue' \in Seq(Nat) /\ Ascending(mQueue') /\ Range(mQueue') = Range(q) \ {o}
        /\ mMode = "FIFO" => \A y \in Range(mQueue') : o < y
        /\ mMode = "FILO" => \A y \in Range(mQueue') : y < o
    BY <1>1, <1>2, <2>1, <2>2, TakeMember
  <2>4. posted' \in Seq(Nat) /\ Len(posted') = 1 /\ posted'[1] = o
    BY <2>1, <2>2
  <2>5. Accounted(mMode, handled', {o}, mQueue', removed', numAdded')
    BY <2>3, AccountTaken
  <2>9. NewestFirst(mMode, handled', {o}, mQueue', numAdded', takenAt')
    BY <1>1, <2>2, <2>3, NewestTaken
  <2>6. IsIdle' /\ InHand' = o /\ Hand' = {o}
    BY <2>2, <2>4 DEF IsIdle, InHand, Hand
  <2>7. TakenInv'
    BY <2>1, <2>2, <2>4, <2>6 DEF TakenInv
  <2>8. QED
    BY <2>5, <2>6, <2>7, <2>9 DEF ActionsInv, Accounted, NewestFirst
<1>3. CASE ~(mStatus' = "Started" /\ q # <<>>)
  <2>1. mQueue' = q /\ mHasTaskInRuning' = FALSE /\ posted' = posted /\ takenAt' = takenAt
    BY <1>3 DEF EmitOne
  <2>2. IsIdle' /\ Hand' = {}
    BY <2>1 DEF IsIdle, Hand
  <2>3. posted' \in Seq(Nat) /\ Len(posted') = 0
    BY <2>1, EmptyNats
  <2>4. IsIdle' /\ mMode' \in {"FIFO", "FILO"} /\ ~(mStatus' = "Started" /\ mQueue' # <<>>)
    BY <1>3, <2>1 DEF IsIdle
  <2>5. TakenInv'
    BY ONLY <2>1, <2>3, <2>4 DEF TakenInv
  <2>6. QED
    BY <2>1, <2>2, <2>5 DEF ActionsInv, Accounted, NewestFirst
<1>4. QED
  BY <1>2, <1>3

(* EmitOne while an object is in hand.                                     *)
LEMMA EmitWaits ==
  ASSUME ActionsInv, mHasTaskInRuning, NEW q, EmitOne(q, mStatus', mHasTaskInRuning),
         io' = io \/ {io, io'} \subseteq {idle, inAdd}, mMode' = mMode,
         Accounted(mMode, handled', Hand, q, removed', numAdded'),
         NewestFirst(mMode, handled', Hand, q, numAdded', takenAt)
  PROVE  ActionsInv'
<1>1. UNCHANGED <<mHasTaskInRuning, posted, takenAt>> /\ mQueue' = q
  BY DEF EmitOne
<1>2. IsIdle' = IsIdle /\ InHand' = InHand /\ Hand' = Hand
  BY <1>1 DEF IsIdle, InHand, Hand
<1>3. TakenInv'
  BY <1>1, <1>2 DEF TakenInv, ActionsInv
<1>4. QED
  BY <1>1, <1>2, <1>3 DEF ActionsInv, Accounted, NewestFirst

(* What is in hand, or not.                                                *)
LEMMA HandFacts ==
  ASSUME ActionsInv
  PROVE  /\ mMode \in {"FIFO", "FILO"} /\ mHasTaskInRuning \in BOOLEAN
         /\ ~mHasTaskInRuning => posted = <<>> /\ io \in {idle, inAdd} /\ Hand = {}
         /\ posted \in Seq(Nat) /\ (Len(posted) = 0 => posted = <<>>)
         /\ Accounted(mMode, handled, Hand, mQueue, removed, numAdded)
         /\ NewestFirst(mMode, handled, Hand, mQueue, numAdded, takenAt)
         /\ handled \in Seq(Nat) /\ mQueue \in Seq(Nat) /\ numAdded \in Nat
<1>1. posted \in Seq(Nat) /\ (Len(posted) = 0 => posted = <<>>)
  BY EmptySeq DEF ActionsInv, TakenInv
<1>2. QED
  BY <1>1 DEF ActionsInv, TakenInv, Accounted, IsIdle, Hand

(* Start and Resume.                                                       *)
LEMMA StartStep ==
  ASSUME ActionsInv, Start \/ Resume
  PROVE  ActionsInv'
<1>1. /\ mStatus' = "Started" /\ EmitOne(mQueue, mStatus', mHasTaskInRuning)
      /\ UNCHANGED <<mMode, io, handled, numAdded, removed>>
  BY DEF Start, Resume, SetStatus
<1>2. /\ Accounted(mMode, handled', Hand, mQueue, removed', numAdded')
      /\ NewestFirst(mMode, handled', Hand, mQueue, numAdded', takenAt)
  BY <1>1, HandFacts
<1>3. CASE mHasTaskInRuning
  BY <1>1, <1>2, <1>3, EmitWaits
<1>4. CASE ~mHasTaskInRuning
  <2>1. EmitOne(mQueue, mStatus', FALSE)
    BY <1>1, <1>4 DEF EmitOne
  <2>2. QED
    BY <1>1, <1>2, <1>4, <2>1, HandFacts, EmitKeeps
<1>5. QED
  BY <1>3, <1>4

(* What leaves the objects where they are.                                 *)
LEMMA IdleStep ==
  ASSUME ActionsInv, mMode' = mMode, mStatus' = "Started" => mStatus = "Started",
         UNCHANGED <<mHasTaskInRuning, mQueue, posted, handled, takenAt, numAdded, removed>>,
         io' = io \/ {io, io'} \subseteq {idle, inAdd}
  PROVE  ActionsInv'
<1>1. IsIdle' = IsIdle /\ InHand' = InHand /\ Hand' = Hand
  BY DEF IsIdle, InHand, Hand
<1>2. TakenInv'
  BY <1>1 DEF TakenInv, ActionsInv
<1>3. QED
  BY <1>1, <1>2 DEF ActionsInv, Accounted, NewestFirst

(* Add, second part.                                                       *)
LEMMA PushBackStep ==
  ASSUME ActionsInv, PushBack
  PROVE  ActionsInv'
<1>1. /\ numAdded' = numAdded + 1 /\ mStatus' = mStatus
      /\ EmitOne(Append(mQueue, numAdded + 1), mStatus', mHasTaskInRuning)
      /\ io' = io \/ {io, io'} \subseteq {idle, inAdd}
      /\ UNCHANGED <<mMode, handled, removed>>
  BY DEF PushBack
<1>2. /\ Accounted(mMode, handled', Hand, Append(mQueue, numAdded + 1), removed', numAdded')
      /\ NewestFirst(mMode, handled', Hand, Append(mQueue, numAdded + 1), numAdded', takenAt)
  BY <1>1, HandFacts, AccountPushed, NewestPushed
<1>3. CASE mHasTaskInRuning
  BY <1>1, <1>2, <1>3, EmitWaits
<1>4. CASE ~mHasTaskInRuning
  <2>1. EmitOne(Append(mQueue, numAdded + 1), mStatus', FALSE)
    BY <1>1, <1>4 DEF EmitOne
  <2>2. io' \in {idle, inAdd}
    BY <1>1, <1>4, HandFacts
  <2>3. QED
    BY <1>1, <1>2, <1>4, <2>1, <2>2, HandFacts, EmitKeeps
<1>5. QED
  BY <1>3, <1>4

(* Remove.                                                                 *)
LEMMA RemoveStep ==
  ASSUME ActionsInv, NEW obj, RemoveObject(obj)
  PROVE  ActionsInv'
<1>1. PICK i \in DOMAIN mQueue : mQueue[i] = obj /\ mQueue' = RemoveAt(mQueue, i)
  BY DEF RemoveObject
<1>2. /\ removed' = removed \cup {obj}
      /\ UNCHANGED <<mMode, mStatus, mHasTaskInRuning, posted, io, handled, takenAt, numAdded>>
  BY DEF RemoveObject, ioVars
<1>3. mQueue \in Seq(Nat) /\ Ascending(mQueue)
  BY DEF ActionsInv, Accounted
<1>4. i \in 1..Len(mQueue) /\ obj \in Range(mQueue) /\ mQueue # <<>>
  BY <1>1, <1>3, Members
<1>5. mQueue' \in Seq(Nat) /\ Ascending(mQueue') /\ Range(mQueue') = Range(mQueue) \ {obj}
  BY <1>1, <1>3, <1>4, RemoveAtMember
<1>6. /\ Accounted(mMode, handled, Hand, mQueue', removed \cup {obj}, numAdded)
      /\ NewestFirst(mMode, handled, Hand, mQueue', numAdded, takenAt)
  BY <1>4, <1>5, HandFacts, AccountRemoved, NewestRemoved
<1>7. IsIdle' = IsIdle /\ InHand' = InHand /\ Hand' = Hand
  BY <1>2 DEF IsIdle, InHand, Hand
<1>8. TakenInv'
  BY <1>2, <1>4, <1>7 DEF TakenInv, ActionsInv
<1>9. QED
  BY <1>2, <1>6, <1>7, <1>8 DEF ActionsInv, Accounted, NewestFirst

(* The io_service hands the posted object to the action.                   *)
LEMMA RunActionStep ==
  ASSUME ActionsInv, RunAction
  PROVE  ActionsInv'
<1>1. /\ io = idle /\ posted # <<>> /\ io' = Head(posted) /\ posted' = Tail(posted)
      /\ UNCHANGED <<mMode, mStatus, mHasTaskInRuning, mQueue, handled, takenAt, numAdded,
                     removed>>
  BY DEF RunAction
<1>2. posted \in Seq(Nat) /\ IsIdle /\ mHasTaskInRuning /\ Len(posted) = 1
  BY <1>1, HandFacts DEF ActionsInv, TakenInv, IsIdle
<1>3. Head(posted) = posted[1] /\ Tail(posted) \in Seq(Nat) /\ Len(Tail(posted)) = 0
  BY <1>1, <1>2, HeadTailProperties
<1>4. InHand = posted[1] /\ posted[1] \in Nat \ {0} /\ Hand = {posted[1]}
  BY <1>2 DEF ActionsInv, TakenInv, InHand, Hand
<1>5. ~IsIdle' /\ InHand' = posted[1] /\ Hand' = Hand
  BY <1>1, <1>2, <1>3, <1>4 DEF IsIdle, InHand, Hand, idle, inAdd
<1>6. TakenInv'
  BY <1>1, <1>2, <1>3, <1>4, <1>5 DEF TakenInv, ActionsInv
<1>7. QED
  BY <1>1, <1>5, <1>6 DEF ActionsInv, Accounted, NewestFirst

(* The action is done, and EmitOne goes on.                                *)
LEMMA EndActionStep ==
  ASSUME ActionsInv, EndAction
  PROVE  ActionsInv'
<1>1. /\ io \notin {idle, inAdd} /\ handled' = Append(handled, io) /\ io' = idle
      /\ EmitOne(mQueue, mStatus', FALSE)
      /\ UNCHANGED <<mMode, mStatus, numAdded, removed>>
  BY DEF EndAction
<1>2. Hand = {io} /\ posted = <<>>
  BY <1>1, HandFacts DEF ActionsInv, TakenInv, IsIdle, InHand, Hand
<1>3. /\ Accounted(mMode, handled', {}, mQueue, removed', numAdded')
      /\ NewestFirst(mMode, handled', {}, mQueue, numAdded', takenAt)
  <2>1. io \in Nat
    BY <1>2, HandFacts DEF Accounted
  <2>2. QED
    BY <1>1, <1>2, <2>1, HandFacts, AccountHandled, NewestHandled
<1>4. QED
  BY <1>1, <1>2, <1>3, HandFacts, EmitKeeps
-----------------------------------------------------------------------------
(* The invariant holds at the start, and every step keeps it.              *)
LEMMA InductiveActions ==
  /\ ActionsInit => ActionsInv
  /\ ActionsInv /\ [ActionsNext]_actionVars => ActionsInv'
<1>1. ASSUME ActionsInit PROVE ActionsInv
  <2>1. Range(<<>>) = {} /\ DOMAIN <<>> = {} /\ 1..0 = {}
    BY DEF Range
  <2>2. /\ Hand = {} /\ handled = <<>> /\ mQueue = <<>> /\ removed = {} /\ numAdded = 0
        /\ takenAt = <<>>
    BY <1>1 DEF ActionsInit, Hand
  <2>3. Accounted(mMode, handled, Hand, mQueue, removed, numAdded)
    BY <2>1, <2>2 DEF Accounted, Ascending
  <2>7. NewestFirst(mMode, handled, Hand, mQueue, numAdded, takenAt)
    BY <2>1, <2>2, EmptyNats DEF NewestFirst
  <2>4. posted \in Seq(Nat) /\ Len(posted) = 0
    BY <1>1, EmptyNats DEF ActionsInit
  <2>5. TakenInv
    <3>1. /\ IsIdle /\ mMode \in {"FIFO", "FILO"} /\ mHasTaskInRuning = FALSE
          /\ ~(mStatus = "Started" /\ mQueue # <<>>)
      BY <1>1 DEF ActionsInit, IsIdle
    <3>2. QED
      BY ONLY <2>4, <3>1 DEF TakenInv
  <2>6. QED
    BY <2>3, <2>5, <2>7 DEF ActionsInv
<1>2. ASSUME ActionsInv, [ActionsNext]_actionVars PROVE ActionsInv'
  <2>1. CASE Start \/ Resume
    BY <1>2, <2>1, StartStep
  <2>2. CASE Stop \/ Suspend
    BY <1>2, <2>2, IdleStep DEF Stop, Suspend, SetStatus
  <2>3. ASSUME NEW isEnabled \in BOOLEAN, SetEnable(isEnabled) PROVE ActionsInv'
    BY <1>2, <2>3, IdleStep DEF SetEnable, ioVars
  <2>4. CASE CallAdd
    BY <1>2, <2>4, IdleStep DEF CallAdd, ioVars
  <2>5. CASE TimerExpires
    BY <1>2, <2>5, IdleStep DEF TimerExpires
  <2>6. CASE PushBack
    BY <1>2, <2>6, PushBackStep
  <2>7. ASSUME NEW obj \in 1..MaxAdds, RemoveObject(obj) PROVE ActionsInv'
    BY <1>2, <2>7, RemoveStep
  <2>8. CASE RunAction
    BY <1>2, <2>8, RunActionStep
  <2>9. CASE EndAction
    BY <1>2, <2>9, EndActionStep
  <2>10. CASE UNCHANGED actionVars
    BY <1>2, <2>10, IdleStep DEF actionVars, ioVars
  <2>11. QED
    BY <1>2, <2>1, <2>2, <2>3, <2>4, <2>5, <2>6, <2>7, <2>8, <2>9, <2>10 DEF ActionsNext
<1>3. QED
  BY <1>1, <1>2
-----------------------------------------------------------------------------
(* From the invariant to the properties of the runs.                       *)

(* No object stands twice in the sequence.                                 *)
Distinct(s) == \A i, j \in DOMAIN s : i # j => s[i] # s[j]

(* What stands where in one sequence behind another.                       *)
LEMMA Behind ==
  ASSUME NEW s \in Seq(Nat), NEW t \in Seq(Nat)
  PROVE  \A i \in 1..Len(s \o t) :
           \/ i \in 1..Len(s) /\ (s \o t)[i] = s[i] /\ (s \o t)[i] \in Range(s)
           \/ /\ i > Len(s) /\ i - Len(s) \in 1..Len(t)
              /\ (s \o t)[i] = t[i - Len(s)] /\ (s \o t)[i] \in Range(t)
<1> DEFINE u == s \o t
<1>1. /\ u \in Seq(Nat) /\ Len(u) = Len(s) + Len(t)
      /\ \A i \in 1..(Len(s) + Len(t)) : u[i] = IF i <= Len(s) THEN s[i] ELSE t[i - Len(s)]
  BY ConcatProperties
<1> HIDE DEF u
<1>2. Len(s) \in Nat /\ Len(t) \in Nat
  BY Members
<1>3. ASSUME NEW i \in 1..Len(u)
      PROVE  \/ i \in 1..Len(s) /\ u[i] = s[i] /\ u[i] \in Range(s)
             \/ i > Len(s) /\ i - Len(s) \in 1..Len(t) /\ u[i] = t[i - Len(s)] /\ u[i] \in Range(t)
  <2>1. CASE i <= Len(s)
    <3>1. i \in 1..Len(s) /\ u[i] = s[i]
      BY <1>1, <1>2, <2>1
    <3>2. QED
      BY <3>1, Members
  <2>2. CASE ~(i <= Len(s))
    <3>1. i \in 1..(Len(s) + Len(t)) /\ u[i] = t[i - Len(s)]
      BY <1>1, <2>2
    <3>2. i > Len(s) /\ i - Len(s) \in 1..Len(t)
      BY ONLY <1>2, <2>2, <3>1
    <3>3. QED
      BY <3>1, <3>2, Members
  <2>3. QED
    BY <2>1, <2>2
<1>4. QED
  BY <1>3 DEF u

(* One sequence behind another, with other members.                        *)
LEMMA Concatenated ==
  ASSUME NEW s \in Seq(Nat), NEW t \in Seq(Nat), Distinct(s), Distinct(t),
         Range(s) \cap Range(t) = {}
  PROVE  /\ s \o t \in Seq(Nat) /\ Distinct(s \o t)
         /\ Range(s \o t) = Range(s) \cup Range(t)
         /\ Ascending(s) /\ Ascending(t) /\ (\A x \in Range(s) : \A y \in Range(t) : x < y)
              => Ascending(s \o t)
<1> DEFINE u == s \o t
<1>1. /\ u \in Seq(Nat) /\ Len(u) = Len(s) + Len(t)
      /\ \A i \in 1..(Len(s) + Len(t)) : u[i] = IF i <= Len(s) THEN s[i] ELSE t[i - Len(s)]
  BY ConcatProperties
<1> HIDE DEF u
<1>2. /\ Len(s) \in Nat /\ Len(t) \in Nat
      /\ DOMAIN s = 1..Len(s) /\ DOMAIN t = 1..Len(t) /\ DOMAIN u = 1..Len(u)
  BY <1>1, Members
<1>3. \A i \in 1..Len(u) :
        \/ i \in 1..Len(s) /\ u[i] = s[i] /\ u[i] \in Range(s)
        \/ i > Len(s) /\ i - Len(s) \in 1..Len(t) /\ u[i] = t[i - Len(s)] /\ u[i] \in Range(t)
  BY Behind DEF u
<1>4. Distinct(u)
  <2>1. ASSUME NEW i \in 1..Len(u), NEW j \in 1..Len(u), i # j
        PROVE  u[i] # u[j]
    <3>1. CASE u[i] \in Range(s) /\ u[j] \in Range(s)
      <4>1. i \in 1..Len(s) /\ u[i] = s[i] /\ j \in 1..Len(s) /\ u[j] = s[j]
        BY <1>3, <3>1
      <4>2. QED
        BY <1>2, <2>1, <4>1 DEF Distinct
    <3>2. CASE u[i] \in Range(t) /\ u[j] \in Range(t)
      <4>1. /\ i - Len(s) \in 1..Len(t) /\ u[i] = t[i - Len(s)]
            /\ j - Len(s) \in 1..Len(t) /\ u[j] = t[j - Len(s)]
        BY <1>3, <3>2
      <4>2. i - Len(s) # j - Len(s)
        BY <1>2, <2>1
      <4>3. QED
        BY <1>2, <4>1, <4>2 DEF Distinct
    <3>3. CASE ~(u[i] \in Range(s) <=> u[j] \in Range(s))
      BY <3>3
    <3>4. QED
      BY <1>3, <3>1, <3>2, <3>3
  <2>2. QED
    BY <1>2, <2>1 DEF Distinct
<1>5. Range(u) = Range(s) \cup Range(t)
  <2>1. ASSUME NEW x \in Range(u)
        PROVE  x \in Range(s) \cup Range(t)
    <3>1. PICK i \in 1..Len(u) : u[i] = x
      BY <1>1, Members
    <3>2. QED
      BY <1>3, <3>1
  <2>2. ASSUME NEW x \in Range(s)
        PROVE  x \in Range(u)
    <3>1. PICK i \in 1..Len(s) : s[i] = x
      BY Members
    <3>2. i \in 1..Len(u) /\ u[i] = x
      BY <1>1, <1>2, <3>1
    <3>3. QED
      BY <1>1, <3>2, Members
  <2>3. ASSUME NEW x \in Range(t)
        PROVE  x \in Range(u)
    <3>1. PICK i \in 1..Len(t) : t[i] = x
      BY Members
    <3> DEFINE k == Len(s) + i
    <3>2. /\ k \in 1..(Len(s) + Len(t)) /\ k \in 1..Len(u)
          /\ ~(k <= Len(s)) /\ k - Len(s) = i
      <4>1. Len(s) \in Nat /\ Len(t) \in Nat /\ Len(u) = Len(s) + Len(t) /\ i \in 1..Len(t)
        BY <1>1, <1>2
      <4>2. QED
        BY ONLY <4>1
    <3> HIDE DEF k
    <3>3. u[k] = x
      BY <1>1, <3>1, <3>2
    <3>4. QED
      BY <1>1, <3>2, <3>3, Members
  <2>4. QED
    BY <2>1, <2>2, <2>3
<1>6. ASSUME Ascending(s), Ascending(t), \A x \in Range(s) : \A y \in Range(t) : x < y
      PROVE  Ascending(u)
  <2>1. ASSUME NEW i \in 1..Len(u), NEW j \in 1..Len(u), i < j
        PROVE  u[i] < u[j]
    <3>1. CASE i \in 1..Len(s) /\ j \in 1..Len(s)
      <4>1. u[i] = s[i] /\ u[j] = s[j]
        BY <1>1, <1>2, <3>1
      <4>2. QED
        BY <1>2, <1>6, <2>1, <3>1, <4>1 DEF Ascending
    <3>2. CASE i > Len(s)
      <4>1. /\ i - Len(s) \in 1..Len(t) /\ u[i] = t[i - Len(s)]
            /\ j - Len(s) \in 1..Len(t) /\ u[j] = t[j - Len(s)]
            /\ i - Len(s) < j - Len(s)
        <5>1. j > Len(s) /\ ~(i <= Len(s)) /\ i - Len(s) < j - Len(s)
          BY <1>2, <2>1, <3>2
        <5>2. i \notin 1..Len(s) /\ j \notin 1..Len(s)
          BY <1>2, <3>2, <5>1
        <5>3. QED
          BY <1>3, <5>1, <5>2
      <4>2. QED
        BY <1>2, <1>6, <4>1 DEF Ascending
    <3>3. CASE i \in 1..Len(s) /\ j > Len(s)
      <4>1. u[i] \in Range(s) /\ u[j] \in Range(t)
        <5>1. ~(i > Len(s)) /\ j \notin 1..Len(s)
          BY <1>2, <3>3
        <5>2. QED
          BY <1>3, <5>1
      <4>2. QED
        BY <1>6, <4>1
    <3>4. QED
      BY <1>2, <3>1, <3>2, <3>3
  <2>2. QED
    BY <1>2, <2>1 DEF Ascending
<1>7. QED
  BY <1>1, <1>4, <1>5, <1>6 DEF u

(* Ascending sequences of numbers are distinct.                            *)
LEMMA AscendingDistinct ==
  ASSUME NEW s \in Seq(Nat), Ascending(s)
  PROVE  Distinct(s)
<1>1. Len(s) \in Nat /\ DOMAIN s = 1..Len(s) /\ \A i \in 1..Len(s) : s[i] \in Nat
  BY Members
<1>2. ASSUME NEW i \in 1..Len(s), NEW j \in 1..Len(s), i # j
      PROVE  s[i] # s[j]
  <2>1. CASE i < j
    BY <1>1, <2>1 DEF Ascending
  <2>2. CASE j < i
    BY <1>1, <2>2 DEF Ascending
  <2>3. QED
    BY <1>1, <1>2, <2>1, <2>2
<1>3. QED
  BY <1>1, <1>2 DEF Distinct

(* A sequence without repetition has as many positions as members.         *)
LEMMA DistinctCount ==
  ASSUME NEW s \in Seq(Nat), Distinct(s)
  PROVE  IsFiniteSet(Range(s)) /\ Cardinality(Range(s)) = Len(s)
<1>1. Len(s) \in Nat /\ DOMAIN s = 1..Len(s) /\ s \in [1..Len(s) -> Nat]
  BY LenProperties
<1>2. s \in Bijection(1..Len(s), Range(s))
  BY <1>1 DEF Distinct, Range, Bijection, Injection, Surjection, IsInjective
<1>3. IsFiniteSet(1..Len(s)) /\ Cardinality(1..Len(s)) = Len(s)
  <2>1. Len(s) \in Int /\ 1 \in Int /\ (IF 1 > Len(s) THEN 0 ELSE Len(s) - 1 + 1) = Len(s)
    BY <1>1
  <2>2. QED
    BY <2>1, FS_Interval
<1>4. ExistsBijection(1..Len(s), Range(s))
  BY <1>2 DEF ExistsBijection
<1>5. QED
  BY <1>3, <1>4, FS_Bijection

(* What the invariant says of InFlight.                                    *)
LEMMA FlightFacts ==
  ASSUME ActionsInv
  PROVE  /\ InFlight \in Seq(Nat) /\ Len(InFlight) = (IF mHasTaskInRuning THEN 1 ELSE 0)
         /\ Range(InFlight) = Hand /\ Ascending(InFlight)
<1>1. mHasTaskInRuning \in BOOLEAN /\ (Len(posted) = 0 => posted = <<>>) /\ posted \in Seq(Nat)
  BY HandFacts
<1>2. CASE ~mHasTaskInRuning
  <2>1. InFlight = <<>> /\ Hand = {}
    BY <1>2, HandFacts DEF InFlight
  <2>2. Range(<<>>) = {} /\ Ascending(<<>>)
    BY DEF Range, Ascending
  <2>3. QED
    BY <1>2, <2>1, <2>2, EmptyNats
<1>3. CASE mHasTaskInRuning
  <2>1. InHand \in Nat /\ Hand = {InHand}
    BY <1>3 DEF ActionsInv, TakenInv, Hand
  <2>2. InFlight = <<InHand>>
    <3>1. CASE IsIdle
      <4>1. Len(posted) = 1 /\ InFlight = posted /\ InHand = posted[1]
        BY <1>1, <1>3, <3>1 DEF ActionsInv, TakenInv, IsIdle, InFlight, InHand
      <4>2. posted = <<posted[1]>>
        BY <1>1, <4>1
      <4>3. QED
        BY <4>1, <4>2
    <3>2. CASE ~IsIdle
      <4>1. Len(posted) = 0
        BY <3>2 DEF ActionsInv, TakenInv
      <4>2. posted = <<>> /\ io \in Nat
        BY <1>1, <2>1, <3>2, <4>1 DEF InHand
      <4>3. QED
        BY <3>2, <4>2 DEF IsIdle, InFlight, InHand
    <3>3. QED
      BY <3>1, <3>2
  <2>3. /\ <<InHand>> \in Seq(Nat) /\ Len(<<InHand>>) = 1
        /\ \A i, j \in DOMAIN <<InHand>> : ~(i < j)
    BY <2>1
  <2>4. Range(<<InHand>>) = {InHand}
    BY <2>1 DEF Range
  <2>5. QED
    BY <1>3, <2>1, <2>2, <2>3, <2>4 DEF Ascending
<1>4. QED
  BY <1>1, <1>2, <1>3

(* The invariant implies that the collection never stalls.                 *)
LEMMA InvNeverStalls == ActionsInv => NeverStalls
BY FlightFacts DEF NeverStalls, ActionsInv, TakenInv

(* ... and that every object is handled once.                              *)
LEMMA InvHandledOnce == ActionsInv => HandledOnce
<1> SUFFICES ASSUME ActionsInv PROVE HandledOnce
  OBVIOUS
<1> DEFINE first == handled \o InFlight
           places == first \o mQueue
<1>1. /\ InFlight \in Seq(Nat) /\ Range(InFlight) = Hand
      /\ Ascending(InFlight) /\ Distinct(InFlight)
  BY FlightFacts, AscendingDistinct
<1>2. /\ handled \in Seq(Nat) /\ Distinct(handled) /\ numAdded \in Nat
      /\ mQueue \in Seq(Nat) /\ Ascending(mQueue) /\ Distinct(mQueue)
  BY AscendingDistinct DEF ActionsInv, Accounted, Distinct
<1>3. /\ Range(handled) \cap Hand = {}
      /\ (Range(handled) \cup Hand) \cap Range(mQueue) = {}
      /\ (Range(handled) \cup Hand \cup Range(mQueue)) \cap removed = {}
      /\ Range(handled) \cup Hand \cup Range(mQueue) \cup removed = 1..numAdded
  BY DEF ActionsInv, Accounted
<1>4. /\ first \in Seq(Nat) /\ Distinct(first) /\ Range(first) = Range(handled) \cup Hand
      /\ Ascending(handled) /\ (\A x \in Range(handled) : \A y \in Hand : x < y)
           => Ascending(first)
  BY <1>1, <1>2, <1>3, Concatenated
<1> HIDE DEF first
<1>5. /\ places \in Seq(Nat) /\ Distinct(places)
      /\ Range(places) = Range(handled) \cup Hand \cup Range(mQueue)
      /\ Ascending(first) /\ (\A x \in Range(first) : \A y \in Range(mQueue) : x < y)
           => Ascending(places)
  BY <1>2, <1>3, <1>4, Concatenated
<1> HIDE DEF places
<1>6. mMode = "FIFO" => Ascending(places)
  BY <1>4, <1>5 DEF ActionsInv, Accounted
<1>13. ASSUME mMode = "FILO", NEW i \in DOMAIN (handled \o InFlight), NEW j \in DOMAIN places, i < j
       PROVE  places[j] < places[i] \/ places[j] > takenAt[i]
  <2>1. /\ i \in 1..Len(first) /\ j \in 1..Len(places) /\ i \in Nat /\ j \in Nat
        /\ Len(first) \in Nat /\ Len(handled) \in Nat /\ Len(places) = Len(first) + Len(mQueue)
        /\ Len(first) = Len(handled) + Len(InFlight) /\ Len(mQueue) \in Nat /\ Len(InFlight) \in Nat
    <3>1. DOMAIN first = 1..Len(first) /\ DOMAIN places = 1..Len(places) /\ Len(first) \in Nat
      BY <1>4, <1>5, Members
    <3>2. Len(first) = Len(handled) + Len(InFlight) /\ Len(places) = Len(first) + Len(mQueue)
      BY <1>1, <1>2, <1>4, ConcatProperties DEF first, places
    <3>3. QED
      BY <1>1, <1>2, <1>13, <3>1, <3>2, Members DEF first
  <2>2. /\ places[i] = first[i]
        /\ \/ i \in 1..Len(handled) /\ first[i] = handled[i]
           \/ i > Len(handled) /\ i = Len(handled) + 1 /\ first[i] \in Hand
    <3>1. i \in 1..Len(places) /\ ~(i > Len(first))
      BY ONLY <2>1
    <3>2. places[i] = first[i]
      BY <1>2, <1>4, <3>1, Behind DEF places
    <3>3. \/ i \in 1..Len(handled) /\ first[i] = handled[i]
          \/ i > Len(handled) /\ first[i] \in Hand
      BY <1>1, <1>2, <2>1, Behind DEF first
    <3>4. Len(InFlight) = 0 \/ Len(InFlight) = 1
      BY FlightFacts
    <3>5. i > Len(handled) => i = Len(handled) + 1
      <4>1. PICK a \in Nat : a = i /\ a <= Len(first)
        BY <2>1
      <4>2. Len(first) = Len(handled) + Len(InFlight) /\ Len(handled) \in Nat
        BY <2>1
      <4>3. PICK b \in Nat : b = Len(handled)
        BY <4>2
      <4>4. PICK c \in {0, 1} : c = Len(InFlight)
        BY <3>4
      <4>5. Len(first) = b + c
        BY ONLY <4>2, <4>3, <4>4
      <4>6. a <= b + c
        BY <4>1, <4>5
      <4>7. a > b => a = b + 1
        BY <4>6
      <4>8. QED
        BY <4>1, <4>3, <4>7
    <3>6. QED
      BY <3>2, <3>3, <3>5
  <2>3. \/ j \in 1..Len(handled) /\ places[j] = handled[j]
        \/ j > Len(handled) /\ places[j] \in Hand
        \/ j > Len(first) /\ places[j] \in Range(mQueue)
    <3>1. CASE j > Len(first)
      BY <1>2, <1>4, <2>1, <3>1, Behind DEF places
    <3>2. CASE ~(j > Len(first))
      <4>1. j \in 1..Len(first)
        BY ONLY <2>1, <3>2
      <4>2. places[j] = first[j]
        BY <1>2, <1>4, <2>1, <3>2, Behind DEF places
      <4>3. QED
        BY <1>1, <1>2, <4>1, <4>2, Behind DEF first
    <3>3. QED
      BY <3>1, <3>2
  <2>4. Follows(places[j], places[i], takenAt[i])
    <3>1. NewestFirst(mMode, handled, Hand, mQueue, numAdded, takenAt)
      BY DEF ActionsInv
    <3>2. CASE i \in 1..Len(handled)
      <4>1. places[i] = handled[i]
        BY <2>1, <2>2, <3>2
      <4>2. CASE j \in 1..Len(handled) /\ places[j] = handled[j]
        BY <1>13, <3>1, <3>2, <4>1, <4>2 DEF NewestFirst
      <4>3. CASE places[j] \in Hand \cup Range(mQueue)
        BY <1>13, <3>1, <3>2, <4>1, <4>3 DEF NewestFirst
      <4>4. QED
        BY <2>3, <4>2, <4>3
    <3>3. CASE i = Len(handled) + 1 /\ first[i] \in Hand
      <4>1. j > Len(first)
        <5>1. Len(InFlight) = 1
          BY <3>3, FlightFacts DEF Hand
        <5>2. QED
          BY ONLY <1>13, <2>1, <3>3, <5>1
      <4>2. places[j] \in Range(mQueue)
        BY <1>2, <1>4, <2>1, <4>1, Behind DEF places
      <4>3. QED
        BY <1>13, <2>2, <3>1, <3>3, <4>2 DEF NewestFirst
    <3>4. QED
      BY <2>2, <3>2, <3>3
  <2>5. QED
    BY <2>4 DEF Follows
<1>7. IsFiniteSet(Range(places)) /\ Cardinality(Range(places)) = Len(places)
  BY <1>5, DistinctCount
<1>8. Range(places) \cup removed = 1..numAdded /\ Range(places) \cap removed = {}
  BY <1>3, <1>5
<1>9. Len(places) + Cardinality(removed) = numAdded
  <2>1. IsFiniteSet(1..numAdded) /\ Cardinality(1..numAdded) = numAdded
    BY <1>2, FS_Interval
  <2>2. IsFiniteSet(removed) /\ Cardinality(removed) \in Nat
    BY <1>8, <2>1, FS_Subset, FS_CardinalityType
  <2>3. /\ Cardinality(1..numAdded) = Cardinality(Range(places)) + Cardinality(removed)
                                        - Cardinality(Range(places) \cap removed)
        /\ Cardinality(Range(places) \cap removed) = 0
    BY <1>7, <1>8, <2>2, FS_Union, FS_EmptySet
  <2>4. Len(places) \in Nat
    BY <1>5, Members
  <2>5. QED
    BY <1>2, <1>7, <2>1, <2>2, <2>3, <2>4
<1>10. ToSet(places) = Range(places)
  BY DEF ToSet, Range
<1>11. places = handled \o InFlight \o mQueue
  BY DEF places, first
<1>12. QED
  BY <1>2, <1>6, <1>8, <1>9, <1>10, <1>11, <1>13 DEF HandledOnce, Ascending
-----------------------------------------------------------------------------
(* In every state of the specification, for any number of calls: at most   *)
(* one object is between the queue and the end of its action, every object *)
(* pushed is handled, in hand, queued or removed, and only one of these    *)
(* (the lock-protected parts of DeferredActionCollection).                 *)
THEOREM ActionsAccounted == ActionsSpec => []ActionsInv
BY InductiveActions, PTL DEF ActionsSpec

(* mHasTaskInRuning is exact, and a started collection with objects has    *)
(* one on its way to the action: the next EmitOne is certain to come.      *)
THEOREM CollectionNeverStalls == ActionsSpec => []NeverStalls
BY ActionsAccounted, InvNeverStalls, PTL

(* Every object added and not removed is handled once, in the order the    *)
(* mode promises.                                                          *)
THEOREM ObjectsHandledOnce == ActionsSpec => []HandledOnce
BY ActionsAccounted, InvHandledOnce, PTL
=============================================================================
