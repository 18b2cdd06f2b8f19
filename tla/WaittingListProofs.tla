------------------------- MODULE WaittingListProofs -------------------------
(***************************************************************************)
(* Proofs about WaittingList, for any number of nodes and workflows: no    *)
(* task is lost or doubled, and no list is forgotten or out of order.      *)
(***************************************************************************)
EXTENDS WaittingList, TLAPS, FiniteSetTheorems, SequenceTheorems, NaturalsInduction,
        WellFoundedInduction

(* No member stands twice in the sequence.                                 *)
Distinct(s) == \A i, j \in DOMAIN s : i # j => s[i] # s[j]

(* In the list of node n, t is to be tried before u.                       *)
Before(n, t, u) == t.flow < u.flow \/ (t.flow = u.flow /\ u.node # n)
Ordered(n, s) == \A j, k \in DOMAIN s : j < k => Before(n, s[j], s[k])
-----------------------------------------------------------------------------
(* Sequences.                                                              *)

(* The members of a sequence.                                              *)
LEMMA Members ==
  ASSUME NEW S, NEW s \in Seq(S)
  PROVE  /\ Len(s) \in Nat /\ DOMAIN s = 1..Len(s)
         /\ \A i \in 1..Len(s) : s[i] \in S /\ s[i] \in Range(s)
         /\ \A x \in Range(s) : x \in S /\ \E i \in 1..Len(s) : s[i] = x
<1>1. Len(s) \in Nat /\ DOMAIN s = 1..Len(s) /\ s \in [1..Len(s) -> S]
  BY LenProperties
<1>2. \A i \in 1..Len(s) : s[i] \in S
  BY <1>1
<1>3. QED
  BY <1>1, <1>2 DEF Range

(* The empty sequence.                                                     *)
LEMMA EmptyFacts ==
  ASSUME NEW S
  PROVE  /\ <<>> \in Seq(S) /\ Len(<<>>) = 0 /\ Range(<<>>) = {} /\ Distinct(<<>>)
         /\ \A n : Ordered(n, <<>>)
BY EmptySeq DEF Range, Distinct, Ordered

(* A sequence with a member has a first one.                               *)
LEMMA HasFirst ==
  ASSUME NEW S, NEW s \in Seq(S), s # <<>>
  PROVE  Len(s) > 0 /\ 1 \in 1..Len(s) /\ Head(s) = s[1]
<1>1. Len(s) \in Nat /\ Len(s) # 0
  BY Members, EmptySeq
<1>2. QED
  BY <1>1

(* A new member at the end.                                                *)
LEMMA AppendFacts ==
  ASSUME NEW S, NEW s \in Seq(S), NEW o \in S
  PROVE  /\ Append(s, o) \in Seq(S) /\ Len(Append(s, o)) = Len(s) + 1
         /\ \A i \in 1..Len(s) : Append(s, o)[i] = s[i]
         /\ Append(s, o)[Len(s) + 1] = o
         /\ Range(Append(s, o)) = Range(s) \cup {o}
         /\ Distinct(s) /\ o \notin Range(s) => Distinct(Append(s, o))
<1> DEFINE t == Append(s, o)
<1>1. /\ t \in Seq(S) /\ Len(t) = Len(s) + 1
      /\ \A i \in 1..Len(s) : t[i] = s[i]
      /\ t[Len(s) + 1] = o
  BY AppendProperties
<1> HIDE DEF t
<1>2. /\ Len(s) \in Nat /\ DOMAIN s = 1..Len(s) /\ DOMAIN t = 1..Len(t)
      /\ \A i \in 1..Len(s) : s[i] \in Range(s)
  BY <1>1, Members
<1>3. \A i \in 1..Len(t) : i \in 1..Len(s) \/ i = Len(s) + 1
  BY <1>1, <1>2
<1>4. ASSUME NEW x \in Range(t)
      PROVE  x \in Range(s) \cup {o}
  <2>1. PICK i \in 1..Len(t) : t[i] = x
    BY <1>1, Members
  <2>2. QED
    BY <1>1, <1>2, <1>3, <2>1
<1>5. ASSUME NEW x \in Range(s)
      PROVE  x \in Range(t)
  <2>1. PICK i \in 1..Len(s) : s[i] = x
    BY Members
  <2>2. i \in 1..Len(t) /\ t[i] = x
    BY <1>1, <1>2, <2>1
  <2>3. QED
    BY <1>1, <2>2, Members
<1>6. o \in Range(t)
  <2>1. Len(s) + 1 \in 1..Len(t)
    BY <1>1, <1>2
  <2>2. QED
    BY <1>1, <2>1, Members
<1>7. Distinct(s) /\ o \notin Range(s) => Distinct(t)
  BY <1>1, <1>2, <1>3 DEF Distinct
<1>8. QED
  BY <1>1, <1>4, <1>5, <1>6, <1>7 DEF t

(* A member is replaced.                                                   *)
LEMMA ReplaceFacts ==
  ASSUME NEW S, NEW s \in Seq(S), NEW k \in 1..Len(s), NEW o \in S,
         NEW t, t = [s EXCEPT ![k] = o]
  PROVE  /\ t \in Seq(S) /\ Len(t) = Len(s)
         /\ \A i \in 1..Len(s) : t[i] = IF i = k THEN o ELSE s[i]
<1>1. Len(s) \in Nat /\ DOMAIN s = 1..Len(s) /\ s \in [1..Len(s) -> S]
  BY LenProperties
<1>2. t \in [1..Len(s) -> S] /\ \A i \in 1..Len(s) : t[i] = IF i = k THEN o ELSE s[i]
  BY <1>1
<1>3. t \in Seq(S)
  BY <1>1, <1>2, SeqDef
<1>4. DOMAIN t = 1..Len(s) /\ DOMAIN t = 1..Len(t) /\ Len(t) \in Nat
  BY <1>2, <1>3, LenProperties
<1>5. Len(t) = Len(s)
  BY <1>1, <1>4
<1>6. QED
  BY <1>2, <1>3, <1>5

(* t is s without the member at position k.                                *)
Without(t, s, k) ==
  /\ Len(s) = Len(t) + 1
  /\ \A i \in 1..Len(t) : (i < k => t[i] = s[i]) /\ (k <= i => t[i] = s[i + 1])

(* It has all other members, in the same order.                            *)
LEMMA WithoutFacts ==
  ASSUME NEW S, NEW s \in Seq(S), NEW k \in 1..Len(s), Distinct(s), NEW t \in Seq(S),
         Without(t, s, k)
  PROVE  /\ Distinct(t) /\ Range(t) = Range(s) \ {s[k]}
         /\ \A n : Ordered(n, s) => Ordered(n, t)
<1> USE DEF Without
<1>1. Len(s) \in Nat /\ Len(t) \in Nat /\ DOMAIN s = 1..Len(s) /\ DOMAIN t = 1..Len(t)
  BY Members
<1>2. ASSUME NEW i \in 1..Len(t)
      PROVE  \E a \in 1..Len(s) : t[i] = s[a] /\ ((i < k /\ a = i) \/ (k <= i /\ a = i + 1))
  <2>1. i \in Nat /\ k \in Nat /\ i + 1 \in 1..Len(s) /\ i \in 1..Len(s)
    BY <1>1
  <2>2. CASE i < k
    BY <2>1, <2>2
  <2>3. CASE ~(i < k)
    BY <2>1, <2>3
  <2>4. QED
    BY <2>2, <2>3
<1>3. ASSUME NEW i \in 1..Len(t), NEW j \in 1..Len(t), i < j
      PROVE  \E a, b \in 1..Len(s) : a < b /\ t[i] = s[a] /\ t[j] = s[b]
  <2>1. PICK a \in 1..Len(s) : t[i] = s[a] /\ ((i < k /\ a = i) \/ (k <= i /\ a = i + 1))
    BY <1>2
  <2>2. PICK b \in 1..Len(s) : t[j] = s[b] /\ ((j < k /\ b = j) \/ (k <= j /\ b = j + 1))
    BY <1>2
  <2>3. a < b
    <3>1. /\ (i < k /\ a = i) \/ (k <= i /\ a = i + 1)
          /\ (j < k /\ b = j) \/ (k <= j /\ b = j + 1)
      BY <2>1, <2>2
    <3>2. i \in Nat /\ j \in Nat /\ k \in Nat
      BY <1>1
    <3>3. QED
      BY ONLY <1>3, <3>1, <3>2
  <2>4. QED
    BY <2>1, <2>2, <2>3
<1>4. ASSUME NEW n, Ordered(n, s)
      PROVE  Ordered(n, t)
  <2>1. ASSUME NEW i \in 1..Len(t), NEW j \in 1..Len(t), i < j
        PROVE  Before(n, t[i], t[j])
    <3>1. PICK a, b \in 1..Len(s) : a < b /\ t[i] = s[a] /\ t[j] = s[b]
      BY <1>3, <2>1
    <3>2. Before(n, s[a], s[b])
      BY <1>1, <1>4, <3>1 DEF Ordered
    <3>3. QED
      BY <3>1, <3>2
  <2>2. QED
    BY <1>1, <2>1 DEF Ordered
<1>5. ASSUME NEW i \in 1..Len(t), NEW j \in 1..Len(t), i # j
      PROVE  t[i] # t[j]
  <2>1. i < j \/ j < i
    BY <1>1, <1>5
  <2>2. \E a, b \in 1..Len(s) : a # b /\ t[i] = s[a] /\ t[j] = s[b]
    <3>1. \A a, b \in 1..Len(s) : a < b => a # b
      BY <1>1
    <3>2. QED
      BY <1>3, <2>1, <3>1
  <2>3. QED
    BY <1>1, <2>2 DEF Distinct
<1>6. ASSUME NEW x \in Range(t)
      PROVE  x \in Range(s) /\ x # s[k]
  <2>1. PICK i \in 1..Len(t) : t[i] = x
    BY Members
  <2>2. PICK a \in 1..Len(s) : t[i] = s[a] /\ ((i < k /\ a = i) \/ (k <= i /\ a = i + 1))
    BY <1>2
  <2>3. x = s[a] /\ a # k
    BY <1>1, <2>1, <2>2
  <2>4. s[a] # s[k]
    BY <1>1, <2>3 DEF Distinct
  <2>5. s[a] \in Range(s)
    BY Members
  <2>6. QED
    BY <2>3, <2>4, <2>5
<1>7. ASSUME NEW x \in Range(s), x # s[k]
      PROVE  x \in Range(t)
  <2>1. PICK i \in 1..Len(s) : s[i] = x
    BY Members
  <2>2. i # k
    BY <1>7, <2>1
  <2>3. PICK a \in 1..Len(t) : a = IF i < k THEN i ELSE i - 1
    BY <1>1, <2>2
  <2>4. t[a] = x
    BY <1>1, <2>1, <2>2, <2>3
  <2>5. QED
    BY <2>4, Members
<1>8. QED
  BY <1>1, <1>4, <1>5, <1>6, <1>7 DEF Distinct

(* RemoveAt removes a member.                                              *)
LEMMA RemoveAtFacts ==
  ASSUME NEW S, NEW s \in Seq(S), NEW k \in 1..Len(s), Distinct(s)
  PROVE  /\ RemoveAt(s, k) \in Seq(S) /\ Distinct(RemoveAt(s, k))
         /\ Range(RemoveAt(s, k)) = Range(s) \ {s[k]}
         /\ \A n : Ordered(n, s) => Ordered(n, RemoveAt(s, k))
<1> DEFINE a == SubSeq(s, 1, k - 1)
           b == SubSeq(s, k + 1, Len(s))
           t == RemoveAt(s, k)
<1>1. Len(s) \in Nat /\ k \in Nat
  BY Members
<1>2. /\ a \in Seq(S) /\ Len(a) = k - 1
      /\ \A i \in 1..(k - 1) : a[i] = s[i]
  BY <1>1
<1>3. /\ b \in Seq(S) /\ Len(b) = Len(s) - k
      /\ \A i \in 1..(Len(s) - k) : b[i] = s[k + i]
  BY <1>1
<1>4. t = a \o b
  BY DEF RemoveAt
<1> HIDE DEF a, b, t
<1>5. /\ t \in Seq(S) /\ Len(t) = Len(a) + Len(b)
      /\ \A i \in 1..Len(t) : t[i] = IF i <= Len(a) THEN a[i] ELSE b[i - Len(a)]
  <2>1. a \o b \in Seq(S)
    BY <1>2, <1>3
  <2>2. Len(a \o b) = Len(a) + Len(b)
    BY <1>2, <1>3, ConcatProperties
  <2>3. \A i \in 1..(Len(a) + Len(b)) : (a \o b)[i] = IF i <= Len(a) THEN a[i] ELSE b[i - Len(a)]
    BY <1>2, <1>3, ConcatProperties
  <2>4. QED
    BY <1>4, <2>1, <2>2, <2>3
<1>6. Len(s) = Len(t) + 1
  <2>1. Len(a) = k - 1 /\ Len(b) = Len(s) - k /\ Len(t) = Len(a) + Len(b)
    BY <1>2, <1>3, <1>5
  <2>2. QED
    BY ONLY <1>1, <2>1
<1>7. ASSUME NEW i \in 1..Len(t)
      PROVE  (i < k => t[i] = s[i]) /\ (k <= i => t[i] = s[i + 1])
  <2>1. CASE i < k
    <3>1. i \in 1..(k - 1) /\ i <= Len(a) /\ ~(k <= i)
      BY <1>1, <1>2, <2>1
    <3>2. QED
      BY <1>2, <1>5, <2>1, <3>1
  <2>2. CASE ~(i < k)
    <3>1. i - Len(a) \in 1..(Len(s) - k) /\ k + (i - Len(a)) = i + 1 /\ ~(i <= Len(a))
      <4>1. Len(a) = k - 1 /\ Len(t) \in Nat /\ i \in 1..Len(t)
        BY <1>2, <1>5, Members
      <4>2. QED
        BY ONLY <1>1, <1>6, <2>2, <4>1
    <3>2. t[i] = b[i - Len(a)]
      BY <1>5, <3>1
    <3>3. b[i - Len(a)] = s[k + (i - Len(a))]
      BY <1>3, <3>1
    <3>4. QED
      BY <2>2, <3>1, <3>2, <3>3
  <2>3. QED
    BY <2>1, <2>2
<1>8. Without(t, s, k)
  BY <1>6, <1>7 DEF Without
<1>9. /\ Distinct(t) /\ Range(t) = Range(s) \ {s[k]}
      /\ \A n : Ordered(n, s) => Ordered(n, t)
  BY <1>5, <1>8, WithoutFacts
<1>10. QED
  BY <1>5, <1>9 DEF t

(* Tail removes the first member.                                          *)
LEMMA TailFacts ==
  ASSUME NEW S, NEW s \in Seq(S), s # <<>>, Distinct(s)
  PROVE  /\ Tail(s) \in Seq(S) /\ Distinct(Tail(s))
         /\ Head(s) \in Range(s) /\ Range(Tail(s)) = Range(s) \ {Head(s)}
         /\ \A n : Ordered(n, s) => Ordered(n, Tail(s))
<1> DEFINE t == Tail(s)
<1>1. Len(s) \in Nat /\ Len(s) > 0 /\ 1 \in 1..Len(s) /\ Head(s) = s[1] /\ s[1] \in Range(s)
  BY Members, HasFirst
<1>2. t \in Seq(S) /\ Len(s) = Len(t) + 1 /\ \A i \in 1..Len(t) : t[i] = s[i + 1]
  BY <1>1, HeadTailProperties
<1> HIDE DEF t
<1>3. Without(t, s, 1)
  BY <1>2 DEF Without
<1>4. /\ Distinct(t) /\ Range(t) = Range(s) \ {s[1]}
      /\ \A n : Ordered(n, s) => Ordered(n, t)
  BY <1>1, <1>2, <1>3, WithoutFacts
<1>5. QED
  BY <1>1, <1>2, <1>4 DEF t
-----------------------------------------------------------------------------
(* Insertion.                                                              *)

(* Natural numbers are well founded.                                       *)
LEMMA LeastMember ==
  ASSUME NEW T, T \subseteq Nat, T # {}
  PROVE  \E m \in T : \A k \in T : m <= k
<1>1. \E m \in T : \A k \in T : ~(<<k, m>> \in OpToRel(<, Nat))
  BY NatLessThanWellFounded, WFMin
<1>2. PICK m \in T : \A k \in T : ~(<<k, m>> \in OpToRel(<, Nat))
  BY <1>1
<1>3. \A k \in T : <<k, m>> \in Nat \X Nat
  OBVIOUS
<1>4. \A k \in T : ~(k < m)
  BY <1>2, <1>3 DEF OpToRel
<1>5. QED
  BY <1>4

(* A task is a node and a workflow.                                        *)
LEMMA TaskFields ==
  /\ \A t \in Task : t.flow \in Nat /\ t.node \in Node /\ t.node \in Nat
  /\ \A t, u \in Task : t.flow = u.flow /\ t.node = u.node => t = u
<1>1. ASSUME NEW t \in Task
      PROVE  /\ t.flow \in Nat /\ t.node \in Node /\ t.node \in Nat
             /\ t = [flow |-> t.flow, node |-> t.node]
  BY DEF Task, Node
<1>2. QED
  BY <1>1

(* The place that the walk from the back of the list ends at.              *)
Place(list, flow, k) ==
  /\ k \in 0..Len(list)
  /\ k > 0 => list[k].flow <= flow
  /\ \A j \in (k + 1)..Len(list) : list[j].flow > flow

(* There is one.                                                           *)
LEMMA PlaceExists ==
  ASSUME NEW list \in Seq(Task), NEW flow \in Int
  PROVE  \E k \in 0..Len(list) : Place(list, flow, k)
<1> DEFINE T == {k \in 0..Len(list) : \A j \in (k + 1)..Len(list) : list[j].flow > flow}
<1>1. Len(list) \in Nat /\ \A j \in 1..Len(list) : list[j] \in Task
  BY Members
<1>2. Len(list) \in T
  BY <1>1
<1>3. PICK k \in T : \A m \in T : k <= m
  <2>1. T \subseteq Nat /\ T # {}
    BY <1>1, <1>2
  <2> HIDE DEF T
  <2>2. QED
    BY <2>1, LeastMember
<1>4. ASSUME k > 0
      PROVE  list[k].flow <= flow
  <2>1. k - 1 \notin T /\ k - 1 \in 0..Len(list) /\ k \in 1..Len(list) /\ (k - 1) + 1 = k
    <3>1. k \in 0..Len(list)
      OBVIOUS
    <3> HIDE DEF T
    <3>2. k - 1 \in 0..Len(list) /\ k \in 1..Len(list) /\ (k - 1) + 1 = k /\ ~(k <= k - 1)
      BY <1>1, <1>4, <3>1
    <3>3. QED
      BY <1>3, <3>2
  <2>2. PICK j \in k..Len(list) : ~(list[j].flow > flow)
    BY <2>1
  <2>3. j = k
    <3>1. j \in (k + 1)..Len(list) => list[j].flow > flow
      BY <1>3
    <3>2. QED
      BY <1>1, <2>1, <2>2, <3>1
  <2>4. list[k].flow \in Nat
    BY <1>1, <2>1, TaskFields
  <2>5. QED
    BY <2>2, <2>3, <2>4
<1>5. QED
  BY <1>3, <1>4 DEF Place

(* t stands behind the first k members of s.                               *)
With(r, s, k, t) ==
  /\ Len(r) = Len(s) + 1
  /\ \A i \in 1..k : r[i] = s[i]
  /\ r[k + 1] = t
  /\ \A i \in (k + 2)..Len(r) : r[i] = s[i - 1]

(* Insertion puts the task at its place.                                   *)
LEMMA Inserted ==
  ASSUME NEW list \in Seq(Task), NEW t \in Task, NEW flow \in Int
  PROVE  /\ Insert(list, t, flow) \in Seq(Task)
         /\ \E k \in 0..Len(list) : Place(list, flow, k) /\ With(Insert(list, t, flow), list, k, t)
<1> DEFINE k == CHOOSE k \in 0..Len(list) :
                  /\ k > 0 => list[k].flow <= flow
                  /\ \A j \in (k + 1)..Len(list) : list[j].flow > flow
           a == SubSeq(list, 1, k)
           m == <<t>>
           b == SubSeq(list, k + 1, Len(list))
           r == Insert(list, t, flow)
<1>1. r = (a \o m) \o b
  BY DEF Insert
<1>2. Place(list, flow, k)
  BY PlaceExists DEF Place
<1> HIDE DEF k
<1>3. k \in Nat /\ Len(list) \in Nat /\ k <= Len(list)
  BY <1>2, Members DEF Place
<1>4. a \in Seq(Task) /\ Len(a) = k /\ \A i \in 1..k : a[i] = list[i]
  BY <1>3
<1>5. /\ b \in Seq(Task) /\ Len(b) = Len(list) - k
      /\ \A i \in 1..(Len(list) - k) : b[i] = list[k + i]
  BY <1>3
<1>6. m \in Seq(Task) /\ Len(m) = 1 /\ m[1] = t
  OBVIOUS
<1> HIDE DEF a, b, m, r
<1>7. /\ a \o m \in Seq(Task) /\ Len(a \o m) = k + 1
      /\ \A i \in 1..k : (a \o m)[i] = list[i]
      /\ (a \o m)[k + 1] = t
  <2>1. a \o m \in Seq(Task) /\ Len(a \o m) = Len(a) + Len(m)
    BY <1>4, <1>6, ConcatProperties
  <2>2. \A i \in 1..(Len(a) + Len(m)) : (a \o m)[i] = IF i <= Len(a) THEN a[i] ELSE m[i - Len(a)]
    BY <1>4, <1>6, ConcatProperties
  <2>3. Len(a) + Len(m) = k + 1
    BY <1>4, <1>6
  <2>4. \A i \in 1..k : (a \o m)[i] = list[i]
    BY <1>3, <1>4, <2>2, <2>3
  <2>5. (a \o m)[k + 1] = t
    <3>1. k + 1 \in 1..(k + 1) /\ ~(k + 1 <= k) /\ (k + 1) - k = 1
      BY <1>3
    <3>2. QED
      BY <1>4, <1>6, <2>2, <2>3, <3>1
  <2>6. QED
    BY <2>1, <2>3, <2>4, <2>5
<1> DEFINE c == a \o m
<1>70. r = c \o b
  BY <1>1
<1>71. /\ c \in Seq(Task) /\ Len(c) = k + 1
       /\ \A i \in 1..k : c[i] = list[i]
       /\ c[k + 1] = t
  BY <1>7
<1> HIDE DEF c
<1>8. /\ r \in Seq(Task) /\ Len(r) = Len(c) + Len(b)
      /\ \A i \in 1..(Len(c) + Len(b)) : r[i] = IF i <= Len(c) THEN c[i] ELSE b[i - Len(c)]
  BY <1>5, <1>70, <1>71, ConcatProperties
<1>9. Len(r) = Len(list) + 1 /\ Len(c) + Len(b) = Len(list) + 1
  <2>1. Len(b) = Len(list) - k /\ Len(c) = k + 1 /\ Len(r) = Len(c) + Len(b)
    BY <1>5, <1>71, <1>8
  <2>2. QED
    BY ONLY <1>3, <2>1
<1>10. \A i \in 1..k : r[i] = list[i]
  <2>1. \A i \in 1..k : i \in 1..(Len(list) + 1) /\ i <= k + 1
    BY ONLY <1>3
  <2>2. QED
    BY <1>71, <1>8, <1>9, <2>1
<1>11. r[k + 1] = t
  <2>1. k + 1 \in 1..(Len(list) + 1) /\ k + 1 <= k + 1
    BY ONLY <1>3
  <2>2. QED
    BY <1>71, <1>8, <1>9, <2>1
<1>12. ASSUME NEW i \in (k + 2)..Len(r)
       PROVE  r[i] = list[i - 1]
  <2>1. /\ i \in 1..(Len(list) + 1) /\ ~(i <= k + 1)
        /\ i - (k + 1) \in 1..(Len(list) - k) /\ k + (i - (k + 1)) = i - 1
    BY ONLY <1>3, <1>9, i \in (k + 2)..Len(r)
  <2>2. r[i] = b[i - (k + 1)]
    BY <1>71, <1>8, <1>9, <2>1
  <2>3. b[i - (k + 1)] = list[k + (i - (k + 1))]
    BY <1>5, <2>1
  <2>4. QED
    BY <2>1, <2>2, <2>3
<1>13. With(r, list, k, t)
  BY <1>9, <1>10, <1>11, <1>12 DEF With
<1>14. k \in 0..Len(list)
  BY <1>3
<1>15. QED
  BY <1>2, <1>8, <1>13, <1>14 DEF r

(* It keeps the order, if the tasks up to flow are to be tried before the  *)
(* new one, and the others behind it.                                      *)
LEMMA InsertFacts ==
  ASSUME NEW list \in Seq(Task), NEW t \in Task, NEW flow \in Int, NEW n,
         Distinct(list), Ordered(n, list), t \notin Range(list),
         \A u \in Task \ {t} : /\ u.flow <= flow => Before(n, u, t)
                               /\ u.flow > flow => Before(n, t, u)
  PROVE  /\ Insert(list, t, flow) \in Seq(Task) /\ Insert(list, t, flow) # <<>>
         /\ Distinct(Insert(list, t, flow)) /\ Ordered(n, Insert(list, t, flow))
         /\ Range(Insert(list, t, flow)) = Range(list) \cup {t}
<1> DEFINE r == Insert(list, t, flow)
<1>1. r \in Seq(Task)
  BY Inserted
<1>2. PICK k \in 0..Len(list) : Place(list, flow, k) /\ With(r, list, k, t)
  BY Inserted
<1> HIDE DEF r
<1>3. /\ Len(list) \in Nat /\ Len(r) = Len(list) + 1 /\ k \in Nat /\ k <= Len(list)
      /\ DOMAIN list = 1..Len(list) /\ DOMAIN r = 1..Len(r)
      /\ \A i \in 1..Len(list) : list[i] \in Task /\ list[i].flow \in Nat /\ list[i] \in Range(list)
      /\ r # <<>>
  <2>1. /\ Len(list) \in Nat /\ k \in Nat /\ k <= Len(list) /\ Len(r) = Len(list) + 1
        /\ DOMAIN list = 1..Len(list) /\ DOMAIN r = 1..Len(r)
        /\ \A i \in 1..Len(list) : list[i] \in Task /\ list[i] \in Range(list)
    BY <1>1, <1>2, Members DEF With
  <2>2. r # <<>>
    BY <2>1, EmptyFacts
  <2>3. QED
    BY <2>1, <2>2, TaskFields
<1>4. ASSUME NEW i \in 1..k
      PROVE  i \in 1..Len(list) /\ i \in 1..Len(r) /\ r[i] = list[i] /\ list[i].flow <= flow
  <2>1. i \in 1..Len(list) /\ i \in 1..Len(r) /\ k \in 1..Len(list) /\ k > 0 /\ (i < k \/ i = k)
    BY <1>3
  <2>2. list[k].flow <= flow
    BY <1>2, <2>1 DEF Place
  <2>3. CASE i < k
    <3>1. Before(n, list[i], list[k])
      BY <1>3, <2>1, <2>3 DEF Ordered
    <3>2. list[i].flow \in Nat /\ list[k].flow \in Nat
      BY <1>3, <2>1
    <3>3. QED
      BY <1>2, <2>1, <2>2, <3>1, <3>2 DEF Before, With
  <2>4. CASE i = k
    BY <1>2, <2>1, <2>2, <2>4 DEF With
  <2>5. QED
    BY <2>1, <2>3, <2>4
<1>5. ASSUME NEW i \in (k + 2)..Len(r)
      PROVE  i - 1 \in 1..Len(list) /\ i \in 1..Len(r) /\ r[i] = list[i - 1] /\ list[i - 1].flow > flow
  <2>1. i - 1 \in 1..Len(list) /\ i - 1 \in (k + 1)..Len(list) /\ i \in 1..Len(r)
    BY <1>3
  <2>2. QED
    BY <1>2, <2>1 DEF Place, With
<1>6. \A i \in 1..Len(r) : i \in 1..k \/ i = k + 1 \/ i \in (k + 2)..Len(r)
  BY <1>3
<1>7. r[k + 1] = t /\ k + 1 \in 1..Len(r)
  BY <1>2, <1>3 DEF With
<1>8. ASSUME NEW i \in 1..Len(r), i # k + 1
      PROVE  r[i] \in Range(list) /\ r[i] \in Task \ {t}
  BY <1>3, <1>4, <1>5, <1>6, <1>8
(* i < j: both old, or one of them new.                                    *)
<1>9. ASSUME NEW i \in 1..Len(r), NEW j \in 1..Len(r), i < j
      PROVE  Before(n, r[i], r[j]) /\ r[i] # r[j]
  <2>1. CASE i = k + 1
    <3>1. j \in (k + 2)..Len(r) /\ j # k + 1
      BY <1>3, <1>9, <2>1
    <3>2. r[j].flow > flow /\ r[j] \in Task \ {t}
      BY <1>5, <1>8, <3>1
    <3>3. QED
      BY <1>7, <2>1, <3>2
  <2>2. CASE j = k + 1
    <3>1. i \in 1..k /\ i # k + 1
      BY <1>3, <1>9, <2>2
    <3>2. r[i].flow <= flow /\ r[i] \in Task \ {t}
      BY <1>4, <1>8, <3>1
    <3>3. QED
      BY <1>7, <2>2, <3>2
  <2>3. CASE i # k + 1 /\ j # k + 1
    <3>1. PICK a \in 1..Len(list) : /\ r[i] = list[a]
                                    /\ (i \in 1..k /\ a = i) \/ (i \in (k + 2)..Len(r) /\ a = i - 1)
      BY <1>4, <1>5, <1>6, <2>3
    <3>2. PICK b \in 1..Len(list) : /\ r[j] = list[b]
                                    /\ (j \in 1..k /\ b = j) \/ (j \in (k + 2)..Len(r) /\ b = j - 1)
      BY <1>4, <1>5, <1>6, <2>3
    <3>3. a < b /\ a # b
      BY <1>3, <1>9, <3>1, <3>2
    <3>4. QED
      BY <1>3, <3>1, <3>2, <3>3 DEF Ordered, Distinct
  <2>4. QED
    BY <2>1, <2>2, <2>3
<1>10. Ordered(n, r)
  BY <1>3, <1>9 DEF Ordered
<1>11. Distinct(r)
  <2>1. ASSUME NEW i \in 1..Len(r), NEW j \in 1..Len(r), i # j
        PROVE  r[i] # r[j]
    <3>1. i < j \/ j < i
      BY <1>3, <2>1
    <3>2. QED
      BY <1>9, <3>1
  <2>2. QED
    BY <1>3, <2>1 DEF Distinct
<1>12. ASSUME NEW x \in Range(r)
       PROVE  x \in Range(list) \cup {t}
  <2>1. PICK i \in 1..Len(r) : r[i] = x
    BY <1>1, Members
  <2>2. QED
    BY <1>7, <1>8, <2>1
<1>13. t \in Range(r)
  BY <1>1, <1>7, Members
<1>14. ASSUME NEW x \in Range(list)
       PROVE  x \in Range(r)
  <2>1. PICK i \in 1..Len(list) : list[i] = x
    BY Members
  <2>2. CASE i <= k
    <3>1. i \in 1..k
      BY <1>3, <2>2
    <3>2. QED
      BY <1>1, <1>4, <2>1, <3>1, Members
  <2>3. CASE ~(i <= k)
    <3>1. i + 1 \in (k + 2)..Len(r) /\ (i + 1) - 1 = i
      BY <1>3, <2>3
    <3>2. r[i + 1] = x /\ i + 1 \in 1..Len(r)
      BY <1>5, <2>1, <3>1
    <3>3. QED
      BY <1>1, <3>2, Members
  <2>4. QED
    BY <2>2, <2>3
<1>15. QED
  BY <1>1, <1>3, <1>10, <1>11, <1>12, <1>13, <1>14 DEF r
-----------------------------------------------------------------------------
(* The inductive invariant: every list is in order and has each task once, *)
(* and a task that was handed out waits exactly if it is neither ready nor *)
(* finished.                                                               *)
ListsInv == \A n \in Node : Distinct(waiting[n]) /\ Ordered(n, waiting[n])

ReadyOnce ==
  /\ Distinct(mReadyTasks) /\ Range(mReadyTasks) \cap finished = {}
  /\ Range(mReadyTasks) \cup finished \subseteq dispatched

WaitsOrNot ==
  \A t \in Task : mWaited[t] # NoNode <=>
    t \in dispatched /\ t \notin Range(mReadyTasks) /\ t \notin finished

WaitInv == ListsInv /\ WaitsWhereListed /\ NoListForgotten
LoopInv == TypeOK /\ WaitInv /\ ReadyOnce /\ WaitsOrNot

(* A task is put into a list: Pending4Lock and Suspend4Shared.             *)
LEMMA WaitOnKeeps ==
  ASSUME TypeOK, WaitInv, NEW n \in Node, NEW t \in Task, mWaited[t] = NoNode, NEW flow \in Int,
         WaitOn(n, t, flow), UNCHANGED_CHECK,
         \A u \in Task \ {t} : /\ u.flow <= flow => Before(n, u, t)
                               /\ u.flow > flow => Before(n, t, u)
  PROVE  /\ WaitInv'
         /\ waiting' \in [Node -> Seq(Task)] /\ mWaittingNodes' \in Seq(Node)
         /\ iNode' \in 0..Len(mWaittingNodes') /\ newCount' \in 0..iNode'
         /\ mWaited' = [mWaited EXCEPT ![t] = n]
<1> DEFINE r == Insert(waiting[n], t, flow)
<1>1. /\ mWaited' = [mWaited EXCEPT ![t] = n] /\ waiting' = [waiting EXCEPT ![n] = r]
      /\ mWaittingNodes' = IF waiting[n] = <<>> THEN Append(mWaittingNodes, n) ELSE mWaittingNodes
      /\ iNode' = iNode /\ newCount' = newCount
  BY DEF WaitOn, UNCHANGED_CHECK
<1>2. /\ waiting \in [Node -> Seq(Task)] /\ mWaited \in [Task -> Node \cup {NoNode}]
      /\ mWaittingNodes \in Seq(Node)
      /\ iNode \in 0..Len(mWaittingNodes) /\ newCount \in 0..iNode
  BY DEF TypeOK
<1>3. t \notin Range(waiting[n])
  BY DEF WaitInv, WaitsWhereListed, Node, NoNode
<1>4. /\ r \in Seq(Task) /\ r # <<>> /\ Distinct(r) /\ Ordered(n, r)
      /\ Range(r) = Range(waiting[n]) \cup {t}
  BY <1>2, <1>3, InsertFacts DEF WaitInv, ListsInv
<1> HIDE DEF r
<1>5. /\ waiting' \in [Node -> Seq(Task)]
      /\ \A m \in Node : waiting'[m] = IF m = n THEN r ELSE waiting[m]
  BY <1>1, <1>2, <1>4
<1>6. \A u \in Task : mWaited'[u] = IF u = t THEN n ELSE mWaited[u]
  BY <1>1, <1>2
<1>7. ListsInv'
  BY <1>4, <1>5 DEF WaitInv, ListsInv
<1>8. WaitsWhereListed'
  <2>1. ASSUME NEW u \in Task, NEW m \in Node
        PROVE  u \in Range(waiting'[m]) <=> mWaited'[u] = m
    BY <1>4, <1>5, <1>6 DEF WaitInv, WaitsWhereListed, Node, NoNode
  <2>2. QED
    BY <2>1 DEF WaitsWhereListed
<1>9. /\ mWaittingNodes' \in Seq(Node) /\ Len(mWaittingNodes) <= Len(mWaittingNodes')
      /\ DOMAIN mWaittingNodes = 1..Len(mWaittingNodes)
      /\ DOMAIN mWaittingNodes' = 1..Len(mWaittingNodes')
      /\ Len(mWaittingNodes) \in Nat /\ Len(mWaittingNodes') \in Nat
      /\ \A k \in 1..Len(mWaittingNodes) : mWaittingNodes'[k] = mWaittingNodes[k]
      /\ waiting[n] = <<>> => /\ Len(mWaittingNodes') = Len(mWaittingNodes) + 1
                              /\ mWaittingNodes'[Len(mWaittingNodes) + 1] = n
  <2>1. CASE waiting[n] = <<>>
    <3>1. mWaittingNodes' = Append(mWaittingNodes, n)
      BY <1>1, <2>1
    <3>2. /\ mWaittingNodes' \in Seq(Node) /\ Len(mWaittingNodes') = Len(mWaittingNodes) + 1
          /\ \A k \in 1..Len(mWaittingNodes) : mWaittingNodes'[k] = mWaittingNodes[k]
          /\ mWaittingNodes'[Len(mWaittingNodes) + 1] = n
      BY <1>2, <3>1, AppendFacts
    <3>3. QED
      BY <1>2, <3>2, Members
  <2>2. CASE waiting[n] # <<>>
    BY <1>1, <1>2, <2>2, Members
  <2>3. QED
    BY <2>1, <2>2
<1>10. NoListForgotten'
  <2>1. ASSUME NEW m \in Node, waiting'[m] # <<>>
        PROVE  \E k \in 1..Len(mWaittingNodes') :
                 mWaittingNodes'[k] = m /\ (k <= newCount' \/ k > iNode')
    <3>1. CASE waiting[m] # <<>>
      <4>1. PICK k \in 1..Len(mWaittingNodes) :
                   mWaittingNodes[k] = m /\ (k <= newCount \/ k > iNode)
        BY <1>9, <3>1 DEF WaitInv, NoListForgotten
      <4>2. k \in 1..Len(mWaittingNodes') /\ mWaittingNodes'[k] = m
        <5>1. mWaittingNodes'[k] = m
          BY <1>9, <4>1
        <5>2. k \in 1..Len(mWaittingNodes')
          <6>1. /\ Len(mWaittingNodes) <= Len(mWaittingNodes')
                /\ Len(mWaittingNodes) \in Nat /\ Len(mWaittingNodes') \in Nat
            BY <1>9
          <6>2. QED
            BY ONLY <6>1, k \in 1..Len(mWaittingNodes)
        <5>3. QED
          BY <5>1, <5>2
      <4>3. QED
        BY <1>1, <4>1, <4>2
    <3>2. CASE waiting[m] = <<>>
      <4>1. m = n
        BY <1>5, <2>1, <3>2
      <4>2. /\ Len(mWaittingNodes) + 1 \in 1..Len(mWaittingNodes')
            /\ mWaittingNodes'[Len(mWaittingNodes) + 1] = m
            /\ Len(mWaittingNodes) + 1 > iNode'
        BY <1>1, <1>2, <1>9, <3>2, <4>1
      <4>3. QED
        BY <4>2
    <3>3. QED
      BY <3>1, <3>2
  <2>2. QED
    BY <1>9, <2>1 DEF NoListForgotten
<1>11. iNode' \in 0..Len(mWaittingNodes') /\ newCount' \in 0..iNode'
  BY <1>1, <1>2, <1>9
<1>12. QED
  BY <1>1, <1>5, <1>7, <1>8, <1>9, <1>10, <1>11 DEF WaitInv

(* The node's own task is tried before the readers of its workflow ...     *)
LEMMA PendingKeeps ==
  ASSUME TypeOK, WaitInv, NEW t \in Task, mWaited[t] = NoNode, Pending4Lock(t), UNCHANGED_CHECK
  PROVE  /\ WaitInv'
         /\ waiting' \in [Node -> Seq(Task)] /\ mWaittingNodes' \in Seq(Node)
         /\ iNode' \in 0..Len(mWaittingNodes') /\ newCount' \in 0..iNode'
         /\ mWaited' = [mWaited EXCEPT ![t] = t.node]
<1> DEFINE flow == t.flow - 1
           n == t.node
<1>1. n \in Node /\ t.flow \in Nat /\ flow \in Int
  BY TaskFields
<1>2. ASSUME NEW u \in Task \ {t}
      PROVE  /\ u.flow <= flow => Before(n, u, t)
             /\ u.flow > flow => Before(n, t, u)
  <2>1. u.flow \in Nat /\ (u.flow = t.flow => u.node # n)
    BY TaskFields
  <2>2. QED
    BY <1>1, <2>1 DEF Before
<1>3. WaitOn(n, t, flow)
  BY DEF Pending4Lock
<1> HIDE DEF flow, n
<1>4. QED
  BY <1>1, <1>2, <1>3, WaitOnKeeps DEF n

(* ... and a reader behind the others of its workflow.                     *)
LEMMA SuspendKeeps ==
  ASSUME TypeOK, WaitInv, NEW t \in Task, mWaited[t] = NoNode, NEW n \in 1..(t.node - 1),
         Suspend4Shared(t, n), UNCHANGED_CHECK
  PROVE  /\ n \in Node /\ WaitInv'
         /\ waiting' \in [Node -> Seq(Task)] /\ mWaittingNodes' \in Seq(Node)
         /\ iNode' \in 0..Len(mWaittingNodes') /\ newCount' \in 0..iNode'
         /\ mWaited' = [mWaited EXCEPT ![t] = n]
<1> DEFINE flow == t.flow
<1>1. n \in Node /\ t.node # n /\ flow \in Int
  BY TaskFields, ConstantsAssumption DEF Node
<1>2. ASSUME NEW u \in Task \ {t}
      PROVE  /\ u.flow <= flow => Before(n, u, t)
             /\ u.flow > flow => Before(n, t, u)
  <2>1. u.flow \in Nat /\ t.flow \in Nat
    BY TaskFields
  <2>2. QED
    BY <1>1, <2>1 DEF Before
<1>3. WaitOn(n, t, flow)
  BY DEF Suspend4Shared
<1> HIDE DEF flow
<1>4. QED
  BY <1>1, <1>2, <1>3, WaitOnKeeps

(* A task is taken out of its list.                                        *)
LEMMA TakenOut ==
  ASSUME TypeOK, WaitInv, NEW n \in Node, NEW t \in Task, mWaited[t] = n, NEW r \in Seq(Task),
         Distinct(r), Ordered(n, r), Range(r) = Range(waiting[n]) \ {t},
         waiting' = [waiting EXCEPT ![n] = r], mWaited' = [mWaited EXCEPT ![t] = NoNode]
  PROVE  /\ ListsInv' /\ WaitsWhereListed' /\ waiting' \in [Node -> Seq(Task)]
         /\ \A m \in Node : waiting'[m] # <<>> => waiting[m] # <<>>
<1>1. waiting \in [Node -> Seq(Task)] /\ mWaited \in [Task -> Node \cup {NoNode}]
  BY DEF TypeOK
<1>2. /\ waiting' \in [Node -> Seq(Task)]
      /\ \A m \in Node : waiting'[m] = IF m = n THEN r ELSE waiting[m]
  BY <1>1
<1>3. \A u \in Task : mWaited'[u] = IF u = t THEN NoNode ELSE mWaited[u]
  BY <1>1
<1>4. ListsInv'
  BY <1>2 DEF WaitInv, ListsInv
<1>5. WaitsWhereListed'
  <2>1. ASSUME NEW u \in Task, NEW m \in Node
        PROVE  u \in Range(waiting'[m]) <=> mWaited'[u] = m
    BY <1>2, <1>3 DEF WaitInv, WaitsWhereListed, Node, NoNode
  <2>2. QED
    BY <2>1 DEF WaitsWhereListed
<1>6. waiting[n] # <<>>
  <2>1. t \in Range(waiting[n])
    BY DEF WaitInv, WaitsWhereListed
  <2>2. QED
    BY <2>1, EmptyFacts
<1>7. QED
  BY <1>2, <1>4, <1>5, <1>6

(* It is ready then.                                                       *)
LEMMA BecomesReady ==
  ASSUME TypeOK, ReadyOnce, WaitsOrNot, NEW t \in Task, mWaited[t] # NoNode,
         mReadyTasks' = Append(mReadyTasks, t), mWaited' = [mWaited EXCEPT ![t] = NoNode],
         UNCHANGED <<dispatched, finished>>
  PROVE  /\ ReadyOnce' /\ WaitsOrNot' /\ mReadyTasks' \in Seq(Task)
         /\ mWaited' \in [Task -> Node \cup {NoNode}]
<1>1. mWaited \in [Task -> Node \cup {NoNode}] /\ mReadyTasks \in Seq(Task)
  BY DEF TypeOK
<1>2. t \in dispatched /\ t \notin Range(mReadyTasks) /\ t \notin finished
  BY DEF WaitsOrNot
<1>3. /\ mReadyTasks' \in Seq(Task) /\ Distinct(mReadyTasks')
      /\ Range(mReadyTasks') = Range(mReadyTasks) \cup {t}
  BY <1>1, <1>2, AppendFacts DEF ReadyOnce
<1>4. /\ mWaited' \in [Task -> Node \cup {NoNode}]
      /\ \A u \in Task : mWaited'[u] = IF u = t THEN NoNode ELSE mWaited[u]
  BY <1>1
<1>5. ReadyOnce'
  BY <1>2, <1>3 DEF ReadyOnce
<1>6. WaitsOrNot'
  <2>1. ASSUME NEW u \in Task
        PROVE  mWaited'[u] # NoNode <=>
                 u \in dispatched' /\ u \notin Range(mReadyTasks') /\ u \notin finished'
    BY <1>2, <1>3, <1>4 DEF WaitsOrNot
  <2>2. QED
    BY <2>1 DEF WaitsOrNot
<1>7. QED
  BY <1>3, <1>4, <1>5, <1>6
-----------------------------------------------------------------------------
(* The invariant, one lemma per action.                                    *)

(* What a step leaves alone.                                               *)
LEMMA ListsUntouched ==
  ASSUME WaitInv, UNCHANGED <<mWaited, waiting, mWaittingNodes, iNode, newCount>>
  PROVE  WaitInv'
BY DEF WaitInv, ListsInv, WaitsWhereListed, NoListForgotten

LEMMA PlacesUntouched ==
  ASSUME ReadyOnce, WaitsOrNot, UNCHANGED <<dispatched, mWaited, mReadyTasks, finished>>
  PROVE  ReadyOnce' /\ WaitsOrNot'
BY DEF ReadyOnce, WaitsOrNot

(* Another thread makes a task schedulable.                                *)
LEMMA BecomeSchedulableStep ==
  ASSUME LoopInv, NEW t \in Task, BecomeSchedulable(t)
  PROVE  LoopInv'
<1>1. /\ t \notin schedulable \cup finished /\ schedulable' = schedulable \cup {t}
      /\ UNCHANGED <<step, dispatched, started, mReadyTasks, finished, woken,
                     mWaited, waiting, mWaittingNodes, iNode, newCount>>
  BY DEF BecomeSchedulable, UNCHANGED_WAIT, UNCHANGED_CHECK
<1>2. TypeOK'
  BY <1>1 DEF LoopInv, TypeOK
<1>3. QED
  BY <1>1, <1>2, ListsUntouched, PlacesUntouched DEF LoopInv

(* Advance.                                                                *)
LEMMA AdvanceStep ==
  ASSUME LoopInv, Advance
  PROVE  LoopInv'
<1>1. /\ step' \in {"dispatched", "messages", "check", "run"}
      /\ UNCHANGED <<dispatched, schedulable, started, mReadyTasks, finished, woken,
                     mWaited, waiting, mWaittingNodes, iNode, newCount>>
  BY DEF Advance, UNCHANGED_WAIT, UNCHANGED_CHECK
<1>2. TypeOK'
  BY <1>1 DEF LoopInv, TypeOK
<1>3. QED
  BY <1>1, <1>2, ListsUntouched, PlacesUntouched DEF LoopInv

(* A task is handed out.                                                   *)
LEMMA DispatchedStep ==
  ASSUME LoopInv, NEW t \in Task, Dispatched(t)
  PROVE  LoopInv'
<1>1. /\ t \notin dispatched /\ dispatched' = dispatched \cup {t}
      /\ UNCHANGED <<step, schedulable, started, finished, woken, iNode, newCount>>
      /\ UNCHANGED_CHECK
  BY DEF Dispatched, UNCHANGED_CHECK
<1>2. TypeOK /\ WaitInv /\ ReadyOnce /\ WaitsOrNot /\ mReadyTasks \in Seq(Task)
  BY DEF LoopInv, TypeOK
<1>3. mWaited[t] = NoNode /\ t \notin Range(mReadyTasks) /\ t \notin finished
  BY <1>1 DEF LoopInv, WaitsOrNot, ReadyOnce
<1>4. CASE t \in schedulable
  <2>1. mReadyTasks' = Append(mReadyTasks, t) /\ UNCHANGED <<mWaited, waiting, mWaittingNodes>>
    BY <1>4 DEF Dispatched, UNCHANGED_WAIT
  <2>2. /\ mReadyTasks' \in Seq(Task) /\ Range(mReadyTasks') = Range(mReadyTasks) \cup {t}
        /\ Distinct(mReadyTasks')
    BY <1>2, <1>3, <2>1, AppendFacts DEF ReadyOnce
  <2>3. WaitInv'
    BY <1>1, <1>2, <2>1, ListsUntouched
  <2>4. ReadyOnce'
    BY <1>1, <1>2, <1>3, <2>2 DEF ReadyOnce
  <2>5. WaitsOrNot'
    BY <1>1, <1>2, <1>3, <2>1, <2>2 DEF WaitsOrNot
  <2>6. TypeOK'
    BY <1>1, <1>2, <2>1, <2>2 DEF TypeOK
  <2>7. QED
    BY <2>3, <2>4, <2>5, <2>6 DEF LoopInv
<1>5. CASE t \notin schedulable
  <2>1. Pending4Lock(t) /\ mReadyTasks' = mReadyTasks
    BY <1>5 DEF Dispatched
  <2>2. /\ WaitInv'
        /\ waiting' \in [Node -> Seq(Task)] /\ mWaittingNodes' \in Seq(Node)
        /\ iNode' \in 0..Len(mWaittingNodes') /\ newCount' \in 0..iNode'
        /\ mWaited' = [mWaited EXCEPT ![t] = t.node]
    BY <1>1, <1>2, <1>3, <2>1, PendingKeeps
  <2>3. /\ t.node \in Node /\ t.node # NoNode
        /\ mWaited' \in [Task -> Node \cup {NoNode}]
        /\ \A u \in Task : mWaited'[u] = IF u = t THEN t.node ELSE mWaited[u]
    <3>1. t.node \in Node /\ mWaited \in [Task -> Node \cup {NoNode}]
      BY <1>2, TaskFields DEF TypeOK
    <3>2. QED
      BY <2>2, <3>1 DEF Node, NoNode
  <2>4. ReadyOnce'
    BY <1>1, <1>2, <2>1 DEF ReadyOnce
  <2>5. WaitsOrNot'
    BY <1>1, <1>2, <1>3, <2>1, <2>3 DEF WaitsOrNot
  <2>6. TypeOK'
    BY <1>1, <1>2, <2>1, <2>2, <2>3 DEF TypeOK
  <2>7. QED
    BY <2>2, <2>4, <2>5, <2>6 DEF LoopInv
<1>6. QED
  BY <1>4, <1>5

(* A wake-up.                                                              *)
LEMMA MessageStep ==
  ASSUME LoopInv, NEW n \in Node, NEW t \in Task, Message(n, t)
  PROVE  LoopInv'
<1>1. /\ woken' = woken \cup {<<n, t>>}
      /\ UNCHANGED <<step, dispatched, schedulable, started, mWaittingNodes, finished,
                     iNode, newCount>>
  BY DEF Message, UNCHANGED_CHECK
<1>2. /\ TypeOK /\ WaitInv /\ ReadyOnce /\ WaitsOrNot
      /\ waiting \in [Node -> Seq(Task)] /\ mWaited \in [Task -> Node \cup {NoNode}]
  BY DEF LoopInv, TypeOK
<1>3. woken' \subseteq Node \X Task
  BY <1>1, <1>2 DEF TypeOK
<1>4. CASE mWaited[t] = n /\ t \in schedulable
  <2>1. /\ mReadyTasks' = Append(mReadyTasks, t) /\ waiting' = Erase(waiting, t)
        /\ mWaited' = [mWaited EXCEPT ![t] = NoNode]
    BY <1>4 DEF Message
  <2>2. \A m \in Node : t \in Range(waiting[m]) <=> m = n
    BY <1>2, <1>4 DEF WaitInv, WaitsWhereListed
  <2>3. PICK i \in 1..Len(waiting[n]) :
               i = CHOOSE j \in DOMAIN waiting[n] : waiting[n][j] = t
    <3>1. DOMAIN waiting[n] = 1..Len(waiting[n]) /\ \E i \in 1..Len(waiting[n]) : waiting[n][i] = t
      BY <1>2, <2>2, Members
    <3>2. QED
      BY <3>1
  <2>4. waiting[n][i] = t
    <3>1. \E j \in DOMAIN waiting[n] : waiting[n][j] = t
      BY <1>2, <2>2, Members
    <3>2. QED
      BY <2>3, <3>1
  <2> DEFINE r == RemoveAt(waiting[n], i)
  <2>5. waiting' = [waiting EXCEPT ![n] = r]
    <3> DEFINE position(m) == CHOOSE j \in DOMAIN waiting[m] : waiting[m][j] = t
    <3>1. waiting' = [m \in Node |-> IF t \in Range(waiting[m])
                                       THEN RemoveAt(waiting[m], position(m)) ELSE waiting[m]]
      BY <2>1 DEF Erase
    <3>2. i = position(n)
      BY <2>3
    <3> HIDE DEF position
    <3>3. waiting' = [m \in Node |-> IF m = n THEN r ELSE waiting[m]]
      <4> DEFINE old(m) == IF t \in Range(waiting[m]) THEN RemoveAt(waiting[m], position(m))
                                                        ELSE waiting[m]
                 new(m) == IF m = n THEN r ELSE waiting[m]
      <4>1. \A m \in Node : old(m) = new(m)
        BY <2>2, <3>2
      <4>2. waiting' = [m \in Node |-> old(m)]
        BY <3>1
      <4> HIDE DEF old, new
      <4>3. waiting' = [m \in Node |-> new(m)]
        BY <4>1, <4>2
      <4>4. QED
        BY <4>3 DEF new
    <3>4. QED
      BY <1>2, <3>3
  <2>6. /\ r \in Seq(Task) /\ Distinct(r) /\ Ordered(n, r)
        /\ Range(r) = Range(waiting[n]) \ {t}
    BY <1>2, <2>4, RemoveAtFacts DEF WaitInv, ListsInv
  <2> HIDE DEF r
  <2>7. /\ ListsInv' /\ WaitsWhereListed' /\ waiting' \in [Node -> Seq(Task)]
        /\ \A m \in Node : waiting'[m] # <<>> => waiting[m] # <<>>
    BY <1>2, <1>4, <2>1, <2>5, <2>6, TakenOut
  <2>8. NoListForgotten'
    BY <1>1, <1>2, <2>7 DEF WaitInv, NoListForgotten
  <2>9. mWaited[t] # NoNode
    BY <1>4 DEF Node, NoNode
  <2>10. /\ ReadyOnce' /\ WaitsOrNot' /\ mReadyTasks' \in Seq(Task)
         /\ mWaited' \in [Task -> Node \cup {NoNode}]
    BY <1>1, <1>2, <2>1, <2>9, BecomesReady
  <2>11. TypeOK'
    BY <1>1, <1>2, <1>3, <2>7, <2>10 DEF TypeOK
  <2>12. QED
    BY <2>7, <2>8, <2>10, <2>11 DEF LoopInv, WaitInv
<1>5. CASE ~(mWaited[t] = n /\ t \in schedulable)
  <2>1. UNCHANGED <<mReadyTasks, waiting, mWaited>>
    BY <1>5 DEF Message
  <2>2. TypeOK'
    BY <1>1, <1>2, <1>3, <2>1 DEF TypeOK
  <2>3. QED
    BY <1>1, <1>2, <2>1, <2>2, ListsUntouched, PlacesUntouched DEF LoopInv
<1>6. QED
  BY <1>4, <1>5

(* One turn of CheckLostLamb's loop, first what becomes of the list.       *)
LEMMA TryFrontKeeps ==
  ASSUME LoopInv, NEW n \in Node, NEW gotLock \in BOOLEAN, TryFront(n, gotLock),
         UNCHANGED <<dispatched, finished>>
  PROVE  /\ ListsInv' /\ WaitsWhereListed' /\ waiting' \in [Node -> Seq(Task)]
         /\ \A m \in Node : waiting'[m] # <<>> => waiting[m] # <<>>
         /\ ReadyOnce' /\ WaitsOrNot' /\ mReadyTasks' \in Seq(Task)
         /\ mWaited' \in [Task -> Node \cup {NoNode}]
<1>1. /\ TypeOK /\ WaitInv /\ ReadyOnce /\ WaitsOrNot
      /\ waiting \in [Node -> Seq(Task)] /\ mWaited \in [Task -> Node \cup {NoNode}]
      /\ mReadyTasks \in Seq(Task)
  BY DEF LoopInv, TypeOK
<1>2. CASE gotLock
  <2> DEFINE t == Head(waiting[n])
             r == Tail(waiting[n])
  <2>1. /\ waiting[n] # <<>> /\ mWaited' = [mWaited EXCEPT ![t] = NoNode]
        /\ mReadyTasks' = Append(mReadyTasks, t)
        /\ waiting' = [waiting EXCEPT ![n] = r]
    BY <1>2 DEF TryFront, PopFront
  <2>2. /\ r \in Seq(Task) /\ Distinct(r) /\ Ordered(n, r)
        /\ t \in Range(waiting[n]) /\ Range(r) = Range(waiting[n]) \ {t}
    BY <1>1, <2>1, TailFacts DEF WaitInv, ListsInv
  <2> HIDE DEF t, r
  <2>3. t \in Task
    BY <1>1, <2>2, Members
  <2>4. mWaited[t] = n /\ mWaited[t] # NoNode
    BY <1>1, <2>2, <2>3 DEF WaitInv, WaitsWhereListed, Node, NoNode
  <2>5. /\ ListsInv' /\ WaitsWhereListed' /\ waiting' \in [Node -> Seq(Task)]
        /\ \A m \in Node : waiting'[m] # <<>> => waiting[m] # <<>>
    BY <1>1, <2>1, <2>2, <2>3, <2>4, TakenOut
  <2>6. /\ ReadyOnce' /\ WaitsOrNot' /\ mReadyTasks' \in Seq(Task)
        /\ mWaited' \in [Task -> Node \cup {NoNode}]
    BY <1>1, <2>1, <2>3, <2>4, BecomesReady
  <2>7. QED
    BY <2>5, <2>6
<1>3. CASE ~gotLock
  <2>1. UNCHANGED <<mWaited, mReadyTasks, waiting>>
    BY <1>3 DEF TryFront
  <2>2. ListsInv' /\ WaitsWhereListed'
    BY <1>1, <2>1 DEF WaitInv, ListsInv, WaitsWhereListed
  <2>3. QED
    BY <1>1, <2>1, <2>2, PlacesUntouched
<1>4. QED
  BY <1>2, <1>3

(* The array is packed behind the place where it is read.                  *)
LEMMA CheckLostLambStep ==
  ASSUME LoopInv, NEW gotLock \in BOOLEAN, CheckLostLamb(gotLock)
  PROVE  LoopInv'
<1> DEFINE n == mWaittingNodes[iNode + 1]
           nodes == mWaittingNodes
<1>1. /\ iNode < Len(nodes) /\ TryFront(n, gotLock) /\ KeepNode(n, waiting'[n] # <<>>)
      /\ iNode' = iNode + 1
      /\ UNCHANGED <<step, dispatched, schedulable, started, finished, woken>>
  BY DEF CheckLostLamb
<1>2. /\ TypeOK /\ nodes \in Seq(Node) /\ Len(nodes) \in Nat /\ DOMAIN nodes = 1..Len(nodes)
      /\ iNode \in Nat /\ newCount \in Nat /\ newCount <= iNode
      /\ \A k \in 1..Len(nodes) : nodes[k] \in Node
  BY Members DEF LoopInv, TypeOK
<1>3. iNode + 1 \in 1..Len(nodes) /\ newCount + 1 \in 1..Len(nodes) /\ n \in Node
  BY <1>1, <1>2
<1> HIDE DEF n, nodes
<1>4. /\ ListsInv' /\ WaitsWhereListed' /\ waiting' \in [Node -> Seq(Task)]
      /\ \A m \in Node : waiting'[m] # <<>> => waiting[m] # <<>>
      /\ ReadyOnce' /\ WaitsOrNot' /\ mReadyTasks' \in Seq(Task)
      /\ mWaited' \in [Task -> Node \cup {NoNode}]
  BY <1>1, <1>3, TryFrontKeeps
<1>5. CASE waiting'[n] # <<>>
  <2>1. mWaittingNodes' = [nodes EXCEPT ![newCount + 1] = n] /\ newCount' = newCount + 1
    BY <1>1, <1>5 DEF KeepNode, nodes
  <2>2. /\ mWaittingNodes' \in Seq(Node) /\ Len(mWaittingNodes') = Len(nodes)
        /\ \A k \in 1..Len(nodes) :
             mWaittingNodes'[k] = IF k = newCount + 1 THEN n ELSE nodes[k]
    BY <1>2, <1>3, <2>1, ReplaceFacts
  <2>3. ASSUME NEW m \in Node, waiting'[m] # <<>>
        PROVE  \E k \in 1..Len(nodes) : mWaittingNodes'[k] = m /\ (k <= newCount' \/ k > iNode')
    <3>1. CASE m = n
      <4>1. newCount + 1 <= newCount' /\ mWaittingNodes'[newCount + 1] = m
        BY <1>2, <1>3, <2>1, <2>2, <3>1
      <4>2. QED
        BY <1>3, <4>1
    <3>2. CASE m # n
      <4>1. PICK k \in 1..Len(nodes) : nodes[k] = m /\ (k <= newCount \/ k > iNode)
        BY <1>2, <1>4, <2>3 DEF LoopInv, WaitInv, NoListForgotten, nodes
      <4>2. k # iNode + 1
        BY <3>2, <4>1 DEF n, nodes
      <4>3. k # newCount + 1 /\ (k <= newCount' \/ k > iNode')
        BY <1>1, <1>2, <2>1, <4>1, <4>2
      <4>4. QED
        BY <2>2, <4>1, <4>3
    <3>3. QED
      BY <3>1, <3>2
  <2>4. NoListForgotten'
    <3>1. DOMAIN mWaittingNodes' = 1..Len(nodes)
      BY <2>2, Members
    <3>2. QED
      BY <2>3, <3>1 DEF NoListForgotten
  <2>5. iNode' \in 0..Len(mWaittingNodes') /\ newCount' \in 0..iNode'
    BY <1>1, <1>2, <2>1, <2>2
  <2>6. TypeOK'
    BY <1>1, <1>2, <1>4, <2>2, <2>5 DEF TypeOK
  <2>7. QED
    BY <1>4, <2>4, <2>6 DEF LoopInv, WaitInv
<1>6. CASE waiting'[n] = <<>>
  <2>1. mWaittingNodes' = nodes /\ newCount' = newCount
    BY <1>1, <1>6 DEF KeepNode, nodes
  <2>2. ASSUME NEW m \in Node, waiting'[m] # <<>>
        PROVE  \E k \in 1..Len(nodes) : nodes[k] = m /\ (k <= newCount' \/ k > iNode')
    <3>1. PICK k \in 1..Len(nodes) : nodes[k] = m /\ (k <= newCount \/ k > iNode)
      BY <1>2, <1>4, <2>2 DEF LoopInv, WaitInv, NoListForgotten, nodes
    <3>2. k # iNode + 1
      BY <1>6, <2>2, <3>1 DEF n, nodes
    <3>3. k <= newCount' \/ k > iNode'
      BY <1>1, <1>2, <2>1, <3>1, <3>2
    <3>4. QED
      BY <3>1, <3>3
  <2>3. NoListForgotten'
    BY <1>2, <2>1, <2>2 DEF NoListForgotten
  <2>4. iNode' \in 0..Len(mWaittingNodes') /\ newCount' \in 0..iNode'
    BY <1>1, <1>2, <2>1
  <2>5. TypeOK'
    BY <1>1, <1>2, <1>4, <2>1, <2>4 DEF TypeOK
  <2>6. QED
    BY <1>4, <2>3, <2>5 DEF LoopInv, WaitInv
<1>7. QED
  BY <1>5, <1>6

(* The end of CheckLostLamb.                                               *)
LEMMA EndCheckStep ==
  ASSUME LoopInv, EndCheck
  PROVE  LoopInv'
<1>1. /\ iNode = Len(mWaittingNodes) /\ mWaittingNodes' = SubSeq(mWaittingNodes, 1, newCount)
      /\ iNode' = 0 /\ newCount' = 0 /\ step' = "run"
      /\ UNCHANGED <<dispatched, schedulable, started, mWaited, waiting, mReadyTasks, finished,
                     woken>>
  BY DEF EndCheck
<1>2. /\ TypeOK /\ mWaittingNodes \in Seq(Node) /\ Len(mWaittingNodes) \in Nat
      /\ DOMAIN mWaittingNodes = 1..Len(mWaittingNodes)
      /\ newCount \in Nat /\ newCount <= Len(mWaittingNodes)
      /\ \A k \in 1..newCount : mWaittingNodes[k] \in Node
  BY <1>1, Members DEF LoopInv, TypeOK
<1>3. /\ mWaittingNodes' \in Seq(Node) /\ Len(mWaittingNodes') = newCount
      /\ \A k \in 1..newCount : mWaittingNodes'[k] = mWaittingNodes[k]
  BY <1>1, <1>2
<1>4. NoListForgotten'
  <2>1. ASSUME NEW m \in Node, waiting'[m] # <<>>
        PROVE  \E k \in 1..newCount : mWaittingNodes'[k] = m /\ k > 0
    <3>1. PICK k \in 1..Len(mWaittingNodes) :
                 mWaittingNodes[k] = m /\ (k <= newCount \/ k > iNode)
      BY <1>1, <1>2, <2>1 DEF LoopInv, WaitInv, NoListForgotten
    <3>2. k \in 1..newCount /\ k > 0
      BY <1>1, <1>2, <3>1
    <3>3. QED
      BY <1>3, <3>1, <3>2
  <2>2. DOMAIN mWaittingNodes' = 1..newCount
    BY <1>3, Members
  <2>3. QED
    BY <1>1, <2>1, <2>2 DEF NoListForgotten
<1>5. ListsInv' /\ WaitsWhereListed'
  BY <1>1 DEF LoopInv, WaitInv, ListsInv, WaitsWhereListed
<1>6. TypeOK'
  BY <1>1, <1>2, <1>3 DEF TypeOK
<1>7. ReadyOnce' /\ WaitsOrNot'
  BY <1>1, PlacesUntouched DEF LoopInv
<1>8. QED
  BY <1>4, <1>5, <1>6, <1>7 DEF LoopInv, WaitInv

(* A ready task runs, until it ends or waits.                              *)
LEMMA RunTaskStep ==
  ASSUME LoopInv, NEW k \in 1..Len(mReadyTasks), RunTask(k)
  PROVE  LoopInv'
<1> DEFINE t == mReadyTasks[k]
<1>1. /\ TypeOK /\ WaitInv /\ ReadyOnce /\ WaitsOrNot /\ mReadyTasks \in Seq(Task)
      /\ mWaited \in [Task -> Node \cup {NoNode}] /\ Distinct(mReadyTasks)
  BY DEF LoopInv, TypeOK, ReadyOnce
<1>2. t \in Task /\ t \in Range(mReadyTasks)
  BY <1>1, Members
<1>3. /\ mReadyTasks' = RemoveAt(mReadyTasks, k)
      /\ UNCHANGED <<step, dispatched, iNode, newCount>> /\ UNCHANGED_CHECK
      /\ \/ t \notin started /\ Pending4Lock(t) /\ Start(t)
         \/ \E n \in 1..(t.node - 1) : Suspend4Shared(t, n) /\ Start(t)
         \/ Finish(t) /\ UNCHANGED_WAIT
  BY DEF RunTask, UNCHANGED_CHECK
<1>4. /\ mReadyTasks' \in Seq(Task) /\ Distinct(mReadyTasks')
      /\ Range(mReadyTasks') = Range(mReadyTasks) \ {t}
  BY <1>1, <1>3, RemoveAtFacts
<1> HIDE DEF t
<1>5. mWaited[t] = NoNode /\ t \in dispatched /\ t \notin finished
  BY <1>1, <1>2 DEF ReadyOnce, WaitsOrNot
<1>6. ASSUME NEW n \in Node, Start(t), WaitInv',
             waiting' \in [Node -> Seq(Task)], mWaittingNodes' \in Seq(Node),
             iNode' \in 0..Len(mWaittingNodes'), newCount' \in 0..iNode',
             mWaited' = [mWaited EXCEPT ![t] = n]
      PROVE  LoopInv'
  <2>1. started' = started \cup {t} /\ UNCHANGED <<schedulable, woken, finished>>
    BY <1>6 DEF Start
  <2>2. /\ n # NoNode /\ mWaited' \in [Task -> Node \cup {NoNode}]
        /\ \A u \in Task : mWaited'[u] = IF u = t THEN n ELSE mWaited[u]
    <3>1. n # NoNode /\ n \in Node
      BY DEF Node, NoNode
    <3>2. mWaited' = [mWaited EXCEPT ![t] = n]
      BY <1>6
    <3>3. QED
      BY ONLY <1>1, <3>1, <3>2
  <2>3. ReadyOnce'
    BY <1>1, <1>3, <1>4, <2>1 DEF ReadyOnce
  <2>4. WaitsOrNot'
    <3>1. ASSUME NEW u \in Task
          PROVE  mWaited'[u] # NoNode <=>
                   u \in dispatched' /\ u \notin Range(mReadyTasks') /\ u \notin finished'
      BY <1>1, <1>3, <1>4, <1>5, <2>1, <2>2 DEF WaitsOrNot
    <3>2. QED
      BY <3>1 DEF WaitsOrNot
  <2>5. TypeOK'
    <3>1. started' \subseteq Task /\ (started' \cup schedulable') \cap finished' = {}
      BY <1>1, <1>2, <1>5, <2>1 DEF TypeOK
    <3>2. /\ step' \in {"dispatched", "messages", "check", "run"}
          /\ dispatched' \subseteq Task /\ schedulable' \subseteq Task
          /\ finished' \subseteq Task /\ woken' \subseteq Node \X Task
      BY <1>1, <1>3, <2>1 DEF TypeOK
    <3>3. QED
      BY <1>4, <1>6, <2>2, <3>1, <3>2 DEF TypeOK
  <2>6. QED
    BY <1>6, <2>3, <2>4, <2>5 DEF LoopInv
<1>7. CASE Pending4Lock(t) /\ Start(t)
  <2>1. /\ WaitInv'
        /\ waiting' \in [Node -> Seq(Task)] /\ mWaittingNodes' \in Seq(Node)
        /\ iNode' \in 0..Len(mWaittingNodes') /\ newCount' \in 0..iNode'
        /\ mWaited' = [mWaited EXCEPT ![t] = t.node]
    BY <1>1, <1>2, <1>3, <1>5, <1>7, PendingKeeps
  <2>2. t.node \in Node
    BY <1>2, TaskFields
  <2>3. QED
    BY <1>6, <1>7, <2>1, <2>2
<1>8. CASE \E n \in 1..(t.node - 1) : Suspend4Shared(t, n) /\ Start(t)
  <2>1. PICK n \in 1..(t.node - 1) : Suspend4Shared(t, n) /\ Start(t)
    BY <1>8
  <2>2. /\ n \in Node /\ WaitInv'
        /\ waiting' \in [Node -> Seq(Task)] /\ mWaittingNodes' \in Seq(Node)
        /\ iNode' \in 0..Len(mWaittingNodes') /\ newCount' \in 0..iNode'
        /\ mWaited' = [mWaited EXCEPT ![t] = n]
    BY <1>1, <1>2, <1>3, <1>5, <2>1, SuspendKeeps
  <2>3. QED
    BY <1>6, <2>1, <2>2
<1>9. CASE Finish(t) /\ UNCHANGED_WAIT
  <2>1. /\ finished' = finished \cup {t} /\ started' = started \ {t}
        /\ schedulable' = schedulable \ {t} /\ woken' \subseteq woken
        /\ UNCHANGED <<mWaited, waiting, mWaittingNodes>>
    BY <1>9 DEF Finish, UNCHANGED_WAIT
  <2>2. WaitInv'
    BY <1>1, <1>3, <2>1, ListsUntouched
  <2>3. ReadyOnce'
    BY <1>1, <1>3, <1>4, <1>5, <2>1 DEF ReadyOnce
  <2>4. WaitsOrNot'
    BY <1>1, <1>2, <1>3, <1>4, <1>5, <2>1 DEF WaitsOrNot
  <2>5. TypeOK'
    BY <1>1, <1>2, <1>3, <1>4, <2>1 DEF TypeOK
  <2>6. QED
    BY <2>2, <2>3, <2>4, <2>5 DEF LoopInv
<1>10. QED
  BY <1>3, <1>7, <1>8, <1>9

(* Nothing has been handed out at the start.                               *)
LEMMA InitLoopInv == Init => LoopInv
<1> SUFFICES ASSUME Init PROVE LoopInv
  OBVIOUS
<1> USE DEF Init
<1>1. /\ Range(<<>>) = {} /\ Distinct(<<>>) /\ \A n : Ordered(n, <<>>)
      /\ \A S : <<>> \in Seq(S)
      /\ Len(<<>>) = 0
  BY EmptyFacts
<1>2. TypeOK
  BY <1>1 DEF TypeOK, NoNode
<1>3. ListsInv /\ ReadyOnce
  BY <1>1 DEF ListsInv, ReadyOnce
<1>4. WaitsWhereListed
  BY <1>1 DEF WaitsWhereListed, Node, NoNode
<1>5. WaitsOrNot /\ NoListForgotten
  BY DEF WaitsOrNot, NoListForgotten
<1>6. QED
  BY <1>2, <1>3, <1>4, <1>5 DEF LoopInv, WaitInv

(* No step breaks it.                                                      *)
LEMMA NextLoopInv == LoopInv /\ [Next]_vars => LoopInv'
<1> SUFFICES ASSUME LoopInv, [Next]_vars PROVE LoopInv'
  OBVIOUS
<1>1. CASE \E t \in Task : BecomeSchedulable(t)
  BY <1>1, BecomeSchedulableStep
<1>2. CASE \E t \in Task : Dispatched(t)
  BY <1>2, DispatchedStep
<1>3. CASE \E n \in Node, t \in Task : Message(n, t)
  BY <1>3, MessageStep
<1>4. CASE \E gotLock \in BOOLEAN : CheckLostLamb(gotLock)
  BY <1>4, CheckLostLambStep
<1>5. CASE EndCheck
  BY <1>5, EndCheckStep
<1>6. CASE \E k \in 1..Len(mReadyTasks) : RunTask(k)
  BY <1>6, RunTaskStep
<1>7. CASE Advance
  BY <1>7, AdvanceStep
<1>8. CASE UNCHANGED vars
  <2>1. UNCHANGED <<step, dispatched, schedulable, started, mReadyTasks, finished, woken,
                    mWaited, waiting, mWaittingNodes, iNode, newCount>>
    BY <1>8 DEF vars
  <2>2. TypeOK'
    BY <2>1 DEF LoopInv, TypeOK
  <2>3. QED
    BY <2>1, <2>2, ListsUntouched, PlacesUntouched DEF LoopInv
<1>9. QED
  BY <1>1, <1>2, <1>3, <1>4, <1>5, <1>6, <1>7, <1>8 DEF Next
-----------------------------------------------------------------------------
(* What it says.                                                           *)

(* A member of a sequence without doubles has one position.                *)
LEMMA Positions ==
  ASSUME NEW S, NEW s \in Seq(S), Distinct(s), NEW x
  PROVE  /\ x \in Range(s) => \E i \in 1..Len(s) : {k \in DOMAIN s : s[k] = x} = {i}
         /\ x \notin Range(s) => {k \in DOMAIN s : s[k] = x} = {}
<1>1. DOMAIN s = 1..Len(s) /\ \A i \in 1..Len(s) : s[i] \in Range(s)
  BY Members
<1>2. ASSUME x \in Range(s)
      PROVE  \E i \in 1..Len(s) : {k \in DOMAIN s : s[k] = x} = {i}
  <2>1. PICK i \in 1..Len(s) : s[i] = x
    BY <1>2, Members
  <2>2. \A k \in DOMAIN s : s[k] = x <=> k = i
    BY <1>1, <2>1 DEF Distinct
  <2>3. QED
    BY <1>1, <2>2
<1>3. ASSUME x \notin Range(s)
      PROVE  {k \in DOMAIN s : s[k] = x} = {}
  BY <1>1, <1>3
<1>4. QED
  BY <1>2, <1>3

(* Where a task stands: among the ready tasks ...                          *)
ReadyAt(t) == {k \in DOMAIN mReadyTasks : mReadyTasks[k] = t}
(* ... and in the lists.                                                   *)
ListedIn(n, t) == {k \in DOMAIN waiting[n] : waiting[n][k] = t}
Listed(t) == UNION {{n} \X ListedIn(n, t) : n \in Node}

LEMMA ReadyAtFacts ==
  ASSUME LoopInv, NEW t \in Task
  PROVE  Cardinality(ReadyAt(t)) = IF t \in Range(mReadyTasks) THEN 1 ELSE 0
<1>1. mReadyTasks \in Seq(Task) /\ Distinct(mReadyTasks)
  BY DEF LoopInv, TypeOK, ReadyOnce
<1>2. CASE t \in Range(mReadyTasks)
  <2>1. PICK i \in 1..Len(mReadyTasks) : ReadyAt(t) = {i}
    BY <1>1, <1>2, Positions DEF ReadyAt
  <2>2. QED
    BY <1>2, <2>1, FS_Singleton
<1>3. CASE t \notin Range(mReadyTasks)
  <2>1. ReadyAt(t) = {}
    BY <1>1, <1>3, Positions DEF ReadyAt
  <2>2. QED
    BY <1>3, <2>1, FS_EmptySet
<1>4. QED
  BY <1>2, <1>3

LEMMA ListedFacts ==
  ASSUME LoopInv, NEW t \in Task
  PROVE  Cardinality(Listed(t)) = IF mWaited[t] # NoNode THEN 1 ELSE 0
<1>1. /\ \A n \in Node : waiting[n] \in Seq(Task) /\ Distinct(waiting[n])
      /\ \A n \in Node : t \in Range(waiting[n]) <=> mWaited[t] = n
      /\ mWaited[t] \in Node \cup {NoNode}
  BY DEF LoopInv, TypeOK, WaitInv, ListsInv, WaitsWhereListed
<1>2. ASSUME NEW n \in Node, mWaited[t] # n
      PROVE  ListedIn(n, t) = {}
  BY <1>1, <1>2, Positions DEF ListedIn
<1>3. CASE mWaited[t] # NoNode
  <2>1. PICK n \in Node : mWaited[t] = n
    BY <1>1, <1>3
  <2>2. PICK i \in 1..Len(waiting[n]) : ListedIn(n, t) = {i}
    BY <1>1, <2>1, Positions DEF ListedIn
  <2>3. Listed(t) = {<<n, i>>}
    <3>1. \A m \in Node : m # n => ListedIn(m, t) = {}
      BY <1>2, <2>1
    <3>2. \A w : w \in Listed(t) <=> \E m \in Node : w \in {m} \X ListedIn(m, t)
      BY DEF Listed
    <3>3. \A w : w \in Listed(t) <=> w \in {n} \X {i}
      BY <2>2, <3>1, <3>2
    <3>4. QED
      BY <3>3
  <2>4. QED
    BY <1>3, <2>3, FS_Singleton
<1>4. CASE mWaited[t] = NoNode
  <2>1. \A n \in Node : ListedIn(n, t) = {}
    BY <1>2, <1>4 DEF Node, NoNode
  <2>2. Listed(t) = {}
    BY <2>1 DEF Listed
  <2>3. QED
    BY <1>4, <2>2, FS_EmptySet
<1>5. QED
  BY <1>3, <1>4

LEMMA LoopInvPlaces == LoopInv => InOnePlace
<1> SUFFICES ASSUME LoopInv, NEW t \in dispatched
             PROVE  Cardinality(ReadyAt(t)) + (IF t \in finished THEN 1 ELSE 0)
                      + Cardinality(Listed(t)) = 1
  BY DEF InOnePlace, ReadyAt, Listed, ListedIn
<1>1. t \in Task
  BY DEF LoopInv, TypeOK
<1>2. /\ mWaited[t] # NoNode <=> t \notin Range(mReadyTasks) /\ t \notin finished
      /\ ~(t \in Range(mReadyTasks) /\ t \in finished)
  BY <1>1 DEF LoopInv, WaitsOrNot, ReadyOnce
<1>3. QED
  BY <1>1, <1>2, ReadyAtFacts, ListedFacts

LEMMA LoopInvOrder == LoopInv => EarliestFirst
BY DEF LoopInv, WaitInv, ListsInv, Ordered, Before, EarliestFirst

(* The invariant of the loop: every list in order and without doubles, no  *)
(* list outside mWaittingNodes, and each task handed out ready, finished   *)
(* or waiting.                                                             *)
THEOREM LoopInvariant == Spec => []LoopInv
<1>1. Init => LoopInv
  BY InitLoopInv
<1>2. LoopInv /\ [Next]_vars => LoopInv'
  BY NextLoopInv
<1>3. QED
  BY <1>1, <1>2, PTL DEF Spec

(* Through Pending4Lock, the suspensions, push2ReadyQueue and              *)
(* CheckLostLamb a task that was handed out is neither lost nor in two     *)
(* places.                                                                 *)
THEOREM TasksInOnePlace == Spec => []InOnePlace
<1>1. Spec => []LoopInv
  BY LoopInvariant
<1>2. LoopInv => InOnePlace
  BY LoopInvPlaces
<1>3. QED
  BY <1>1, <1>2, PTL

(* mWaited and the lists agree, so that push2ReadyQueue finds the task     *)
(* that it erases.                                                         *)
THEOREM ListsHoldWaiters == Spec => []WaitsWhereListed
<1>1. Spec => []LoopInv
  BY LoopInvariant
<1>2. LoopInv => WaitsWhereListed
  BY DEF LoopInv, WaitInv
<1>3. QED
  BY <1>1, <1>2, PTL

(* However CheckLostLamb packs mWaittingNodes, it comes back to every list *)
(* that holds a task.                                                      *)
THEOREM NoListIsForgotten == Spec => []NoListForgotten
<1>1. Spec => []LoopInv
  BY LoopInvariant
<1>2. LoopInv => NoListForgotten
  BY DEF LoopInv, WaitInv
<1>3. QED
  BY <1>1, <1>2, PTL

(* Inserted from the back, the task that is to be admitted first stands    *)
(* first, where CheckLostLamb looks.                                       *)
THEOREM EarliestIsFirst == Spec => []EarliestFirst
<1>1. Spec => []LoopInv
  BY LoopInvariant
<1>2. LoopInv => EarliestFirst
  BY LoopInvOrder
<1>3. QED
  BY <1>1, <1>2, PTL
=============================================================================
