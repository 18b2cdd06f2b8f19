---------------------------- MODULE CommonProofs ----------------------------
(***************************************************************************)
(* Proofs about src/common: the containers whose items are linked by       *)
(* pointers, the time ranges with their scheduler, and the timer's rings.  *)
(***************************************************************************)
EXTENDS SpscQueue, WindowedMap, TimeRanges, TimerWheel, TLAPS, SequenceTheorems,
  WellFoundedInduction, FiniteSetTheorems

-----------------------------------------------------------------------------
(* Sequences.                                                              *)

Distinct(s) == \A i, j \in 1..Len(s) : i # j => s[i] # s[j]

(* Natural numbers are well founded.                                       *)
LEMMA LeastMember ==
  ASSUME NEW T, T \subseteq Nat, T # {}
  PROVE  \E m \in T : \A k \in T : m <= k
<1>1. \E m \in T : \A k \in T : ~(<<k, m>> \in OpToRel(<, Nat))
  BY NatLessThanWellFounded, WFMin
<1>2. PICK m \in T : \A k \in T : ~(<<k, m>> \in OpToRel(<, Nat))
  BY <1>1
<1>3. \A k \in T : <<k, m>> \in Nat \X Nat
  OBVIOUS
<1>4. \A k \in T : ~(k < m)
  BY <1>2, <1>3 DEF OpToRel
<1>5. QED
  BY <1>4

(* What Range and Len mean for a sequence.                                 *)
LEMMA Members ==
  ASSUME NEW S, NEW s \in Seq(S)
  PROVE  /\ Len(s) \in Nat /\ DOMAIN s = 1..Len(s)
         /\ \A i \in 1..Len(s) : s[i] \in S
         /\ Range(s) = {s[i] : i \in 1..Len(s)} /\ Range(s) \subseteq S
         /\ \A x \in Range(s) : \E i \in 1..Len(s) : x = s[i]
         /\ \A i \in 1..Len(s) : s[i] \in Range(s)
BY DEF Range

(* A new member at the end.                                                *)
LEMMA AppendFacts ==
  ASSUME NEW S, NEW s \in Seq(S), NEW o \in S
  PROVE  /\ Append(s, o) \in Seq(S) /\ Len(Append(s, o)) = Len(s) + 1
         /\ \A i \in 1..Len(s) : Append(s, o)[i] = s[i]
         /\ Append(s, o)[Len(s) + 1] = o
         /\ Range(Append(s, o)) = Range(s) \cup {o}
         /\ Distinct(s) /\ o \notin Range(s) => Distinct(Append(s, o))
<1> DEFINE t == Append(s, o)
<1>1. /\ t \in Seq(S) /\ Len(t) = Len(s) + 1
      /\ \A i \in 1..Len(s) : t[i] = s[i]
      /\ t[Len(s) + 1] = o
  BY AppendProperties
<1> HIDE DEF t
<1>2. /\ Len(s) \in Nat /\ \A i \in 1..Len(t) : i \in 1..Len(s) \/ i = Len(s) + 1
      /\ \A i \in 1..Len(s) : i \in 1..Len(t) /\ i # Len(s) + 1
      /\ Len(s) + 1 \in 1..Len(t)
  BY <1>1, Members
<1>3. Range(t) = Range(s) \cup {o}
  <2>1. ASSUME NEW x \in Range(t) PROVE x \in Range(s) \cup {o}
    <3>1. PICK i \in 1..Len(t) : x = t[i]
      BY <1>1, Members
    <3>2. QED
      BY <1>1, <1>2, <3>1, Members
  <2>2. ASSUME NEW x \in Range(s) PROVE x \in Range(t)
    <3>1. PICK i \in 1..Len(s) : x = s[i]
      BY Members
    <3>2. i \in 1..Len(t) /\ x = t[i]
      BY <1>1, <1>2, <3>1
    <3>3. QED
      BY <1>1, <3>2, Members
  <2>3. o \in Range(t)
    BY <1>1, <1>2, Members
  <2>4. QED
    BY <2>1, <2>2, <2>3
<1>4. ASSUME Distinct(s), o \notin Range(s) PROVE Distinct(t)
  BY <1>1, <1>2, <1>4, Members DEF Distinct
<1>5. QED
  BY <1>1, <1>3, <1>4 DEF t

(* Without its first member.                                               *)
LEMMA TailFacts ==
  ASSUME NEW S, NEW s \in Seq(S), Len(s) > 0
  PROVE  /\ Tail(s) \in Seq(S) /\ Len(Tail(s)) = Len(s) - 1
         /\ \A i \in 1..(Len(s) - 1) : Tail(s)[i] = s[i + 1]
         /\ Distinct(s) => /\ Distinct(Tail(s))
                           /\ Range(Tail(s)) = Range(s) \ {s[1]}
<1> DEFINE t == Tail(s)
<1>0. Len(s) \in Nat /\ s # <<>>
  BY Members, EmptySeq
<1>1. /\ t \in Seq(S) /\ Len(t) = Len(s) - 1
      /\ \A i \in 1..(Len(s) - 1) : t[i] = s[i + 1]
  BY <1>0, HeadTailProperties
<1> HIDE DEF t
<1>2. /\ \A i \in 1..Len(t) : i + 1 \in 1..Len(s) /\ i + 1 # 1
      /\ \A i \in 1..Len(s) : i = 1 \/ (i - 1 \in 1..Len(t) /\ (i - 1) + 1 = i)
      /\ 1 \in 1..Len(s)
  BY <1>0, <1>1
<1>3. ASSUME Distinct(s) PROVE Distinct(t)
  <2>1. ASSUME NEW i \in 1..Len(t), NEW j \in 1..Len(t), i # j PROVE t[i] # t[j]
    <3>1. t[i] = s[i + 1] /\ t[j] = s[j + 1] /\ i + 1 # j + 1
      BY <1>1, <2>1
    <3>2. QED
      BY <1>2, <1>3, <3>1 DEF Distinct
  <2>2. QED
    BY <2>1 DEF Distinct
<1>4. ASSUME Distinct(s) PROVE Range(t) = Range(s) \ {s[1]}
  <2>1. ASSUME NEW x \in Range(t) PROVE x \in Range(s) \ {s[1]}
    <3>1. PICK i \in 1..Len(t) : x = t[i]
      BY <1>1, Members
    <3>2. x = s[i + 1]
      BY <1>1, <3>1
    <3>3. QED
      BY <1>2, <1>4, <3>2, Members DEF Distinct
  <2>2. ASSUME NEW x \in Range(s) \ {s[1]} PROVE x \in Range(t)
    <3>1. PICK i \in 1..Len(s) : x = s[i]
      BY Members
    <3>2. i - 1 \in 1..Len(t) /\ x = s[(i - 1) + 1]
      BY <1>2, <2>2, <3>1
    <3>3. x = t[i - 1]
      BY <1>1, <3>2
    <3>4. QED
      BY <1>1, <3>2, <3>3, Members
  <2>3. QED
    BY <2>1, <2>2
<1>5. QED
  BY <1>1, <1>3, <1>4 DEF t

(* A function on 1..n is a sequence.                                       *)
LEMMA IsSequence ==
  ASSUME NEW S, NEW n \in Nat, NEW g \in [1..n -> S]
  PROVE  g \in Seq(S) /\ Len(g) = n
<1>1. g \in Seq(S)
  <2>1. Seq(S) = UNION {[1..j -> S] : j \in Nat}
    BY SeqDef
  <2>2. QED
    BY <2>1, Zenon
<1>2. QED
  BY <1>1, LenProperties

(* The members of s are linked in the order of s, and the last to none.    *)
AreNeighbours(links, s, none) ==
  /\ \A i \in 1..(Len(s) - 1) : links[s[i]] = s[i + 1]
  /\ Len(s) # 0 => links[s[Len(s)]] = none

(* Such a sequence is what following the links finds.                      *)
LEMMA FollowIs ==
  ASSUME NEW S, NEW none, none \notin S, NEW most \in Nat, NEW links \in [S -> S \cup {none}],
         NEW s \in Seq(S), Len(s) <= most, AreNeighbours(links, s, none),
         NEW item, item = IF Len(s) = 0 THEN none ELSE s[1]
  PROVE  Follow(links, item, none, most) = s
<1> DEFINE after == [i \in DOMAIN links \cup {none} |-> IF i = none THEN none ELSE links[i]]
           Body(c) == [k \in 1..most |-> IF k = 1 THEN item ELSE after[c[k - 1]]]
           at == CHOOSE c : c = Body(c)
           w == [k \in 1..most |-> IF k <= Len(s) THEN s[k] ELSE none]
           length == Cardinality({k \in 1..most : at[k] # none})
<1>0. most \in Nat /\ Len(s) \in Nat /\ Len(s) <= most /\ \A i \in 1..Len(s) : s[i] \in S /\ s[i] # none
  BY Members
<1>1. Follow(links, item, none, most) = [k \in 1..length |-> at[k]]
  BY DEF Follow
<1>2. after[none] = none /\ \A x \in S : after[x] = links[x]
  BY DEF after
<1> HIDE DEF after
<1>3. \A k \in 1..most : w[k] = IF k <= Len(s) THEN s[k] ELSE none
  OBVIOUS
<1> HIDE DEF w
<1>4. 1 \in 1..most => w[1] = item
  BY <1>0, <1>3
<1>5. ASSUME NEW k \in 2..most PROVE w[k] = after[w[k - 1]]
  <2>0. k \in 1..most /\ k - 1 \in 1..most
    BY <1>0
  <2>1. CASE k <= Len(s)
    <3>1. k - 1 \in 1..(Len(s) - 1) /\ k - 1 \in 1..Len(s) /\ (k - 1) + 1 = k
      BY <1>0, <2>1
    <3>2. w[k - 1] = s[k - 1] /\ w[k] = s[k]
      BY <1>3, <2>0, <2>1, <3>1
    <3>3. links[s[k - 1]] = s[k]
      BY <3>1 DEF AreNeighbours
    <3>4. QED
      BY <1>0, <1>2, <3>1, <3>2, <3>3
  <2>2. CASE k = Len(s) + 1
    <3>1. k - 1 = Len(s) /\ Len(s) \in 1..Len(s) /\ Len(s) # 0 /\ ~(k <= Len(s))
      BY <1>0, <2>0, <2>2
    <3>2. w[k - 1] = s[Len(s)] /\ w[k] = none
      BY <1>0, <1>3, <2>0, <3>1
    <3>3. links[s[Len(s)]] = none
      BY <3>1 DEF AreNeighbours
    <3>4. QED
      BY <1>0, <1>2, <3>1, <3>2, <3>3
  <2>3. CASE k > Len(s) + 1
    <3>1. ~(k - 1 <= Len(s)) /\ ~(k <= Len(s))
      BY <1>0, <2>0, <2>3
    <3>2. w[k - 1] = none /\ w[k] = none
      BY <1>3, <2>0, <3>1
    <3>3. QED
      BY <1>2, <3>2
  <2>4. QED
    BY <1>0, <2>0, <2>1, <2>2, <2>3
<1>6. w = Body(w)
  <2>1. ASSUME NEW k \in 1..most PROVE w[k] = IF k = 1 THEN item ELSE after[w[k - 1]]
    <3>1. k # 1 => k \in 2..most
      BY <1>0
    <3>2. QED
      BY <1>4, <1>5, <3>1
  <2>2. QED
    BY <2>1 DEF w
<1>7. at = Body(at)
  <2>1. \E c : c = Body(c)
    BY <1>6
  <2> HIDE DEF Body
  <2>2. QED
    BY <2>1
<1> HIDE DEF at
<1>8. \A k \in 1..most : at[k] = IF k = 1 THEN item ELSE after[at[k - 1]]
  <2>1. \A k \in 1..most : Body(at)[k] = IF k = 1 THEN item ELSE after[at[k - 1]]
    OBVIOUS
  <2> HIDE DEF Body
  <2>2. QED
    BY <1>7, <2>1
<1>9. \A k \in 1..most : at[k] = w[k]
  <2> SUFFICES ASSUME ~ \A k \in 1..most : at[k] = w[k] PROVE FALSE
    OBVIOUS
  <2> DEFINE T == {k \in 1..most : at[k] # w[k]}
  <2>1. T # {} /\ T \subseteq Nat
    OBVIOUS
  <2>2. PICK k \in T : \A j \in T : k <= j
    BY <2>1, LeastMember
  <2>3. k \in 1..most /\ at[k] # w[k]
    OBVIOUS
  <2>4. k # 1
    BY <1>4, <1>8, <2>3
  <2>5. k \in 2..most /\ k - 1 \in 1..most /\ ~(k <= k - 1)
    BY <1>0, <2>3, <2>4
  <2>6. at[k - 1] = w[k - 1]
    BY <2>2, <2>5
  <2>7. QED
    BY <1>5, <1>8, <2>3, <2>4, <2>5, <2>6
<1>10. {k \in 1..most : at[k] # none} = 1..Len(s)
  <2>1. ASSUME NEW k \in 1..most PROVE at[k] # none <=> k \in 1..Len(s)
    <3>1. k \in 1..Len(s) <=> k <= Len(s)
      BY <1>0
    <3>2. QED
      BY <1>0, <1>3, <1>9, <3>1
  <2>2. 1..Len(s) \subseteq 1..most
    BY <1>0
  <2>3. QED
    BY <2>1, <2>2
<1>11. length = Len(s)
  <2>0. PICK a, n : a = 1 /\ n = Len(s) /\ a \in Int /\ n \in Int /\ n >= 0
    BY <1>0
  <2>1. Cardinality(a..n) = IF a > n THEN 0 ELSE n - a + 1
    BY ONLY <2>0, FS_Interval
  <2>2. (IF a > n THEN 0 ELSE n - a + 1) = n
    BY ONLY <2>0
  <2>3. Cardinality(1..Len(s)) = Len(s)
    BY ONLY <2>0, <2>1, <2>2
  <2>4. QED
    BY <1>10, <2>3
<1>12. \A k \in 1..Len(s) : at[k] = s[k]
  <2>1. \A k \in 1..Len(s) : k \in 1..most /\ k <= Len(s)
    BY <1>0
  <2>2. QED
    BY <1>3, <1>9, <2>1
<1>13. PICK t : t = [k \in 1..Len(s) |-> at[k]]
  OBVIOUS
<1>14. t \in [1..Len(s) -> S] /\ \A k \in 1..Len(s) : t[k] = s[k]
  BY <1>0, <1>12, <1>13
<1>15. t \in Seq(S) /\ Len(t) = Len(s)
  BY ONLY <1>0, <1>14, IsSequence
<1>16. t = s
  BY <1>14, <1>15, SeqEqual
<1>17. QED
  BY <1>1, <1>11, <1>13, <1>16
-----------------------------------------------------------------------------
(* DSpscQueue: chains of holders.                                          *)

Links == [Holder -> Holder \cup {nullptr}]

(* The holders of s are linked in the order of s, and the last to none.    *)
Linked(links, s) ==
  /\ \A i \in 1..(Len(s) - 1) : links[s[i]] = s[i + 1]
  /\ links[s[Len(s)]] = nullptr

(* What Chain finds.                                                       *)
LEMMA ChainIs ==
  ASSUME NEW links \in Links, NEW s \in Seq(Holder), Len(s) \in 1..HolderCount, Linked(links, s)
  PROVE  Chain(links, s[1]) = s
<1>1. AreNeighbours(links, s, nullptr)
  BY DEF Linked, AreNeighbours
<1>2. nullptr \notin Holder /\ HolderCount \in Nat
  BY HolderCountAssumption DEF nullptr, Holder
<1>3. Len(s) <= HolderCount /\ Len(s) # 0
  BY <1>2
<1>4. PICK item : item = s[1]
  OBVIOUS
<1>5. Follow(links, item, nullptr, HolderCount) = s
  BY <1>1, <1>2, <1>3, <1>4, FollowIs DEF Links
<1>6. QED
  BY <1>4, <1>5 DEF Chain

(* A link of a holder outside the chain does not matter to it.             *)
LEMMA LinkedOther ==
  ASSUME NEW s \in Seq(Holder), Len(s) > 0, NEW links \in Links, Linked(links, s),
         NEW x, x \notin Range(s), NEW y
  PROVE  Linked([links EXCEPT ![x] = y], s)
<1>1. \A i \in 1..Len(s) : s[i] \in Holder /\ s[i] # x
  BY Members
<1>2. Len(s) \in Nat /\ Len(s) \in 1..Len(s) /\ \A i \in 1..(Len(s) - 1) : i \in 1..Len(s)
  BY Members
<1>3. \A i \in 1..Len(s) : [links EXCEPT ![x] = y][s[i]] = links[s[i]]
  BY <1>1 DEF Links
<1>4. QED
  BY <1>2, <1>3 DEF Linked

(* pop of spsc_queue: the first holder leaves the chain with an empty      *)
(* link.                                                                   *)
LEMMA LinkedTail ==
  ASSUME NEW s \in Seq(Holder), Len(s) > 1, NEW links \in Links,
         Linked(links, s), Distinct(s)
  PROVE  /\ Tail(s) \in Seq(Holder) /\ Len(Tail(s)) = Len(s) - 1
         /\ Linked([links EXCEPT ![s[1]] = nullptr], Tail(s))
         /\ Distinct(Tail(s))
         /\ s[1] \notin Range(Tail(s)) /\ Range(s) = Range(Tail(s)) \cup {s[1]}
         /\ Tail(s)[1] = links[s[1]] /\ Tail(s)[Len(s) - 1] = s[Len(s)]
         /\ \A i \in 1..(Len(s) - 1) : Tail(s)[i] = s[i + 1]
<1> DEFINE t == Tail(s)
<1>0. Len(s) \in Nat /\ Len(s) > 0 /\ 1 \in 1..Len(s) /\ 1 \in 1..(Len(s) - 1)
  BY Members
<1>1. /\ t \in Seq(Holder) /\ Len(t) = Len(s) - 1
      /\ \A i \in 1..(Len(s) - 1) : t[i] = s[i + 1]
      /\ Distinct(t) /\ Range(t) = Range(s) \ {s[1]}
  BY <1>0, TailFacts
<1> HIDE DEF t
<1>2. t[1] = links[s[1]]
  <2>1. t[1] = s[1 + 1]
    BY <1>0, <1>1
  <2>2. QED
    BY <2>1, <1>0 DEF Linked
<1>3. t[Len(s) - 1] = s[Len(s)]
  <2>1. Len(s) - 1 \in 1..(Len(s) - 1) /\ (Len(s) - 1) + 1 = Len(s)
    BY <1>0
  <2>2. QED
    BY <2>1, <1>1
<1>4. Linked(links, t)
  <2>1. ASSUME NEW i \in 1..(Len(t) - 1) PROVE links[t[i]] = t[i + 1]
    <3>1. i \in 1..(Len(s) - 1) /\ i + 1 \in 1..(Len(s) - 1)
      BY <1>0, <1>1
    <3>2. t[i] = s[i + 1] /\ t[i + 1] = s[(i + 1) + 1]
      BY <1>1, <3>1
    <3>3. QED
      BY <3>1, <3>2 DEF Linked
  <2>2. QED
    BY <2>1, <1>1, <1>3 DEF Linked
<1>5. s[1] \notin Range(t) /\ s[1] \in Range(s)
  BY <1>0, <1>1, Members
<1>6. Linked([links EXCEPT ![s[1]] = nullptr], t)
  <2>1. Len(t) > 0
    BY <1>0, <1>1
  <2>2. QED
    BY <2>1, <1>1, <1>4, <1>5, LinkedOther
<1>7. QED
  BY <1>1, <1>2, <1>3, <1>5, <1>6 DEF t

(* push of spsc_queue: the last holder is linked to a new one.             *)
LEMMA LinkedAppend ==
  ASSUME NEW s \in Seq(Holder), Len(s) > 0, NEW links \in Links,
         Linked(links, s), Distinct(s),
         NEW h \in Holder, h \notin Range(s), links[h] = nullptr
  PROVE  /\ Append(s, h) \in Seq(Holder) /\ Len(Append(s, h)) = Len(s) + 1
         /\ Linked([links EXCEPT ![s[Len(s)]] = h], Append(s, h))
         /\ Distinct(Append(s, h))
         /\ Range(Append(s, h)) = Range(s) \cup {h}
         /\ Append(s, h)[1] = s[1] /\ Append(s, h)[Len(s) + 1] = h
         /\ \A i \in 1..Len(s) : Append(s, h)[i] = s[i]
<1> DEFINE t == Append(s, h)
           lk == [links EXCEPT ![s[Len(s)]] = h]
<1>0. /\ Len(s) \in Nat /\ 1 \in 1..Len(s) /\ Len(s) \in 1..Len(s)
      /\ \A i \in 1..Len(s) : s[i] \in Holder /\ s[i] # h
  BY Members
<1>1. /\ t \in Seq(Holder) /\ Len(t) = Len(s) + 1
      /\ \A i \in 1..Len(s) : t[i] = s[i]
      /\ t[Len(s) + 1] = h /\ Range(t) = Range(s) \cup {h} /\ Distinct(t)
  BY AppendFacts
<1>2. /\ \A x \in Holder : x # s[Len(s)] => lk[x] = links[x]
      /\ lk[s[Len(s)]] = h
  BY <1>0 DEF Links
<1> HIDE DEF t, lk
<1>3. ASSUME NEW i \in 1..(Len(t) - 1) PROVE lk[t[i]] = t[i + 1]
  <2>1. i \in 1..Len(s) /\ t[i] = s[i]
    BY <1>0, <1>1
  <2>2. CASE i = Len(s)
    BY <2>1, <2>2, <1>1, <1>2
  <2>3. CASE i # Len(s)
    <3>1. i \in 1..(Len(s) - 1) /\ i + 1 \in 1..Len(s)
      BY <1>0, <2>1, <2>3
    <3>2. s[i] # s[Len(s)]
      BY <1>0, <2>1, <2>3 DEF Distinct
    <3>3. lk[s[i]] = s[i + 1]
      BY <1>0, <1>2, <3>1, <3>2 DEF Linked
    <3>4. QED
      BY <1>1, <2>1, <3>1, <3>3
  <2>4. QED
    BY <2>2, <2>3
<1>4. Linked(lk, t)
  <2>1. lk[h] = nullptr
    BY <1>0, <1>2
  <2>2. QED
    BY <2>1, <1>1, <1>3 DEF Linked
<1>5. QED
  BY <1>0, <1>1, <1>4 DEF t, lk

(* The holders that are in neither queue.                                  *)
OfPusher == IF pusher \in {"fill", "link"} THEN {inHand} ELSE {}
OfPopper == IF popper = "give" THEN {popped} ELSE {}
CountOf(set) == IF set = {} THEN 0 ELSE 1

QueueTypeOK ==
  /\ next \in Links /\ value \in [Holder -> Nat] /\ pushed \in Nat
  /\ pusher \in {"idle", "fill", "link", "move"}
  /\ popper \in {"idle", "last", "give", "move"}

(* s are the stored holders and f the free ones.  Between the two stores   *)
(* of push the tail lags behind, and may be a holder that has moved on to  *)
(* the other queue; the last holder is then the one being pushed.          *)
HoldersInv(s, f) ==
  /\ s \in Seq(Holder) /\ f \in Seq(Holder) /\ Len(s) > 0 /\ Len(f) > 0
  /\ Linked(next, s) /\ Linked(next, f) /\ Distinct(s) /\ Distinct(f)
  /\ storeHead = s[1] /\ freeHead = f[1]
  /\ s[Len(s)] = IF pusher = "move" THEN inHand ELSE storeTail
  /\ f[Len(f)] = IF popper = "move" THEN popped ELSE freeTail
  /\ Range(s) \cap Range(f) = {} /\ OfPusher \cap OfPopper = {}
  /\ (OfPusher \cup OfPopper) \cap (Range(s) \cup Range(f)) = {}
  /\ Range(s) \cup Range(f) \cup OfPusher \cup OfPopper = Holder
  /\ \A h \in OfPusher \cup OfPopper : next[h] = nullptr
  /\ Len(s) + Len(f) + CountOf(OfPusher) + CountOf(OfPopper) = HolderCount

(* The numbers behind m.                                                   *)
Numbers(m, k) == [i \in 1..k |-> m + i]

(* The stored values are the last numbers accepted, and the numbers before *)
(* them were handed out; the first holder may have lost its value.         *)
ValuesInv(s) ==
  /\ Len(s) <= pushed + 1
  /\ pusher = "link" => value[inHand] = pushed + 1
  /\ \A i \in 2..Len(s) : value[s[i]] = (pushed - Len(s)) + i
  /\ \/ value[s[1]] = Null /\ handedOut = Numbers(0, (pushed - Len(s)) + 1)
     \/ /\ value[s[1]] = (pushed - Len(s)) + 1 /\ Len(s) <= pushed
        /\ handedOut = Numbers(0, pushed - Len(s))

QueueIs(s, f) == QueueTypeOK /\ HoldersInv(s, f) /\ ValuesInv(s)
QueueInv == QueueIs(Chain(next, storeHead), Chain(next, freeHead))

(* The ends of the chains, typed.                                          *)
LEMMA QueueTyped ==
  ASSUME NEW s, NEW f, QueueIs(s, f)
  PROVE  /\ next \in Links /\ value \in [Holder -> Nat] /\ pushed \in Nat
         /\ s \in Seq(Holder) /\ f \in Seq(Holder)
         /\ Len(s) \in Nat /\ Len(f) \in Nat /\ Len(s) > 0 /\ Len(f) > 0
         /\ 1 \in 1..Len(s) /\ 1 \in 1..Len(f) /\ Len(s) \in 1..Len(s) /\ Len(f) \in 1..Len(f)
         /\ Linked(next, s) /\ Linked(next, f) /\ Distinct(s) /\ Distinct(f)
         /\ storeHead = s[1] /\ freeHead = f[1]
         /\ storeHead \in Range(s) /\ freeHead \in Range(f)
         /\ s[Len(s)] \in Range(s) /\ f[Len(f)] \in Range(f)
         /\ Range(s) \subseteq Holder /\ Range(f) \subseteq Holder
         /\ nullptr \notin Holder
<1>1. s \in Seq(Holder) /\ f \in Seq(Holder) /\ Len(s) > 0 /\ Len(f) > 0
  BY DEF QueueIs, HoldersInv
<1>2. /\ Len(s) \in Nat /\ Len(f) \in Nat
      /\ 1 \in 1..Len(s) /\ 1 \in 1..Len(f) /\ Len(s) \in 1..Len(s) /\ Len(f) \in 1..Len(f)
  BY <1>1, Members
<1>3. /\ storeHead = s[1] /\ freeHead = f[1]
      /\ storeHead \in Range(s) /\ freeHead \in Range(f)
      /\ s[Len(s)] \in Range(s) /\ f[Len(f)] \in Range(f)
      /\ Range(s) \subseteq Holder /\ Range(f) \subseteq Holder
  BY <1>1, <1>2, Members DEF QueueIs, HoldersInv
<1>4. nullptr \notin Holder
  BY HolderCountAssumption DEF nullptr, Holder
<1>5. QED
  BY <1>1, <1>2, <1>3, <1>4 DEF QueueIs, HoldersInv, QueueTypeOK

(* A chain has at most as many holders as there are.                       *)
LEMMA ChainsAre ==
  ASSUME NEW s, NEW f, QueueIs(s, f)
  PROVE  Chain(next, storeHead) = s /\ Chain(next, freeHead) = f
<1>1. CountOf(OfPusher) \in Nat /\ CountOf(OfPopper) \in Nat
  BY DEF CountOf
<1>2. Len(s) + Len(f) + CountOf(OfPusher) + CountOf(OfPopper) = HolderCount
  BY DEF QueueIs, HoldersInv
<1>3. Len(s) \in 1..HolderCount /\ Len(f) \in 1..HolderCount
  BY <1>1, <1>2, QueueTyped, HolderCountAssumption
<1>4. QED
  BY <1>3, QueueTyped, ChainIs

(* TakeFree: a free holder goes to the pusher's hand.                      *)
LEMMA TakeFreeKeeps ==
  ASSUME NEW s, NEW f, QueueIs(s, f), TakeFree
  PROVE  QueueIs(s, Tail(f))'
<1> DEFINE g == Tail(f)
<1>0. /\ pusher = "idle" /\ next[f[1]] # nullptr /\ pusher' = "fill" /\ inHand' = f[1]
      /\ freeHead' = next[f[1]] /\ next' = [next EXCEPT ![f[1]] = nullptr]
      /\ UNCHANGED <<value, storeTail, pushed, storeHead, freeTail, popper, popped, handedOut>>
  BY QueueTyped DEF TakeFree, popVars
<1>1. Len(f) > 1
  <2>1. Len(f) # 1
    BY <1>0, QueueTyped DEF Linked
  <2>2. PICK n \in Nat : n = Len(f)
    BY QueueTyped
  <2>3. n > 0 /\ n # 1
    BY <2>1, <2>2, QueueTyped
  <2>4. n > 1
    BY <2>3
  <2>5. QED
    BY <2>2, <2>4
<1>2. /\ g \in Seq(Holder) /\ Len(g) = Len(f) - 1
      /\ Linked(next', g) /\ Distinct(g) /\ f[1] \notin Range(g)
      /\ Range(f) = Range(g) \cup {f[1]}
      /\ g[1] = next[f[1]] /\ g[Len(f) - 1] = f[Len(f)]
  BY <1>0, <1>1, QueueTyped, LinkedTail
<1> HIDE DEF g
<1>3. f[1] \in Holder /\ f[1] \notin Range(s) /\ f[1] \notin OfPopper /\ OfPusher = {}
  BY <1>0, QueueTyped DEF QueueIs, HoldersInv, OfPusher
<1>4. Linked(next', s)
  BY <1>0, <1>3, QueueTyped, LinkedOther
<1>5. QueueTypeOK'
  BY <1>0, <1>3, QueueTyped DEF QueueIs, QueueTypeOK, Links
<1>6. OfPusher' = {f[1]} /\ OfPopper' = OfPopper
  BY <1>0 DEF OfPusher, OfPopper
<1>7. \A h \in OfPusher' \cup OfPopper' : next'[h] = nullptr
  <2>1. \A h \in OfPopper : h \in Holder /\ h # f[1] /\ next[h] = nullptr
    BY <1>3 DEF QueueIs, HoldersInv
  <2>2. QED
    BY <2>1, <1>0, <1>3, <1>6, QueueTyped DEF Links
<1>8. Len(s) + Len(g) + CountOf(OfPusher') + CountOf(OfPopper') = HolderCount
  <2>1. CountOf(OfPusher') = 1 /\ CountOf(OfPusher) = 0 /\ CountOf(OfPopper') = CountOf(OfPopper)
    BY <1>3, <1>6 DEF CountOf
  <2>2. Len(s) + Len(f) + CountOf(OfPusher) + CountOf(OfPopper) = HolderCount
    BY DEF QueueIs, HoldersInv
  <2>3. CountOf(OfPopper) \in Nat
    BY DEF CountOf
  <2>4. QED
    BY <2>1, <2>2, <2>3, <1>2, QueueTyped
<1>9. HoldersInv(s, g)'
  <2>1. Len(g) > 0 /\ g[Len(g)] = f[Len(f)]
    BY <1>1, <1>2, QueueTyped
  <2>2. /\ (OfPusher' \cup OfPopper') \cap (Range(s) \cup Range(g)) = {}
        /\ Range(s) \cap Range(g) = {} /\ OfPusher' \cap OfPopper' = {}
        /\ Range(s) \cup Range(g) \cup OfPusher' \cup OfPopper' = Holder
    BY <1>2, <1>3, <1>6 DEF QueueIs, HoldersInv
  <2>3. /\ s[Len(s)] = IF pusher' = "move" THEN inHand' ELSE storeTail'
        /\ g[Len(g)] = IF popper' = "move" THEN popped' ELSE freeTail'
    BY <2>1, <1>0 DEF QueueIs, HoldersInv
  <2>4. Holder' = Holder /\ HolderCount' = HolderCount
    BY DEF Holder
  <2>5. QED
    BY <2>1, <2>2, <2>3, <2>4, <1>0, <1>2, <1>4, <1>7, <1>8, QueueTyped DEF HoldersInv
<1>10. ValuesInv(s)'
  BY <1>0 DEF QueueIs, ValuesInv
<1>11. QED
  BY <1>5, <1>9, <1>10 DEF QueueIs, g

(* Fill: the value of the holder in the pusher's hand.                     *)
LEMMA FillKeeps ==
  ASSUME NEW s, NEW f, QueueIs(s, f), Fill
  PROVE  QueueIs(s, f)'
<1>0. /\ pusher = "fill" /\ pusher' = "link" /\ value' = [value EXCEPT ![inHand] = pushed + 1]
      /\ UNCHANGED <<next, storeTail, freeHead, inHand, pushed, storeHead, freeTail, popper,
                     popped, handedOut>>
  BY DEF Fill, popVars
<1>1. /\ OfPusher' = OfPusher /\ OfPopper' = OfPopper
      /\ OfPusher = {inHand} /\ inHand \in Holder /\ inHand \notin Range(s)
  <2>1. OfPusher' = OfPusher /\ OfPopper' = OfPopper /\ OfPusher = {inHand}
    BY <1>0 DEF OfPusher, OfPopper
  <2>2. HoldersInv(s, f)
    BY DEF QueueIs
  <2>3. Range(s) \cap OfPusher = {} /\ OfPusher \subseteq Holder
    BY <2>2 DEF HoldersInv
  <2>4. QED
    BY <2>1, <2>3
<1>2. /\ value'[inHand] = pushed + 1 /\ value' \in [Holder -> Nat]
      /\ \A i \in 1..Len(s) : value'[s[i]] = value[s[i]]
  <2>1. s \in Seq(Holder) /\ value \in [Holder -> Nat] /\ pushed \in Nat
    BY DEF QueueIs, HoldersInv, QueueTypeOK
  <2>2. \A i \in 1..Len(s) : s[i] # inHand /\ s[i] \in Holder
    BY <1>1, <2>1, Members
  <2>3. QED
    BY <1>0, <1>1, <2>1, <2>2
<1>3. QueueTypeOK'
  BY <1>0, <1>2 DEF QueueIs, QueueTypeOK, Links
<1>4. HoldersInv(s, f)'
  <2>1. Holder' = Holder
    BY DEF Holder
  <2>2. QED
    BY <2>1, <1>0, <1>1 DEF QueueIs, HoldersInv
<1>5. ValuesInv(s)'
  <2>1. 2..Len(s) \subseteq 1..Len(s) /\ 1 \in 1..Len(s)
    BY QueueTyped
  <2>2. QED
    BY <2>1, <1>0, <1>2 DEF QueueIs, ValuesInv
<1>6. QED
  BY <1>3, <1>4, <1>5 DEF QueueIs

(* Link: the holder becomes the last stored one and is accepted.           *)
LEMMA LinkKeeps ==
  ASSUME NEW s, NEW f, QueueIs(s, f), Link
  PROVE  QueueIs(Append(s, inHand), f)' /\ s[Len(s)] # inHand
<1>0. /\ pusher = "link" /\ pusher' = "move" /\ next' = [next EXCEPT ![s[Len(s)]] = inHand]
      /\ pushed' = pushed + 1
      /\ UNCHANGED <<value, storeTail, freeHead, inHand, storeHead, freeTail, popper,
                     popped, handedOut>>
  BY DEF Link, popVars, QueueIs, HoldersInv
<1>1. /\ OfPusher' = {} /\ OfPopper' = OfPopper /\ OfPusher = {inHand}
      /\ inHand \in Holder /\ inHand \notin Range(s) /\ inHand \notin Range(f)
      /\ inHand \notin OfPopper /\ next[inHand] = nullptr
  BY <1>0 DEF OfPusher, OfPopper, QueueIs, HoldersInv
<1>2. PICK h, t : h = inHand /\ t = Append(s, h)
  OBVIOUS
<1>3. /\ t \in Seq(Holder) /\ Len(t) = Len(s) + 1
      /\ Linked(next', t) /\ Distinct(t) /\ Range(t) = Range(s) \cup {h}
      /\ t[1] = s[1] /\ t[Len(s) + 1] = h
      /\ \A i \in 1..Len(s) : t[i] = s[i]
  <2>1. h \in Holder /\ h \notin Range(s) /\ next[h] = nullptr
    BY <1>1, <1>2
  <2>2. /\ Append(s, h) \in Seq(Holder) /\ Len(Append(s, h)) = Len(s) + 1
        /\ Linked([next EXCEPT ![s[Len(s)]] = h], Append(s, h))
        /\ Distinct(Append(s, h)) /\ Range(Append(s, h)) = Range(s) \cup {h}
        /\ Append(s, h)[1] = s[1] /\ Append(s, h)[Len(s) + 1] = h
        /\ \A i \in 1..Len(s) : Append(s, h)[i] = s[i]
    <3>1. PICK links : links = next
      OBVIOUS
    <3>2. s \in Seq(Holder) /\ Len(s) > 0 /\ Distinct(s)
      BY QueueTyped
    <3>3. links \in Links /\ Linked(links, s) /\ links[h] = nullptr
      BY <2>1, <3>1, QueueTyped
    <3>4. h \in Holder /\ h \notin Range(s)
      BY <2>1
    <3>5. /\ Linked([links EXCEPT ![s[Len(s)]] = h], Append(s, h))
          /\ Append(s, h) \in Seq(Holder) /\ Len(Append(s, h)) = Len(s) + 1
      BY ONLY <3>2, <3>3, <3>4, LinkedAppend
    <3>6. Distinct(Append(s, h)) /\ Range(Append(s, h)) = Range(s) \cup {h}
      BY ONLY <3>2, <3>3, <3>4, LinkedAppend
    <3>7. /\ Append(s, h)[1] = s[1] /\ Append(s, h)[Len(s) + 1] = h
          /\ \A i \in 1..Len(s) : Append(s, h)[i] = s[i]
      BY ONLY <3>2, <3>3, <3>4, LinkedAppend
    <3>8. QED
      BY <3>1, <3>5, <3>6, <3>7
  <2>3. next' = [next EXCEPT ![s[Len(s)]] = h]
    BY <1>0, <1>2
  <2>4. QED
    BY ONLY <2>2, <2>3, <1>2
<1>4. Linked(next', f)
  <2>1. s[Len(s)] \notin Range(f)
    BY QueueTyped DEF QueueIs, HoldersInv
  <2>2. QED
    BY <2>1, <1>0, QueueTyped, LinkedOther
<1>5. QueueTypeOK'
  <2>1. next' \in Links
    BY <1>0, <1>1, QueueTyped DEF Links
  <2>2. pushed' \in Nat
    BY <1>0, QueueTyped
  <2>3. QED
    BY <2>1, <2>2, <1>0 DEF QueueIs, QueueTypeOK, Links
<1>6. \A x \in OfPusher' \cup OfPopper' : next'[x] = nullptr
  <2>1. \A x \in OfPopper : x \in Holder /\ x # s[Len(s)] /\ next[x] = nullptr
    BY QueueTyped DEF QueueIs, HoldersInv
  <2>2. QED
    BY <2>1, <1>0, <1>1, QueueTyped DEF Links
<1>7. Len(t) + Len(f) + CountOf(OfPusher') + CountOf(OfPopper') = HolderCount
  <2>1. CountOf(OfPusher') = 0 /\ CountOf(OfPusher) = 1 /\ CountOf(OfPopper') = CountOf(OfPopper)
    BY <1>1 DEF CountOf
  <2>2. Len(s) + Len(f) + CountOf(OfPusher) + CountOf(OfPopper) = HolderCount
    BY DEF QueueIs, HoldersInv
  <2>3. CountOf(OfPopper) \in Nat
    BY DEF CountOf
  <2>4. QED
    BY <2>1, <2>2, <2>3, <1>3, QueueTyped
<1>8. HoldersInv(t, f)'
  <2>1. Len(t) > 0 /\ t[Len(t)] = h
    BY <1>3, QueueTyped
  <2>2. /\ (OfPusher' \cup OfPopper') \cap (Range(t) \cup Range(f)) = {}
        /\ Range(t) \cap Range(f) = {} /\ OfPusher' \cap OfPopper' = {}
        /\ Range(t) \cup Range(f) \cup OfPusher' \cup OfPopper' = Holder
    BY <1>1, <1>2, <1>3 DEF QueueIs, HoldersInv
  <2>3. /\ t[Len(t)] = IF pusher' = "move" THEN inHand' ELSE storeTail'
        /\ f[Len(f)] = IF popper' = "move" THEN popped' ELSE freeTail'
    BY <2>1, <1>0, <1>2 DEF QueueIs, HoldersInv
  <2>4. Holder' = Holder /\ HolderCount' = HolderCount
    BY DEF Holder
  <2>5. QED
    BY <2>1, <2>2, <2>3, <2>4, <1>0, <1>3, <1>4, <1>6, <1>7, QueueTyped DEF HoldersInv
<1>9. ValuesInv(t)'
  <2>0. ValuesInv(s) /\ Len(s) \in Nat /\ pushed \in Nat /\ 1 \in 1..Len(s) /\ Len(s) > 0
    BY QueueTyped DEF QueueIs
  <2>1. pushed' - Len(t) = pushed - Len(s) /\ Len(t) \in Nat
    BY <2>0, <1>0, <1>3
  <2>2. Len(t) <= pushed' + 1 /\ (Len(s) <= pushed => Len(t) <= pushed')
    BY <2>0, <1>0, <1>3 DEF ValuesInv
  <2>3. ASSUME NEW i \in 2..Len(t) PROVE value'[t[i]] = (pushed' - Len(t)) + i
    <3>1. CASE i = Len(s) + 1
      <4>1. value'[t[i]] = pushed + 1
        BY <3>1, <2>0, <1>0, <1>2, <1>3 DEF ValuesInv
      <4>2. (pushed - Len(s)) + i = pushed + 1
        BY <3>1, <2>0
      <4>3. QED
        BY <4>1, <4>2, <2>1
    <3>2. CASE i # Len(s) + 1
      <4>1. i \in 2..Len(s) /\ i \in 1..Len(s)
        BY <3>2, <2>0, <1>3
      <4>2. QED
        BY <4>1, <2>0, <2>1, <1>0, <1>3 DEF ValuesInv
    <3>3. QED
      BY <3>1, <3>2
  <2>4. pusher' # "link"
    BY <1>0
  <2>5. QED
    BY <2>0, <2>1, <2>2, <2>3, <2>4, <1>0, <1>3 DEF ValuesInv, Numbers
<1>10. QED
  <2>1. s[Len(s)] # inHand
    BY <1>1, QueueTyped
  <2>2. QueueIs(t, f)' /\ t = Append(s, inHand) /\ inHand' = inHand
    BY <1>0, <1>2, <1>5, <1>8, <1>9 DEF QueueIs
  <2>3. QED
    BY <2>1, <2>2

(* MoveStoreTail: the tail catches up; the store to next changes nothing.  *)
LEMMA MoveStoreTailKeeps ==
  ASSUME NEW s, NEW f, QueueIs(s, f), MoveStoreTail
  PROVE  QueueIs(s, f)' /\ next' = next
<1>0. /\ pusher = "move" /\ pusher' = "idle" /\ inHand = s[Len(s)] /\ storeTail' = s[Len(s)]
      /\ next' = [next EXCEPT ![s[Len(s)]] = nullptr]
      /\ UNCHANGED <<value, freeHead, pushed, storeHead, freeTail, popper, popped, handedOut>>
  BY DEF MoveStoreTail, popVars, QueueIs, HoldersInv
<1>1. next' = next
  <2>1. next[s[Len(s)]] = nullptr
    BY QueueTyped DEF Linked
  <2>2. QED
    BY <2>1, <1>0, QueueTyped DEF Links
<1>2. OfPusher' = OfPusher /\ OfPopper' = OfPopper
  BY <1>0 DEF OfPusher, OfPopper
<1>3. QueueTypeOK'
  BY <1>0, <1>1 DEF QueueIs, QueueTypeOK, Links
<1>4. HoldersInv(s, f)'
  <2>1. Holder' = Holder
    BY DEF Holder
  <2>2. QED
    BY <2>1, <1>0, <1>1, <1>2 DEF QueueIs, HoldersInv
<1>5. ValuesInv(s)'
  BY <1>0 DEF QueueIs, ValuesInv
<1>6. QED
  BY <1>1, <1>3, <1>4, <1>5 DEF QueueIs

(* Numbers are a sequence.                                                 *)
LEMMA NumbersSeq ==
  ASSUME NEW m \in Nat, NEW k \in Nat
  PROVE  /\ Numbers(m, k) \in Seq(Nat) /\ Len(Numbers(m, k)) = k
         /\ \A i \in 1..k : Numbers(m, k)[i] = m + i
<1>1. Numbers(m, k) \in [1..k -> Nat]
  BY DEF Numbers
<1>2. Numbers(m, k) \in Seq(Nat)
  <2>1. Seq(Nat) = UNION {[1..j -> Nat] : j \in Nat}
    BY SeqDef
  <2>2. QED
    BY <1>1, <2>1, Zenon
<1>3. Len(Numbers(m, k)) = k
  BY <1>1, <1>2, LenProperties
<1>4. QED
  BY <1>2, <1>3 DEF Numbers

(* Accepting one more element.                                             *)
LEMMA NumbersAppend ==
  ASSUME NEW m \in Nat, NEW k \in Nat
  PROVE  Numbers(m, k + 1) = Append(Numbers(m, k), m + k + 1)
<1>1. /\ Numbers(m, k) \in Seq(Nat) /\ Len(Numbers(m, k)) = k
      /\ \A i \in 1..k : Numbers(m, k)[i] = m + i
  BY NumbersSeq
<1>2. /\ Numbers(m, k + 1) \in Seq(Nat) /\ Len(Numbers(m, k + 1)) = k + 1
      /\ \A i \in 1..(k + 1) : Numbers(m, k + 1)[i] = m + i
  <2>1. k + 1 \in Nat
    OBVIOUS
  <2>2. QED
    BY <2>1, NumbersSeq
<1>3. /\ Append(Numbers(m, k), m + k + 1) \in Seq(Nat)
      /\ Len(Append(Numbers(m, k), m + k + 1)) = k + 1
      /\ \A i \in 1..k : Append(Numbers(m, k), m + k + 1)[i] = m + i
      /\ Append(Numbers(m, k), m + k + 1)[k + 1] = m + k + 1
  <2>1. m + k + 1 \in Nat
    OBVIOUS
  <2>2. QED
    BY <1>1, <2>1, AppendProperties
<1>4. \A i \in 1..(k + 1) : Numbers(m, k + 1)[i] = Append(Numbers(m, k), m + k + 1)[i]
  BY <1>2, <1>3
<1>5. QED
  BY <1>2, <1>3, <1>4, SeqEqual

(* Handing out the first k of k + l elements.                              *)
Firsts(s, k) == SubSeq(s, 1, k)
Rest(s, k) == SubSeq(s, k + 1, Len(s))
(* Numbers are split where the first k of them end.                        *)
LEMMA NumbersSplit ==
  ASSUME NEW m \in Nat, NEW k \in Nat, NEW l \in Nat
  PROVE  Firsts(Numbers(m, k + l), k) = Numbers(m, k) /\ Rest(Numbers(m, k + l), k) = Numbers(m + k, l)
<1>1. /\ Numbers(m, k + l) \in Seq(Nat) /\ Len(Numbers(m, k + l)) = k + l
      /\ \A i \in 1..(k + l) : Numbers(m, k + l)[i] = m + i
  <2>1. k + l \in Nat
    OBVIOUS
  <2>2. QED
    BY <2>1, NumbersSeq
<1>2. SubSeq(Numbers(m, k + l), 1, k) = [i \in 1..k |-> Numbers(m, k + l)[i]]
  BY <1>1
<1>3. SubSeq(Numbers(m, k + l), k + 1, k + l) = [i \in 1..l |-> Numbers(m, k + l)[i + k]]
  BY <1>1
<1>4. \A i \in 1..k : Numbers(m, k + l)[i] = m + i
  BY <1>1
<1>5. \A i \in 1..l : Numbers(m, k + l)[i + k] = (m + k) + i
  BY <1>1
<1>6. SubSeq(Numbers(m, k + l), 1, k) = Numbers(m, k)
  BY <1>2, <1>4 DEF Numbers
<1>7. SubSeq(Numbers(m, k + l), k + 1, k + l) = Numbers(m + k, l)
  BY <1>3, <1>5 DEF Numbers
<1>8. QED
  BY <1>1, <1>6, <1>7 DEF Firsts, Rest

(* Return hands out the value of the first holder, if it has one.          *)
LEMMA ReturnFirst ==
  ASSUME NEW s, NEW f, QueueIs(s, f), Return(value[s[1]])
  PROVE  handedOut' = Numbers(0, (pushed - Len(s)) + 1)
<1>0. ValuesInv(s) /\ Len(s) \in Nat /\ pushed \in Nat
  BY QueueTyped DEF QueueIs
<1>1. CASE value[s[1]] = Null /\ handedOut = Numbers(0, (pushed - Len(s)) + 1)
  BY <1>1 DEF Return
<1>2. CASE /\ value[s[1]] = (pushed - Len(s)) + 1 /\ Len(s) <= pushed
           /\ handedOut = Numbers(0, pushed - Len(s))
  <2>1. PICK k : k = pushed - Len(s)
    OBVIOUS
  <2>2. k \in Nat /\ k + 1 # Null /\ 0 + k + 1 = k + 1
    BY <1>0, <1>2, <2>1 DEF Null
  <2>3. handedOut' = Append(Numbers(0, k), k + 1)
    BY <1>2, <2>1, <2>2 DEF Return
  <2>4. Numbers(0, k + 1) = Append(Numbers(0, k), 0 + k + 1)
    BY <2>2, NumbersAppend
  <2>5. QED
    BY ONLY <2>1, <2>2, <2>3, <2>4
<1>3. QED
  BY <1>0, <1>1, <1>2 DEF ValuesInv

(* PopHolder: the first holder goes to the popper's hand, or it was the    *)
(* last one and its value is taken next.                                   *)
LEMMA PopHolderKeeps ==
  ASSUME NEW s, NEW f, QueueIs(s, f), PopHolder, next[s[1]] # nullptr
  PROVE  QueueIs(Tail(s), f)' /\ Return(value[s[1]]) /\ Len(s) > 1
<1> DEFINE t == Tail(s)
<1>0. /\ popper = "idle" /\ popper' = "give" /\ popped' = s[1]
      /\ storeHead' = next[s[1]] /\ next' = [next EXCEPT ![s[1]] = nullptr]
      /\ Return(value[s[1]])
      /\ UNCHANGED <<value, freeTail, storeTail, freeHead, pusher, inHand, pushed>>
  BY QueueTyped DEF PopHolder, pushVars
<1>1. Len(s) > 1
  <2>1. Len(s) # 1
    BY QueueTyped DEF Linked
  <2>2. PICK n \in Nat : n = Len(s)
    BY QueueTyped
  <2>3. n > 0 /\ n # 1
    BY <2>1, <2>2, QueueTyped
  <2>4. n > 1
    BY <2>3
  <2>5. QED
    BY <2>2, <2>4
<1>2. /\ t \in Seq(Holder) /\ Len(t) = Len(s) - 1
      /\ Linked(next', t) /\ Distinct(t) /\ s[1] \notin Range(t)
      /\ Range(s) = Range(t) \cup {s[1]}
      /\ t[1] = next[s[1]] /\ t[Len(s) - 1] = s[Len(s)]
      /\ \A i \in 1..(Len(s) - 1) : t[i] = s[i + 1]
  BY <1>0, <1>1, QueueTyped, LinkedTail
<1> HIDE DEF t
<1>3. s[1] \in Holder /\ s[1] \notin Range(f) /\ s[1] \notin OfPusher /\ OfPopper = {}
  BY <1>0, QueueTyped DEF QueueIs, HoldersInv, OfPopper
<1>4. Linked(next', f)
  BY <1>0, <1>3, QueueTyped, LinkedOther
<1>5. QueueTypeOK'
  BY <1>0, <1>3, QueueTyped DEF QueueIs, QueueTypeOK, Links
<1>6. OfPopper' = {s[1]} /\ OfPusher' = OfPusher
  BY <1>0 DEF OfPusher, OfPopper
<1>7. \A h \in OfPusher' \cup OfPopper' : next'[h] = nullptr
  <2>1. \A h \in OfPusher : h \in Holder /\ h # s[1] /\ next[h] = nullptr
    BY <1>3 DEF QueueIs, HoldersInv
  <2>2. QED
    BY <2>1, <1>0, <1>3, <1>6, QueueTyped DEF Links
<1>8. Len(t) + Len(f) + CountOf(OfPusher') + CountOf(OfPopper') = HolderCount
  <2>1. CountOf(OfPopper') = 1 /\ CountOf(OfPopper) = 0 /\ CountOf(OfPusher') = CountOf(OfPusher)
    BY <1>3, <1>6 DEF CountOf
  <2>2. Len(s) + Len(f) + CountOf(OfPusher) + CountOf(OfPopper) = HolderCount
    BY DEF QueueIs, HoldersInv
  <2>3. CountOf(OfPusher) \in Nat
    BY DEF CountOf
  <2>4. QED
    BY <2>1, <2>2, <2>3, <1>2, QueueTyped
<1>9. HoldersInv(t, f)'
  <2>1. Len(t) > 0 /\ t[Len(t)] = s[Len(s)]
    BY <1>1, <1>2, QueueTyped
  <2>2. /\ (OfPusher' \cup OfPopper') \cap (Range(t) \cup Range(f)) = {}
        /\ Range(t) \cap Range(f) = {} /\ OfPusher' \cap OfPopper' = {}
        /\ Range(t) \cup Range(f) \cup OfPusher' \cup OfPopper' = Holder
    BY <1>2, <1>3, <1>6 DEF QueueIs, HoldersInv
  <2>3. /\ t[Len(t)] = IF pusher' = "move" THEN inHand' ELSE storeTail'
        /\ f[Len(f)] = IF popper' = "move" THEN popped' ELSE freeTail'
    BY <2>1, <1>0 DEF QueueIs, HoldersInv
  <2>4. Holder' = Holder /\ HolderCount' = HolderCount
    BY DEF Holder
  <2>5. QED
    BY <2>1, <2>2, <2>3, <2>4, <1>0, <1>2, <1>4, <1>7, <1>8, QueueTyped DEF HoldersInv
<1>10. ValuesInv(t)'
  <2>0. ValuesInv(s) /\ Len(s) \in Nat /\ pushed \in Nat /\ Len(t) \in Nat
    BY <1>1, <1>2, QueueTyped DEF QueueIs
  <2>1. pushed' - Len(t) = (pushed - Len(s)) + 1 /\ Len(t) <= pushed'
    BY <2>0, <1>0, <1>2 DEF ValuesInv
  <2>2. ASSUME NEW i \in 1..Len(t) PROVE value'[t[i]] = (pushed' - Len(t)) + i
    <3>1. i + 1 \in 2..Len(s) /\ i \in 1..(Len(s) - 1)
      BY <2>0, <1>2
    <3>2. value[s[i + 1]] = (pushed - Len(s)) + (i + 1)
      BY <2>0, <3>1 DEF ValuesInv
    <3>3. ((pushed - Len(s)) + 1) + i = (pushed - Len(s)) + (i + 1)
      BY <2>0
    <3>4. QED
      BY <3>1, <3>2, <3>3, <2>1, <1>0, <1>2
  <2>3. 1 \in 1..Len(t) /\ 2..Len(t) \subseteq 1..Len(t) /\ Len(t) <= pushed' + 1
    BY <2>0, <2>1, <1>0, <1>1, <1>2
  <2>4. handedOut' = Numbers(0, (pushed - Len(s)) + 1)
    BY <1>0, ReturnFirst
  <2>5. pusher' = "link" => value'[inHand'] = pushed' + 1
    BY <2>0, <1>0 DEF ValuesInv
  <2>6. handedOut' = Numbers(0, pushed' - Len(t))
    BY <2>1, <2>4
  <2>7. QED
    BY <2>1, <2>2, <2>3, <2>5, <2>6 DEF ValuesInv, Numbers
<1>11. QED
  BY <1>0, <1>1, <1>5, <1>9, <1>10 DEF QueueIs, t

(* PopHolder when it sees no second holder.                                *)
LEMMA PopLastKeeps ==
  ASSUME NEW s, NEW f, QueueIs(s, f), PopHolder, next[s[1]] = nullptr
  PROVE  QueueIs(s, f)' /\ next' = next /\ handedOut' = handedOut
<1>0. /\ popper = "idle" /\ popper' = "last"
      /\ UNCHANGED <<next, value, storeHead, popped, handedOut, freeTail, storeTail, freeHead,
                     pusher, inHand, pushed>>
  BY QueueTyped DEF PopHolder, pushVars
<1>1. OfPusher' = OfPusher /\ OfPopper' = OfPopper
  BY <1>0 DEF OfPusher, OfPopper
<1>2. QueueTypeOK'
  BY <1>0 DEF QueueIs, QueueTypeOK, Links
<1>3. HoldersInv(s, f)'
  <2>1. Holder' = Holder
    BY DEF Holder
  <2>2. QED
    BY <2>1, <1>0, <1>1 DEF QueueIs, HoldersInv
<1>4. ValuesInv(s)'
  BY <1>0 DEF QueueIs, ValuesInv
<1>5. QED
  BY <1>0, <1>2, <1>3, <1>4 DEF QueueIs

(* TakeLast: the value of the first holder, which by now may have          *)
(* successors.                                                             *)
LEMMA TakeLastKeeps ==
  ASSUME NEW s, NEW f, QueueIs(s, f), TakeLast
  PROVE  QueueIs(s, f)' /\ Return(value[s[1]]) /\ value'[s[1]] = Null
<1>0. /\ popper = "last" /\ popper' = "idle" /\ Return(value[s[1]])
      /\ value' = [value EXCEPT ![s[1]] = Null]
      /\ UNCHANGED <<next, storeHead, popped, freeTail, storeTail, freeHead, pusher, inHand,
                     pushed>>
  BY QueueTyped DEF TakeLast, pushVars
<1>1. OfPusher' = OfPusher /\ OfPopper' = OfPopper
  BY <1>0 DEF OfPusher, OfPopper
<1>2. QueueTypeOK' /\ value'[s[1]] = Null
  <2>1. s[1] \in Holder
    BY QueueTyped
  <2>2. QED
    BY <2>1, <1>0, QueueTyped DEF QueueIs, QueueTypeOK, Links, Null
<1>3. HoldersInv(s, f)'
  <2>1. Holder' = Holder
    BY DEF Holder
  <2>2. QED
    BY <2>1, <1>0, <1>1 DEF QueueIs, HoldersInv
<1>4. ValuesInv(s)'
  <2>0. ValuesInv(s) /\ Len(s) \in Nat
    BY QueueTyped DEF QueueIs
  <2>1. \A i \in 2..Len(s) : value'[s[i]] = value[s[i]]
    <3>1. ASSUME NEW i \in 2..Len(s) PROVE s[i] \in Holder /\ s[i] # s[1]
      <4>1. i \in 1..Len(s) /\ 1 \in 1..Len(s) /\ i # 1
        BY <2>0
      <4>2. QED
        BY <4>1, QueueTyped, Members DEF Distinct
    <3>2. QED
      BY <3>1, <1>0, QueueTyped
  <2>2. pusher = "link" => value'[inHand] = value[inHand]
    <3>1. ASSUME pusher = "link" PROVE inHand \in Holder /\ inHand # s[1]
      BY <3>1, QueueTyped DEF QueueIs, HoldersInv, OfPusher
    <3>2. QED
      BY <3>1, <1>0, QueueTyped
  <2>3. handedOut' = Numbers(0, (pushed - Len(s)) + 1)
    BY <1>0, ReturnFirst
  <2>4. QED
    BY <2>0, <2>1, <2>2, <2>3, <1>0, <1>2 DEF ValuesInv
<1>5. QED
  BY <1>0, <1>2, <1>3, <1>4 DEF QueueIs

(* GiveBack: the holder becomes the last free one.                         *)
LEMMA GiveBackKeeps ==
  ASSUME NEW s, NEW f, QueueIs(s, f), GiveBack
  PROVE  QueueIs(s, Append(f, popped))'
<1>0. /\ popper = "give" /\ popper' = "move" /\ next' = [next EXCEPT ![f[Len(f)]] = popped]
      /\ UNCHANGED <<value, storeHead, freeTail, popped, handedOut, storeTail, freeHead, pusher,
                     inHand, pushed>>
  BY DEF GiveBack, pushVars, QueueIs, HoldersInv
<1>1. /\ OfPopper' = {} /\ OfPusher' = OfPusher /\ OfPopper = {popped}
      /\ popped \in Holder /\ popped \notin Range(s) /\ popped \notin Range(f)
      /\ popped \notin OfPusher /\ next[popped] = nullptr
  BY <1>0 DEF OfPusher, OfPopper, QueueIs, HoldersInv
<1>2. PICK h, t : h = popped /\ t = Append(f, h)
  OBVIOUS
<1>3. /\ t \in Seq(Holder) /\ Len(t) = Len(f) + 1
      /\ Linked(next', t) /\ Distinct(t) /\ Range(t) = Range(f) \cup {h}
      /\ t[1] = f[1] /\ t[Len(f) + 1] = h
  <2>1. h \in Holder /\ h \notin Range(f) /\ next[h] = nullptr
    BY <1>1, <1>2
  <2>2. /\ Append(f, h) \in Seq(Holder) /\ Len(Append(f, h)) = Len(f) + 1
        /\ Linked([next EXCEPT ![f[Len(f)]] = h], Append(f, h))
        /\ Distinct(Append(f, h)) /\ Range(Append(f, h)) = Range(f) \cup {h}
        /\ Append(f, h)[1] = f[1] /\ Append(f, h)[Len(f) + 1] = h
    <3>1. PICK links : links = next
      OBVIOUS
    <3>2. f \in Seq(Holder) /\ Len(f) > 0 /\ Distinct(f)
      BY QueueTyped
    <3>3. links \in Links /\ Linked(links, f) /\ links[h] = nullptr
      BY <2>1, <3>1, QueueTyped
    <3>4. h \in Holder /\ h \notin Range(f)
      BY <2>1
    <3>5. /\ Linked([links EXCEPT ![f[Len(f)]] = h], Append(f, h))
          /\ Append(f, h) \in Seq(Holder) /\ Len(Append(f, h)) = Len(f) + 1
      BY ONLY <3>2, <3>3, <3>4, LinkedAppend
    <3>6. Distinct(Append(f, h)) /\ Range(Append(f, h)) = Range(f) \cup {h}
      BY ONLY <3>2, <3>3, <3>4, LinkedAppend
    <3>7. /\ Append(f, h)[1] = f[1] /\ Append(f, h)[Len(f) + 1] = h
          /\ \A i \in 1..Len(f) : Append(f, h)[i] = f[i]
      BY ONLY <3>2, <3>3, <3>4, LinkedAppend
    <3>8. QED
      BY <3>1, <3>5, <3>6, <3>7
  <2>3. next' = [next EXCEPT ![f[Len(f)]] = h]
    BY <1>0, <1>2
  <2>4. QED
    BY ONLY <2>2, <2>3, <1>2
<1>4. Linked(next', s)
  <2>1. f[Len(f)] \notin Range(s)
    BY QueueTyped DEF QueueIs, HoldersInv
  <2>2. QED
    BY <2>1, <1>0, QueueTyped, LinkedOther
<1>5. QueueTypeOK'
  <2>1. next' \in Links
    BY <1>0, <1>1, QueueTyped DEF Links
  <2>2. QED
    BY <2>1, <1>0 DEF QueueIs, QueueTypeOK, Links
<1>6. \A x \in OfPusher' \cup OfPopper' : next'[x] = nullptr
  <2>1. \A x \in OfPusher : x \in Holder /\ x # f[Len(f)] /\ next[x] = nullptr
    BY QueueTyped DEF QueueIs, HoldersInv
  <2>2. QED
    BY <2>1, <1>0, <1>1, QueueTyped DEF Links
<1>7. Len(s) + Len(t) + CountOf(OfPusher') + CountOf(OfPopper') = HolderCount
  <2>1. CountOf(OfPopper') = 0 /\ CountOf(OfPopper) = 1 /\ CountOf(OfPusher') = CountOf(OfPusher)
    BY <1>1 DEF CountOf
  <2>2. Len(s) + Len(f) + CountOf(OfPusher) + CountOf(OfPopper) = HolderCount
    BY DEF QueueIs, HoldersInv
  <2>3. CountOf(OfPusher) \in Nat
    BY DEF CountOf
  <2>4. QED
    BY <2>1, <2>2, <2>3, <1>3, QueueTyped
<1>8. HoldersInv(s, t)'
  <2>1. Len(t) > 0 /\ t[Len(t)] = h
    BY <1>3, QueueTyped
  <2>2. /\ (OfPusher' \cup OfPopper') \cap (Range(s) \cup Range(t)) = {}
        /\ Range(s) \cap Range(t) = {} /\ OfPusher' \cap OfPopper' = {}
        /\ Range(s) \cup Range(t) \cup OfPusher' \cup OfPopper' = Holder
    BY <1>1, <1>2, <1>3 DEF QueueIs, HoldersInv
  <2>3. /\ s[Len(s)] = IF pusher' = "move" THEN inHand' ELSE storeTail'
        /\ t[Len(t)] = IF popper' = "move" THEN popped' ELSE freeTail'
    BY <2>1, <1>0, <1>2 DEF QueueIs, HoldersInv
  <2>4. Holder' = Holder /\ HolderCount' = HolderCount
    BY DEF Holder
  <2>5. QED
    BY <2>1, <2>2, <2>3, <2>4, <1>0, <1>3, <1>4, <1>6, <1>7, QueueTyped DEF HoldersInv
<1>9. ValuesInv(s)'
  BY <1>0 DEF QueueIs, ValuesInv
<1>10. QED
  <2>1. QueueIs(s, t)' /\ t = Append(f, popped) /\ popped' = popped
    BY <1>0, <1>2, <1>5, <1>8, <1>9 DEF QueueIs
  <2>2. QED
    BY <2>1

(* MoveFreeTail: as MoveStoreTail, for the free holders.                   *)
LEMMA MoveFreeTailKeeps ==
  ASSUME NEW s, NEW f, QueueIs(s, f), MoveFreeTail
  PROVE  QueueIs(s, f)' /\ next' = next
<1>0. /\ popper = "move" /\ popper' = "idle" /\ popped = f[Len(f)] /\ freeTail' = f[Len(f)]
      /\ next' = [next EXCEPT ![f[Len(f)]] = nullptr]
      /\ UNCHANGED <<value, storeHead, handedOut, storeTail, freeHead, pusher, inHand, pushed>>
  BY DEF MoveFreeTail, pushVars, QueueIs, HoldersInv
<1>1. next' = next
  <2>1. next[f[Len(f)]] = nullptr
    BY QueueTyped DEF Linked
  <2>2. QED
    BY <2>1, <1>0, QueueTyped DEF Links
<1>2. OfPusher' = OfPusher /\ OfPopper' = OfPopper
  BY <1>0 DEF OfPusher, OfPopper
<1>3. QueueTypeOK'
  BY <1>0, <1>1 DEF QueueIs, QueueTypeOK, Links
<1>4. HoldersInv(s, f)'
  <2>1. Holder' = Holder
    BY DEF Holder
  <2>2. QED
    BY <2>1, <1>0, <1>1, <1>2 DEF QueueIs, HoldersInv
<1>5. ValuesInv(s)'
  BY <1>0 DEF QueueIs, ValuesInv
<1>6. QED
  BY <1>1, <1>3, <1>4, <1>5 DEF QueueIs

(* The holders found after a step are those the step leaves.               *)
LEMMA NextChains ==
  ASSUME NEW s, NEW f, QueueIs(s, f)'
  PROVE  QueueInv'
<1>1. /\ s \in Seq(Holder) /\ f \in Seq(Holder) /\ Len(s) > 0 /\ Len(f) > 0
      /\ Linked(next', s) /\ Linked(next', f) /\ storeHead' = s[1] /\ freeHead' = f[1]
  BY DEF QueueIs, HoldersInv, Holder
<1>2. Len(s) \in Nat /\ Len(f) \in Nat
  BY <1>1, Members
<1>3. Len(s) \in 1..HolderCount /\ Len(f) \in 1..HolderCount
  <2>1. CountOf(OfPusher') \in Nat /\ CountOf(OfPopper') \in Nat
    BY DEF CountOf
  <2>2. Len(s) + Len(f) + CountOf(OfPusher') + CountOf(OfPopper') = HolderCount
    BY DEF QueueIs, HoldersInv, CountOf
  <2>3. QED
    BY <1>1, <1>2, <2>1, <2>2, HolderCountAssumption
<1>4. Chain(next', storeHead') = s /\ Chain(next', freeHead') = f
  <2>1. PICK links : links = next'
    OBVIOUS
  <2>2. links \in Links
    BY <2>1 DEF QueueIs, QueueTypeOK, Links, Holder
  <2>3. Chain(links, s[1]) = s /\ Chain(links, f[1]) = f
    BY <1>1, <1>3, <2>1, <2>2, ChainIs
  <2>4. QED
    BY <1>1, <2>1, <2>3
<1>5. QED
  BY <1>4 DEF QueueInv, QueueIs, HoldersInv, ValuesInv, Chain

(* Every step of the two threads leaves two such chains.                   *)
LEMMA QueueStep ==
  ASSUME QueueInv, [QueueNext]_queueVars
  PROVE  QueueInv'
<1>1. PICK s, f : s = Chain(next, storeHead) /\ f = Chain(next, freeHead)
  OBVIOUS
<1>2. QueueIs(s, f)
  BY <1>1 DEF QueueInv
<1>3. CASE TakeFree
  BY <1>2, <1>3, TakeFreeKeeps, NextChains
<1>4. CASE Fill
  BY <1>2, <1>4, FillKeeps, NextChains
<1>5. CASE Link
  <2>1. QueueIs(Append(s, inHand), f)'
    BY <1>2, <1>5, LinkKeeps
  <2>2. PICK t : t = Append(s, inHand')
    OBVIOUS
  <2>3. QueueIs(t, f)'
    BY <2>1, <2>2
  <2>4. QED
    BY <2>3, NextChains
<1>6. CASE MoveStoreTail
  BY <1>2, <1>6, MoveStoreTailKeeps, NextChains
<1>7. CASE PopHolder
  <2>1. CASE next[s[1]] = nullptr
    BY <1>2, <1>7, <2>1, PopLastKeeps, NextChains
  <2>2. CASE next[s[1]] # nullptr
    BY <1>2, <1>7, <2>2, PopHolderKeeps, NextChains
  <2>3. QED
    BY <2>1, <2>2
<1>8. CASE TakeLast
  BY <1>2, <1>8, TakeLastKeeps, NextChains
<1>9. CASE GiveBack
  <2>1. QueueIs(s, Append(f, popped))'
    BY <1>2, <1>9, GiveBackKeeps
  <2>2. PICK t : t = Append(f, popped')
    OBVIOUS
  <2>3. QueueIs(s, t)'
    BY <2>1, <2>2
  <2>4. QED
    BY <2>3, NextChains
<1>10. CASE MoveFreeTail
  BY <1>2, <1>10, MoveFreeTailKeeps, NextChains
<1>11. CASE UNCHANGED queueVars
  <2>1. UNCHANGED <<next, value, storeHead, storeTail, freeHead, freeTail, pusher, inHand,
                    popper, popped, pushed, handedOut>>
    BY <1>11 DEF queueVars, pushVars, popVars
  <2>2. QueueIs(s, f)'
    BY <1>2, <2>1 DEF QueueIs, QueueTypeOK, HoldersInv, ValuesInv, OfPusher, OfPopper, Links,
                      Holder
  <2>3. QED
    BY <2>2, NextChains
<1>12. QED
  BY <1>3, <1>4, <1>5, <1>6, <1>7, <1>8, <1>9, <1>10, <1>11 DEF QueueNext, PushStep, PopStep

(* At the start one empty holder is stored and the others are free.        *)
LEMMA QueueStart == QueueInit => QueueInv
<1> SUFFICES ASSUME QueueInit PROVE QueueInv
  OBVIOUS
<1>0. HolderCount \in Nat /\ HolderCount >= 2
  BY HolderCountAssumption
<1>1. PICK s, f : s = <<1>> /\ f = [i \in 1..(HolderCount - 1) |-> i + 1]
  OBVIOUS
<1>2. /\ s \in Seq(Holder) /\ Len(s) = 1 /\ s[1] = 1 /\ Distinct(s) /\ Range(s) = {1}
  BY <1>0, <1>1 DEF Holder, Distinct, Range
<1>3. /\ f \in Seq(Holder) /\ Len(f) = HolderCount - 1
      /\ \A i \in 1..(HolderCount - 1) : f[i] = i + 1
  <2>1. f \in [1..(HolderCount - 1) -> Holder] /\ HolderCount - 1 \in Nat
    BY <1>0, <1>1 DEF Holder
  <2>2. Seq(Holder) = UNION {[1..j -> Holder] : j \in Nat}
    BY SeqDef
  <2>3. f \in Seq(Holder)
    BY <2>1, <2>2, Zenon
  <2>4. Len(f) = HolderCount - 1
    BY <2>1, <2>3, LenProperties
  <2>5. QED
    BY <2>3, <2>4, <1>1
<1>4. Distinct(f)
  BY <1>0, <1>3 DEF Distinct
<1>5. Range(f) = 2..HolderCount
  <2>1. \A x \in 2..HolderCount : x - 1 \in 1..(HolderCount - 1) /\ (x - 1) + 1 = x
    BY <1>0
  <2>2. \A i \in 1..(HolderCount - 1) : i + 1 \in 2..HolderCount
    BY <1>0
  <2>3. Range(f) = {f[i] : i \in 1..(HolderCount - 1)}
    BY <1>3, Members
  <2>4. QED
    BY <1>3, <2>1, <2>2, <2>3
<1>6. QueueTypeOK
  BY <1>0 DEF QueueInit, QueueTypeOK, Links, Holder, nullptr, Null
<1>7. Linked(next, s) /\ Linked(next, f)
  <2>1. Linked(next, s)
    BY <1>0, <1>2 DEF Linked, QueueInit, Holder, nullptr
  <2>2. ASSUME NEW i \in 1..(Len(f) - 1) PROVE next[f[i]] = f[i + 1]
    <3>1. f[i] = i + 1 /\ f[i + 1] = i + 2 /\ i + 1 \in Holder /\ i + 1 \notin {1, HolderCount}
      BY <1>0, <1>3 DEF Holder
    <3>2. next[i + 1] = (i + 1) + 1
      BY <3>1 DEF QueueInit
    <3>3. QED
      BY <3>1, <3>2, <1>0, <1>3
  <2>3. f[Len(f)] = HolderCount
    BY <1>0, <1>3
  <2>4. next[HolderCount] = nullptr
    BY <1>0 DEF QueueInit, Holder
  <2>5. QED
    BY <2>1, <2>2, <2>3, <2>4 DEF Linked
<1>8. HoldersInv(s, f)
  <2>1. OfPusher = {} /\ OfPopper = {} /\ CountOf(OfPusher) = 0 /\ CountOf(OfPopper) = 0
    BY DEF QueueInit, OfPusher, OfPopper, CountOf
  <2>2. Range(s) \cap Range(f) = {} /\ Range(s) \cup Range(f) = Holder
    BY <1>0, <1>2, <1>5 DEF Holder
  <2>3. storeHead = s[1] /\ freeHead = f[1] /\ s[Len(s)] = storeTail /\ f[Len(f)] = freeTail
    BY <1>0, <1>2, <1>3 DEF QueueInit
  <2>4. pusher = "idle" /\ popper = "idle"
    BY DEF QueueInit
  <2>5. Len(s) > 0 /\ Len(f) > 0 /\ Len(s) + Len(f) + 0 + 0 = HolderCount
    BY <1>0, <1>2, <1>3
  <2>6. QED
    BY <2>1, <2>2, <2>3, <2>4, <2>5, <1>2, <1>3, <1>4, <1>7 DEF HoldersInv
<1>9. ValuesInv(s)
  <2>1. pushed = 0 /\ handedOut = <<>> /\ pusher = "idle" /\ value[1] = Null
    BY <1>0 DEF QueueInit, Holder
  <2>2. Numbers(0, (pushed - Len(s)) + 1) = <<>>
    <3>1. (pushed - Len(s)) + 1 = 0
      BY <1>2, <2>1
    <3>2. Numbers(0, 0) \in Seq(Nat) /\ Len(Numbers(0, 0)) = 0
      BY NumbersSeq
    <3>3. Numbers(0, 0) = <<>>
      BY <3>2, EmptySeq
    <3>4. QED
      BY <3>1, <3>3
  <2>3. QED
    BY <1>2, <2>1, <2>2 DEF ValuesInv
<1>10. Len(s) \in 1..HolderCount /\ Len(f) \in 1..HolderCount
  BY <1>0, <1>2, <1>3
<1>11. storeHead = s[1] /\ freeHead = f[1]
  BY <1>8 DEF HoldersInv
<1>12. Chain(next, storeHead) = s /\ Chain(next, freeHead) = f
  <2>1. next \in Links
    BY HolderCountAssumption DEF QueueInit, Links, Holder, nullptr
  <2>2. QED
    BY <1>2, <1>3, <1>7, <1>10, <1>11, <2>1, ChainIs
<1>13. QED
  BY <1>6, <1>8, <1>9, <1>12 DEF QueueInv, QueueIs

(* The stored holders and the free ones are two chains without a common    *)
(* holder, whichever stores are still to come, and the stored values are   *)
(* the last numbers accepted.                                              *)
THEOREM QueueInvariant == QueueSpec => []QueueInv
<1>1. QueueInv /\ [QueueNext]_queueVars => QueueInv'
  BY QueueStep
<1>2. QED
  BY <1>1, QueueStart, PTL DEF QueueSpec

(* The values along a chain, and those of them that are there.             *)
ValuesOf(s) == [i \in DOMAIN s |-> value[s[i]]]
Present(w) == IF w[1] = Null THEN Tail(w) ELSE w

(* Stored is what the chain of the stored holders holds.                   *)
LEMMA StoredIs ==
  ASSUME NEW s, NEW f, QueueIs(s, f)
  PROVE  /\ Stored = Present(ValuesOf(s)) /\ ValuesOf(s) \in Seq(Nat)
         /\ Len(ValuesOf(s)) = Len(s) /\ \A i \in 1..Len(s) : ValuesOf(s)[i] = value[s[i]]
<1>1. Stored = Present(ValuesOf(s))
  <2>1. Chain(next, storeHead) = s
    BY ChainsAre
  <2>2. QED
    BY <2>1 DEF Stored, Present, ValuesOf
<1>2. DOMAIN s = 1..Len(s) /\ Len(s) \in Nat /\ \A i \in 1..Len(s) : value[s[i]] \in Nat
  BY QueueTyped, Members
<1>3. ValuesOf(s) \in [1..Len(s) -> Nat]
  BY <1>2 DEF ValuesOf
<1>4. ValuesOf(s) \in Seq(Nat)
  <2>1. Seq(Nat) = UNION {[1..j -> Nat] : j \in Nat}
    BY SeqDef
  <2>2. QED
    BY <1>2, <1>3, <2>1, Zenon
<1>5. Len(ValuesOf(s)) = Len(s)
  BY <1>2, <1>3, <1>4, LenProperties
<1>6. QED
  BY <1>1, <1>2, <1>4, <1>5 DEF ValuesOf

(* At most the first value is missing.                                     *)
LEMMA StoredLength ==
  ASSUME NEW s, NEW f, QueueIs(s, f)
  PROVE  Len(Stored) \in Nat /\ Len(Stored) >= Len(s) - 1
<1>1. PICK w : w = ValuesOf(s)
  OBVIOUS
<1>2. Stored = Present(w) /\ w \in Seq(Nat) /\ Len(w) = Len(s) /\ Len(s) \in Nat /\ Len(s) > 0
  BY <1>1, StoredIs, QueueTyped
<1>3. Len(Tail(w)) = Len(w) - 1
  BY <1>2, TailFacts
<1>4. QED
  BY <1>2, <1>3 DEF Present

(* The holders are all in one of the four places, each once.               *)
LEMMA AllHeld == QueueInv => HoldersConserved
<1> SUFFICES ASSUME QueueInv PROVE HoldersConserved
  OBVIOUS
<1> DEFINE held == (IF pusher \in {"fill", "link"} THEN <<inHand>> ELSE <<>>)
                   \o (IF popper = "give" THEN <<popped>> ELSE <<>>)
<1>1. PICK s, f : s = Chain(next, storeHead) /\ f = Chain(next, freeHead)
  OBVIOUS
<1>2. QueueIs(s, f)
  BY <1>1 DEF QueueInv
<1>3. /\ s \in Seq(Holder) /\ f \in Seq(Holder) /\ Len(s) \in Nat /\ Len(f) \in Nat
      /\ Range(s) \cup Range(f) \cup OfPusher \cup OfPopper = Holder
      /\ Len(s) + Len(f) + CountOf(OfPusher) + CountOf(OfPopper) = HolderCount
  BY <1>2, QueueTyped DEF QueueIs, HoldersInv
<1>4. /\ held \in Seq(Holder) /\ Range(held) = OfPusher \cup OfPopper
      /\ Len(held) = CountOf(OfPusher) + CountOf(OfPopper)
  <2>1. PICK a, b : /\ a = IF pusher \in {"fill", "link"} THEN <<inHand>> ELSE <<>>
                    /\ b = IF popper = "give" THEN <<popped>> ELSE <<>>
    OBVIOUS
  <2>2. a \in Seq(Holder) /\ Range(a) = OfPusher /\ Len(a) = CountOf(OfPusher)
    BY <1>3, <2>1 DEF OfPusher, CountOf, Range
  <2>3. b \in Seq(Holder) /\ Range(b) = OfPopper /\ Len(b) = CountOf(OfPopper)
    BY <1>3, <2>1 DEF OfPopper, CountOf, Range
  <2>4. a \o b \in Seq(Holder) /\ Range(a \o b) = Range(a) \cup Range(b)
    BY <2>2, <2>3, ConcatProperties, RangeConcatenation
  <2>5. Len(a \o b) = Len(a) + Len(b)
    BY <2>2, <2>3, ConcatProperties
  <2>6. QED
    BY <2>1, <2>2, <2>3, <2>4, <2>5
<1> HIDE DEF held
<1>5. /\ s \o f \in Seq(Holder) /\ Range(s \o f) = Range(s) \cup Range(f)
      /\ Len(s \o f) = Len(s) + Len(f)
  BY <1>3, ConcatProperties, RangeConcatenation
<1>6. /\ Range((s \o f) \o held) = Range(s \o f) \cup Range(held)
      /\ Len((s \o f) \o held) = Len(s \o f) + Len(held)
  <2>1. PICK a, b : a = s \o f /\ b = held
    OBVIOUS
  <2>2. a \in Seq(Holder) /\ b \in Seq(Holder)
    BY <1>4, <1>5, <2>1
  <2>3. Len(a \o b) = Len(a) + Len(b)
    BY ONLY <2>2, ConcatProperties
  <2>4. Range(a \o b) = Range(a) \cup Range(b)
    BY ONLY <2>2, RangeConcatenation
  <2>5. QED
    BY <2>1, <2>3, <2>4
<1>7. Len((s \o f) \o held) = HolderCount /\ Range((s \o f) \o held) = Holder
  <2>1. CountOf(OfPusher) \in Nat /\ CountOf(OfPopper) \in Nat
    BY DEF CountOf
  <2>2. Len((s \o f) \o held) = HolderCount
    BY <2>1, <1>3, <1>4, <1>5, <1>6
  <2>3. QED
    BY <2>2, <1>3, <1>4, <1>5, <1>6
<1>8. ASSUME pusher = "idle", next[freeHead] = nullptr
      PROVE  Len(Stored) + Len(held) >= HolderCount - 2
  <2>1. OfPusher = {} /\ CountOf(OfPusher) = 0 /\ CountOf(OfPopper) \in Nat
    BY <1>8 DEF OfPusher, CountOf
  <2>2. Len(f) = 1
    <3>1. SUFFICES ASSUME Len(f) # 1 PROVE FALSE
      OBVIOUS
    <3>2. f \in Seq(Holder) /\ Linked(next, f) /\ freeHead = f[1] /\ nullptr \notin Holder
      BY <1>2, QueueTyped
    <3>3. PICK n \in Nat : n = Len(f)
      BY <1>3
    <3>4. n > 0 /\ n # 1
      BY <1>2, <3>1, <3>3, QueueTyped
    <3>5. 1 \in 1..(n - 1) /\ 1 + 1 \in 1..n
      BY <3>4
    <3>6. next[f[1]] = f[1 + 1] /\ f[1 + 1] \in Holder
      BY <3>2, <3>3, <3>5, Members DEF Linked
    <3>7. QED
      BY <1>8, <3>2, <3>6
  <2>3. Len(Stored) \in Nat /\ Len(Stored) >= Len(s) - 1
    BY <1>2, StoredLength
  <2>4. Len(held) = CountOf(OfPopper) /\ Len(s) + 1 + CountOf(OfPopper) = HolderCount
    BY <2>1, <2>2, <1>3, <1>4
  <2>5. QED
    BY <2>1, <2>3, <2>4, <1>3, HolderCountAssumption
<1>9. QED
  BY <1>1, <1>7, <1>8 DEF HoldersConserved, held

(* No holder is lost or doubled, and a Push is refused only by a queue     *)
(* that is as full as the model says, for every number of holders.         *)
THEOREM HoldersAreConserved == QueueSpec => []HoldersConserved
<1>1. QED
  BY QueueInvariant, AllHeld, PTL
-----------------------------------------------------------------------------
(* The queue implements a FIFO.                                            *)

(* What is stored is what was accepted and not handed out.                 *)
StoredNumbered ==
  /\ pushed \in Nat /\ handedOut \in Seq(Nat)
  /\ \E n \in 0..pushed : handedOut = Numbers(0, n) /\ Stored = Numbers(n, pushed - n)

(* So it is whenever the chains are as they should be.                     *)
LEMMA StoredAre == QueueInv => StoredNumbered
<1> SUFFICES ASSUME QueueInv PROVE StoredNumbered
  OBVIOUS
<1>1. PICK s, f : s = Chain(next, storeHead) /\ f = Chain(next, freeHead)
  OBVIOUS
<1>2. QueueIs(s, f)
  BY <1>1 DEF QueueInv
<1>3. PICK w, l : w = ValuesOf(s) /\ l = Len(s)
  OBVIOUS
<1>4. /\ Stored = Present(w) /\ w \in Seq(Nat) /\ Len(w) = l
      /\ \A i \in 1..l : w[i] = value[s[i]]
      /\ l \in Nat /\ l > 0 /\ pushed \in Nat
  BY <1>2, <1>3, StoredIs, QueueTyped
<1>5. /\ l <= pushed + 1
      /\ \A i \in 2..l : value[s[i]] = (pushed - l) + i
      /\ \/ value[s[1]] = Null /\ handedOut = Numbers(0, (pushed - l) + 1)
         \/ /\ value[s[1]] = (pushed - l) + 1 /\ l <= pushed
            /\ handedOut = Numbers(0, pushed - l)
  BY <1>2, <1>3 DEF QueueIs, ValuesInv
<1>6. 1 \in 1..l /\ \A i \in 2..l : i \in 1..l
  BY <1>4
<1>7. CASE value[s[1]] = Null /\ handedOut = Numbers(0, (pushed - l) + 1)
  <2>1. PICK n : n = (pushed - l) + 1
    OBVIOUS
  <2>2. n \in 0..pushed /\ n \in Nat /\ pushed - n = l - 1 /\ l - 1 \in Nat
    BY <1>4, <1>5, <2>1
  <2>3. /\ Tail(w) \in Seq(Nat) /\ Len(Tail(w)) = l - 1
        /\ \A i \in 1..(l - 1) : Tail(w)[i] = w[i + 1]
    BY <1>4, TailFacts
  <2>4. /\ Numbers(n, l - 1) \in Seq(Nat) /\ Len(Numbers(n, l - 1)) = l - 1
        /\ \A i \in 1..(l - 1) : Numbers(n, l - 1)[i] = n + i
    BY <2>2, NumbersSeq
  <2>5. \A i \in 1..(l - 1) : Tail(w)[i] = Numbers(n, l - 1)[i]
    <3>1. ASSUME NEW i \in 1..(l - 1) PROVE Tail(w)[i] = Numbers(n, l - 1)[i]
      <4>1. i + 1 \in 2..l /\ (pushed - l) + (i + 1) = n + i
        BY <1>4, <2>1
      <4>2. w[i + 1] = (pushed - l) + (i + 1)
        BY <1>4, <1>5, <1>6, <4>1
      <4>3. QED
        BY <2>3, <2>4, <4>1, <4>2
    <3>2. QED
      BY <3>1
  <2>6. Tail(w) = Numbers(n, l - 1)
    BY <2>3, <2>4, <2>5, SeqEqual
  <2>7. Stored = Tail(w)
    BY <1>4, <1>6, <1>7 DEF Present
  <2>8. Stored = Numbers(n, pushed - n) /\ handedOut = Numbers(0, n)
    BY <1>7, <2>1, <2>2, <2>6, <2>7
  <2>9. handedOut \in Seq(Nat)
    BY <2>2, <2>8, NumbersSeq
  <2>10. QED
    BY <1>4, <2>2, <2>8, <2>9 DEF StoredNumbered
<1>8. CASE /\ value[s[1]] = (pushed - l) + 1 /\ l <= pushed
           /\ handedOut = Numbers(0, pushed - l)
  <2>1. PICK n : n = pushed - l
    OBVIOUS
  <2>2. n \in 0..pushed /\ n \in Nat /\ pushed - n = l /\ n + 1 # Null
    BY <1>4, <1>8, <2>1 DEF Null
  <2>3. /\ Numbers(n, l) \in Seq(Nat) /\ Len(Numbers(n, l)) = l
        /\ \A i \in 1..l : Numbers(n, l)[i] = n + i
    BY <1>4, <2>2, NumbersSeq
  <2>4. \A i \in 1..l : w[i] = n + i
    <3>1. ASSUME NEW i \in 1..l PROVE w[i] = n + i
      <4>1. i = 1 \/ i \in 2..l
        BY <1>4
      <4>2. QED
        BY <1>4, <1>5, <1>8, <2>1, <4>1
    <3>2. QED
      BY <3>1
  <2>5. w = Numbers(n, l)
    BY <1>4, <2>3, <2>4, SeqEqual
  <2>6. Stored = w
    BY <1>4, <1>6, <2>2, <2>4 DEF Present
  <2>7. Stored = Numbers(n, pushed - n) /\ handedOut = Numbers(0, n)
    BY <1>8, <2>1, <2>2, <2>5, <2>6
  <2>8. handedOut \in Seq(Nat)
    BY <2>2, <2>7, NumbersSeq
  <2>9. QED
    BY <1>4, <2>2, <2>7, <2>8 DEF StoredNumbered
<1>9. QED
  BY <1>5, <1>7, <1>8

(* A step accepts an element, hands one out or does neither.               *)
LEMMA QueueEffects ==
  ASSUME [QueueNext]_queueVars
  PROVE  \/ pushed' = pushed + 1 /\ handedOut' = handedOut
         \/ pushed' = pushed /\ \E v : Return(v)
<1> DEFINE Quiet == pushed' = pushed /\ handedOut' = handedOut
<1>1. Quiet => \E v : Return(v)
  BY DEF Return
<1>2. CASE Link
  BY <1>2 DEF Link, popVars
<1>3. CASE TakeLast
  BY <1>3 DEF TakeLast, pushVars
<1>4. CASE PopHolder
  <2>1. pushed' = pushed /\ (handedOut' = handedOut \/ Return(value[storeHead]))
    BY <1>4 DEF PopHolder, pushVars
  <2>2. QED
    BY <1>1, <2>1
<1>5. CASE TakeFree \/ Fill \/ MoveStoreTail \/ GiveBack \/ MoveFreeTail \/ UNCHANGED queueVars
  <2>1. Quiet
    BY <1>5 DEF TakeFree, Fill, MoveStoreTail, GiveBack, MoveFreeTail, queueVars, pushVars,
                popVars
  <2>2. QED
    BY <1>1, <2>1
<1>6. QED
  BY <1>2, <1>3, <1>4, <1>5 DEF QueueNext, PushStep, PopStep

(* As steps of the FIFO: Link is a push, and a value that is handed out is *)
(* taken from the front.                                                   *)
LEMMA QueueSteps ==
  StoredNumbered /\ StoredNumbered' /\ [QueueNext]_queueVars
    => [Holders!Push \/ Holders!Take]_<<Stored, handedOut>>
<1> SUFFICES ASSUME StoredNumbered, StoredNumbered', [QueueNext]_queueVars
             PROVE  Holders!Push \/ Holders!Take \/ UNCHANGED <<Stored, handedOut>>
  OBVIOUS
<1>1. PICK n \in 0..pushed : handedOut = Numbers(0, n) /\ Stored = Numbers(n, pushed - n)
  BY DEF StoredNumbered
<1>p. PICK p : p = pushed'
  OBVIOUS
<1>2. PICK m \in 0..p : handedOut' = Numbers(0, m) /\ Stored' = Numbers(m, p - m)
  BY <1>p DEF StoredNumbered, Numbers
<1>3. pushed \in Nat /\ p \in Nat /\ n \in Nat /\ m \in Nat /\ pushed - n \in Nat /\ p - m \in Nat
  <2>1. pushed \in Nat /\ p \in Nat
    BY <1>p DEF StoredNumbered
  <2>2. n \in 0..pushed /\ m \in 0..p
    OBVIOUS
  <2>3. QED
    BY ONLY <2>1, <2>2
<1>4. Len(handedOut) = n /\ Len(handedOut') = m /\ Len(Stored) = pushed - n
  <2>1. Len(Numbers(0, n)) = n /\ Len(Numbers(0, m)) = m /\ Len(Numbers(n, pushed - n)) = pushed - n
    BY <1>3, NumbersSeq
  <2>2. QED
    BY <1>1, <1>2, <2>1
<1>5. CASE pushed' = pushed + 1 /\ handedOut' = handedOut
  <2>1. m = n /\ p - m = (pushed - n) + 1 /\ n + (pushed - n) + 1 = pushed + 1
    BY <1>p, <1>2, <1>3, <1>4, <1>5
  <2>2. Numbers(n, (pushed - n) + 1) = Append(Numbers(n, pushed - n), n + (pushed - n) + 1)
    BY <1>3, NumbersAppend
  <2>3. Stored' = Append(Stored, n + (pushed - n) + 1)
    BY <1>1, <1>2, <2>1, <2>2
  <2>4. Holders!Push
    BY <1>4, <1>5, <2>3 DEF Holders!Push
  <2>5. QED
    BY <2>4
<1>6. CASE pushed' = pushed /\ \E v : Return(v)
  <2>1. CASE handedOut' = handedOut
    BY <1>p, <1>1, <1>2, <1>3, <1>4, <1>6, <2>1
  <2>2. CASE \E v : handedOut' = Append(handedOut, v)
    <3>1. PICK l : l = pushed - m
      OBVIOUS
    <3>2. m = n + 1
      <4>1. PICK v : handedOut' = Append(handedOut, v)
        BY <2>2
      <4>2. handedOut \in Seq(Nat)
        BY DEF StoredNumbered
      <4>3. Len(Append(handedOut, v)) = Len(handedOut) + 1
        BY <4>2
      <4>4. QED
        BY <1>4, <4>1, <4>3
    <3>3. l \in Nat /\ pushed - n = 1 + l /\ p - m = l /\ p = pushed
      BY <1>p, <1>2, <1>3, <1>6, <3>1, <3>2
    <3>4. Firsts(Stored, 1) = Numbers(n, 1) /\ Rest(Stored, 1) = Numbers(n + 1, l)
      <4>1. n \in Nat /\ 1 \in Nat /\ l \in Nat
        BY <1>3, <3>3
      <4>2. Firsts(Numbers(n, 1 + l), 1) = Numbers(n, 1) /\ Rest(Numbers(n, 1 + l), 1) = Numbers(n + 1, l)
        BY ONLY <4>1, NumbersSplit
      <4>3. QED
        BY <1>1, <3>3, <4>2
    <3>5. Stored' = SubSeq(Stored, 1 + 1, Len(Stored))
      BY <1>2, <3>2, <3>3, <3>4 DEF Rest
    <3>6. handedOut' = handedOut \o SubSeq(Stored, 1, 1)
      <4>1. Numbers(0, n + 1) = Append(Numbers(0, n), 0 + n + 1)
        BY <1>3, NumbersAppend
      <4>2. handedOut' = Append(handedOut, n + 1)
        BY <1>1, <1>2, <1>3, <3>2, <4>1
      <4>3. handedOut \in Seq(Nat) /\ n + 1 \in Nat
        BY <1>3 DEF StoredNumbered
      <4>4. handedOut' = handedOut \o <<n + 1>>
        BY <4>2, <4>3, AppendIsConcat
      <4>5. <<n + 1>> = Numbers(n, 1)
        BY <1>3 DEF Numbers
      <4>6. QED
        BY <3>4, <4>4, <4>5 DEF Firsts
    <3>7. 1 \in 1..Len(Stored)
      BY <1>4, <3>3
    <3>8. Holders!Take
      BY <3>5, <3>6, <3>7 DEF Holders!Take
    <3>9. QED
      BY <3>8
  <2>3. QED
    BY <1>6, <2>1, <2>2 DEF Return
<1>7. QED
  BY <1>5, <1>6, QueueEffects

(* The queue is empty at the start.                                        *)
LEMMA StoredEmpty == QueueInit => Holders!Init
<1> SUFFICES ASSUME QueueInit PROVE Holders!Init
  OBVIOUS
<1>1. pushed = 0 /\ handedOut = <<>>
  BY DEF QueueInit
<1>2. PICK n \in 0..pushed : Stored = Numbers(n, pushed - n)
  BY QueueStart, StoredAre DEF StoredNumbered
<1>3. n = 0 /\ pushed - n = 0
  <2>1. n \in Nat /\ n <= pushed
    BY <1>1
  <2>2. n = 0
    BY <1>1, <2>1
  <2>3. QED
    BY <1>1, <2>2
<1>4. Numbers(0, 0) \in Seq(Nat) /\ Len(Numbers(0, 0)) = 0
  BY NumbersSeq
<1>5. Stored = <<>>
  BY <1>2, <1>3, <1>4, EmptySeq
<1>6. QED
  BY <1>1, <1>5 DEF Holders!Init

(* The n-th element a Push accepted is the n-th that a Pop returns, for    *)
(* every number of holders and however the stores of the two interleave.   *)
THEOREM QueueRefines == QueueSpec => ImplementsFifo
<1>1. QueueSpec => []StoredNumbered
  BY QueueInvariant, StoredAre, PTL
<1>2. QED
  BY <1>1, QueueInvariant, StoredEmpty, QueueSteps, PTL
     DEF QueueSpec, ImplementsFifo, Holders!Spec
-----------------------------------------------------------------------------
(* WindowedMap: sequences with an item more, or less.                      *)

Ins(s, p, x) ==
  [i \in 1..(Len(s) + 1) |-> IF i <= p THEN s[i] ELSE IF i = p + 1 THEN x ELSE s[i - 1]]
Del(s, p) == [i \in 1..(Len(s) - 1) |-> IF i < p THEN s[i] ELSE s[i + 1]]

(* x is put behind the first p items.                                      *)
HasIns(t, s, p, x) ==
  /\ Len(t) = Len(s) + 1
  /\ \A i \in 1..p : t[i] = s[i]
  /\ t[p + 1] = x
  /\ \A i \in (p + 1)..Len(s) : t[i + 1] = s[i]
  /\ Range(t) = Range(s) \cup {x}

(* This is what Ins does.                                                  *)
LEMMA InsFacts ==
  ASSUME NEW S, NEW s \in Seq(S), NEW p \in 0..Len(s), NEW x \in S
  PROVE  Ins(s, p, x) \in Seq(S) /\ HasIns(Ins(s, p, x), s, p, x)
<1>0. Len(s) \in Nat /\ p \in Nat /\ p <= Len(s) /\ \A i \in 1..Len(s) : s[i] \in S
  BY Members
<1>1. PICK t : t = Ins(s, p, x)
  OBVIOUS
<1>2. \A i \in 1..(Len(s) + 1) : t[i] = IF i <= p THEN s[i] ELSE IF i = p + 1 THEN x ELSE s[i - 1]
  BY <1>1 DEF Ins
<1>3. t \in [1..(Len(s) + 1) -> S]
  <2>1. \A i \in 1..(Len(s) + 1) : (IF i <= p THEN s[i] ELSE IF i = p + 1 THEN x ELSE s[i - 1]) \in S
    <3>1. ASSUME NEW i \in 1..(Len(s) + 1), ~(i <= p), i # p + 1 PROVE i - 1 \in 1..Len(s)
      BY <1>0, <3>1
    <3>2. ASSUME NEW i \in 1..(Len(s) + 1), i <= p PROVE i \in 1..Len(s)
      BY <1>0, <3>2
    <3>3. QED
      BY <1>0, <3>1, <3>2
  <2>2. QED
    BY <1>1, <2>1 DEF Ins
<1>4. t \in Seq(S) /\ Len(t) = Len(s) + 1
  <2>1. Len(s) + 1 \in Nat
    BY <1>0
  <2>2. QED
    BY ONLY <1>3, <2>1, IsSequence
<1>5. \A i \in 1..p : t[i] = s[i]
  BY <1>0, <1>2
<1>6. t[p + 1] = x
  BY <1>0, <1>2
<1>7. \A i \in (p + 1)..Len(s) : t[i + 1] = s[i]
  <2>1. ASSUME NEW i \in (p + 1)..Len(s) PROVE t[i + 1] = s[i]
    <3>1. i + 1 \in 1..(Len(s) + 1) /\ ~(i + 1 <= p) /\ i + 1 # p + 1 /\ (i + 1) - 1 = i
      BY <1>0
    <3>2. QED
      BY <1>2, <3>1
  <2>2. QED
    BY <2>1
<1>8. Range(t) = Range(s) \cup {x}
  <2>1. ASSUME NEW y \in Range(t) PROVE y \in Range(s) \cup {x}
    <3>1. PICK i \in 1..(Len(s) + 1) : y = t[i]
      BY <1>4, Members
    <3>2. CASE i <= p
      <4>1. i \in 1..Len(s) /\ t[i] = s[i]
        BY <1>0, <1>2, <3>2
      <4>2. QED
        BY <3>1, <4>1, Members
    <3>3. CASE i = p + 1
      BY <1>6, <3>1, <3>3
    <3>4. CASE ~(i <= p) /\ i # p + 1
      <4>1. i - 1 \in 1..Len(s)
        BY <1>0, <3>4
      <4>2. t[i] = s[i - 1]
        BY <1>2, <3>4
      <4>3. QED
        BY <3>1, <4>1, <4>2, Members
    <3>5. QED
      BY <3>2, <3>3, <3>4
  <2>2. ASSUME NEW y \in Range(s) PROVE y \in Range(t)
    <3>1. PICK i \in 1..Len(s) : y = s[i]
      BY Members
    <3>2. CASE i <= p
      <4>1. i \in 1..p /\ i \in 1..Len(t)
        BY <1>0, <1>4, <3>2
      <4>2. y = t[i]
        BY <1>5, <3>1, <4>1
      <4>3. QED
        BY <1>4, <4>1, <4>2, Members
    <3>3. CASE ~(i <= p)
      <4>1. i \in (p + 1)..Len(s) /\ i + 1 \in 1..Len(t)
        BY <1>0, <1>4, <3>3
      <4>2. y = t[i + 1]
        BY <1>7, <3>1, <4>1
      <4>3. QED
        BY <1>4, <4>1, <4>2, Members
    <3>4. QED
      BY <3>2, <3>3
  <2>3. x \in Range(t)
    <3>1. p + 1 \in 1..Len(t)
      BY <1>0, <1>4
    <3>2. QED
      BY <1>4, <1>6, <3>1, Members
  <2>4. QED
    BY <2>1, <2>2, <2>3
<1>9. HasIns(t, s, p, x)
  BY <1>4, <1>5, <1>6, <1>7, <1>8 DEF HasIns
<1>10. QED
  BY <1>1, <1>4, <1>9

(* The p-th item is taken out.                                             *)
LEMMA DelFacts ==
  ASSUME NEW S, NEW s \in Seq(S), Distinct(s), NEW p \in 1..Len(s)
  PROVE  /\ Del(s, p) \in Seq(S) /\ Len(Del(s, p)) = Len(s) - 1
         /\ \A i \in 1..(p - 1) : Del(s, p)[i] = s[i]
         /\ \A i \in p..(Len(s) - 1) : Del(s, p)[i] = s[i + 1]
         /\ Range(Del(s, p)) = Range(s) \ {s[p]}
<1>0. Len(s) \in Nat /\ p \in Nat /\ 1 <= p /\ p <= Len(s) /\ \A i \in 1..Len(s) : s[i] \in S
  BY Members
<1>1. PICK t : t = Del(s, p)
  OBVIOUS
<1>2. \A i \in 1..(Len(s) - 1) : t[i] = IF i < p THEN s[i] ELSE s[i + 1]
  BY <1>1 DEF Del
<1>n. \A i \in 1..(Len(s) - 1) : i \in 1..Len(s) /\ i + 1 \in 1..Len(s)
  BY <1>0
<1>3. t \in [1..(Len(s) - 1) -> S]
  BY <1>0, <1>1, <1>n DEF Del
<1>4. t \in Seq(S) /\ Len(t) = Len(s) - 1
  <2>1. Len(s) - 1 \in Nat
    BY <1>0
  <2>2. QED
    BY ONLY <1>3, <2>1, IsSequence
<1>5. \A i \in 1..(p - 1) : t[i] = s[i]
  BY <1>0, <1>2
<1>6. \A i \in p..(Len(s) - 1) : t[i] = s[i + 1]
  BY <1>0, <1>2
<1>7. Range(t) = Range(s) \ {s[p]}
  <2>1. ASSUME NEW y \in Range(t) PROVE y \in Range(s) \ {s[p]}
    <3>1. PICK i \in 1..(Len(s) - 1) : y = t[i]
      BY <1>4, Members
    <3>2. PICK j \in 1..Len(s) : y = s[j] /\ j # p
      <4>1. CASE i < p
        BY <1>2, <1>n, <3>1, <4>1
      <4>2. CASE ~(i < p)
        <5>1. i + 1 # p /\ i + 1 \in 1..Len(s)
          BY <1>0, <1>n, <4>2
        <5>2. QED
          BY <1>2, <3>1, <4>2, <5>1
      <4>3. QED
        BY <4>1, <4>2
    <3>3. QED
      BY <3>2, Members DEF Distinct
  <2>2. ASSUME NEW y \in Range(s) \ {s[p]} PROVE y \in Range(t)
    <3>1. PICK j \in 1..Len(s) : y = s[j] /\ j # p
      BY Members
    <3>2. CASE j < p
      <4>1. j \in 1..(Len(s) - 1)
        BY <1>0, <3>2
      <4>2. y = t[j]
        BY <1>2, <3>1, <3>2, <4>1
      <4>3. QED
        BY <1>4, <4>1, <4>2, Members
    <3>3. CASE ~(j < p)
      <4>1. j - 1 \in 1..(Len(s) - 1) /\ ~(j - 1 < p) /\ (j - 1) + 1 = j
        BY <1>0, <3>1, <3>3
      <4>2. y = t[j - 1]
        BY <1>2, <3>1, <4>1
      <4>3. QED
        BY <1>4, <4>1, <4>2, Members
    <3>4. QED
      BY <3>2, <3>3
  <2>3. QED
    BY <2>1, <2>2
<1>8. QED
  BY <1>1, <1>4, <1>5, <1>6, <1>7
-----------------------------------------------------------------------------
(* WindowedMap: the list of the slots in use.                              *)

(* s are the slots in use, in the order of the list.  The links of a slot  *)
(* that is not in use are empty.                                           *)
ListInv(s) ==
  /\ nextOf \in [Slots -> Slots \cup {nil}] /\ prevOf \in [Slots -> Slots \cup {nil}]
  /\ \A i \in 1..(Len(s) - 1) : nextOf[s[i]] = s[i + 1] /\ prevOf[s[i + 1]] = s[i]
  /\ IF Len(s) = 0 THEN mHead = nil /\ mTail = nil
     ELSE /\ mHead = s[1] /\ mTail = s[Len(s)]
          /\ prevOf[s[1]] = nil /\ nextOf[s[Len(s)]] = nil
  /\ \A x \in Slots \ Range(s) : nextOf[x] = nil /\ prevOf[x] = nil

(* The empty link is no slot.                                              *)
LEMMA NilIsNoSlot == nil \notin Slots
<1>1. \A i \in Slots : i \in Int /\ 0 <= i
  BY WindowAssumption DEF Slots
<1>2. QED
  BY <1>1 DEF nil

(* The effect of inserting x behind the first p slots.                     *)
PutAt(s, p, x) ==
  /\ nextOf' \in [Slots -> Slots \cup {nil}] /\ prevOf' \in [Slots -> Slots \cup {nil}]
  /\ nextOf'[x] = IF p < Len(s) THEN s[p + 1] ELSE nil
  /\ prevOf'[x] = IF p > 0 THEN s[p] ELSE nil
  /\ \A y \in Slots \ {x} : nextOf'[y] = IF p > 0 /\ y = s[p] THEN x ELSE nextOf[y]
  /\ \A y \in Slots \ {x} : prevOf'[y] = IF p < Len(s) /\ y = s[p + 1] THEN x ELSE prevOf[y]
  /\ mHead' = IF p = 0 THEN x ELSE mHead
  /\ mTail' = IF p = Len(s) THEN x ELSE mTail

(* It keeps the list in order.                                             *)
LEMMA PutKeepsList ==
  ASSUME NEW s \in Seq(Slots), ListInv(s), Distinct(s), NEW p \in 0..Len(s),
         NEW x \in Slots, x \notin Range(s), PutAt(s, p, x)
  PROVE  ListInv(Ins(s, p, x))'
<1>m. Len(s) \in Nat /\ \A i \in 1..Len(s) : s[i] \in Slots /\ s[i] \in Range(s)
  BY Members
<1>p. p \in Nat /\ p <= Len(s)
  BY <1>m
<1>0. /\ Len(s) \in Nat /\ p \in Nat /\ p <= Len(s) /\ nil \notin Slots
      /\ \A i \in 1..Len(s) : s[i] \in Slots \ {x}
  BY <1>m, <1>p, NilIsNoSlot
<1>1. PICK t : t = Ins(s, p, x)
  OBVIOUS
<1>2. /\ t \in Seq(Slots) /\ Len(t) = Len(s) + 1
      /\ \A i \in 1..p : t[i] = s[i]
      /\ t[p + 1] = x
      /\ \A i \in (p + 1)..Len(s) : t[i + 1] = s[i]
      /\ Range(t) = Range(s) \cup {x}
  <2>1. s \in Seq(Slots) /\ p \in 0..Len(s) /\ x \in Slots
    OBVIOUS
  <2>2. t \in Seq(Slots) /\ HasIns(t, s, p, x)
    BY ONLY <1>1, <2>1, InsFacts
  <2>3. QED
    BY ONLY <2>2 DEF HasIns
<1>3. ASSUME NEW i \in 1..Len(s) PROVE nextOf'[t[i]] = t[i + 1] /\ prevOf'[t[i + 1]] = t[i]
  <2>1. CASE i < p
    <3>1. i \in 1..p /\ i + 1 \in 1..p /\ i \in 1..(Len(s) - 1) /\ i # p /\ i + 1 # p + 1
      BY <1>0, <2>1
    <3>2. i + 1 \in 1..Len(s) /\ p \in 1..Len(s) /\ (p < Len(s) => p + 1 \in 1..Len(s))
      BY <1>0, <3>1
    <3>3. t[i] = s[i] /\ t[i + 1] = s[i + 1]
      BY <1>2, <3>1
    <3>4. s[i] # s[p] /\ (p < Len(s) => s[i + 1] # s[p + 1])
      BY <3>1, <3>2 DEF Distinct
    <3>5. nextOf[s[i]] = s[i + 1] /\ prevOf[s[i + 1]] = s[i]
      BY <3>1 DEF ListInv
    <3>6. nextOf'[s[i]] = nextOf[s[i]] /\ prevOf'[s[i + 1]] = prevOf[s[i + 1]]
      BY <1>0, <3>2, <3>4 DEF PutAt
    <3>7. QED
      BY <3>3, <3>5, <3>6
  <2>2. CASE i = p
    <3>1. i \in 1..p /\ i \in 1..Len(s) /\ p > 0
      BY <1>0, <2>2
    <3>2. t[i] = s[p] /\ t[i + 1] = x
      BY <1>2, <2>2, <3>1
    <3>3. nextOf'[s[p]] = x /\ prevOf'[x] = s[p]
      BY <1>0, <2>2, <3>1 DEF PutAt
    <3>4. QED
      BY <3>2, <3>3
  <2>3. CASE i = p + 1
    <3>1. i \in (p + 1)..Len(s) /\ p < Len(s) /\ p + 1 \in 1..Len(s)
      BY <1>0, <2>3
    <3>2. t[i] = x /\ t[i + 1] = s[p + 1]
      BY <1>2, <2>3, <3>1
    <3>3. nextOf'[x] = s[p + 1] /\ prevOf'[s[p + 1]] = x
      BY <1>0, <3>1 DEF PutAt
    <3>4. QED
      BY <3>2, <3>3
  <2>4. CASE i > p + 1
    <3>1. /\ i - 1 \in (p + 1)..Len(s) /\ i \in (p + 1)..Len(s) /\ i - 1 \in 1..(Len(s) - 1)
          /\ (i - 1) + 1 = i /\ i - 1 # p /\ i # p + 1
      BY <1>0, <2>4
    <3>2. i - 1 \in 1..Len(s) /\ p + 1 \in 1..Len(s) /\ (p > 0 => p \in 1..Len(s))
      BY <1>0, <3>1
    <3>3. t[i] = s[i - 1] /\ t[i + 1] = s[i]
      BY <1>2, <3>1
    <3>4. s[i] # s[p + 1] /\ (p > 0 => s[i - 1] # s[p])
      BY <3>1, <3>2 DEF Distinct
    <3>5. nextOf[s[i - 1]] = s[i] /\ prevOf[s[i]] = s[i - 1]
      BY <3>1 DEF ListInv
    <3>6. nextOf'[s[i - 1]] = nextOf[s[i - 1]] /\ prevOf'[s[i]] = prevOf[s[i]]
      BY <1>0, <3>2, <3>4 DEF PutAt
    <3>7. QED
      BY <3>3, <3>5, <3>6
  <2>5. QED
    BY <1>0, <2>1, <2>2, <2>3, <2>4
<1>4. mHead' = t[1] /\ prevOf'[t[1]] = nil
  <2>1. CASE p = 0
    BY <1>2, <2>1 DEF PutAt
  <2>2. CASE p > 0
    <3>1. 1 \in 1..p /\ 1 \in 1..Len(s) /\ Len(s) # 0 /\ 1 # p + 1 /\ p # 0
      BY <1>0, <2>2
    <3>2. t[1] = s[1] /\ mHead = s[1] /\ prevOf[s[1]] = nil
      BY <1>2, <3>1 DEF ListInv
    <3>3. p < Len(s) => p + 1 \in 1..Len(s) /\ s[1] # s[p + 1]
      BY <1>0, <3>1 DEF Distinct
    <3>4. prevOf'[s[1]] = prevOf[s[1]]
      BY <1>0, <3>1, <3>3 DEF PutAt
    <3>5. QED
      BY <3>1, <3>2, <3>4 DEF PutAt
  <2>3. QED
    BY <1>0, <2>1, <2>2
<1>5. mTail' = t[Len(s) + 1] /\ nextOf'[t[Len(s) + 1]] = nil
  <2>1. CASE p = Len(s)
    BY <1>0, <1>2, <2>1 DEF PutAt
  <2>2. CASE p < Len(s)
    <3>1. Len(s) \in (p + 1)..Len(s) /\ Len(s) \in 1..Len(s) /\ Len(s) # 0 /\ p # Len(s)
      BY <1>0, <2>2
    <3>2. t[Len(s) + 1] = s[Len(s)] /\ mTail = s[Len(s)] /\ nextOf[s[Len(s)]] = nil
      BY <1>2, <3>1 DEF ListInv
    <3>3. p > 0 => p \in 1..Len(s) /\ s[Len(s)] # s[p]
      BY <1>0, <3>1 DEF Distinct
    <3>4. nextOf'[s[Len(s)]] = nextOf[s[Len(s)]]
      BY <1>0, <3>1, <3>3 DEF PutAt
    <3>5. QED
      BY <3>1, <3>2, <3>4 DEF PutAt
  <2>3. QED
    BY <1>0, <2>1, <2>2
<1>6. ASSUME NEW y \in Slots \ Range(t) PROVE nextOf'[y] = nil /\ prevOf'[y] = nil
  <2>1. y \in Slots \ {x} /\ y \in Slots \ Range(s)
    BY <1>2
  <2>2. (p > 0 => y # s[p]) /\ (p < Len(s) => y # s[p + 1])
    <3>1. (p > 0 => p \in 1..Len(s)) /\ (p < Len(s) => p + 1 \in 1..Len(s))
      BY <1>0
    <3>2. QED
      BY <2>1, <3>1, Members
  <2>3. nextOf[y] = nil /\ prevOf[y] = nil
    BY <2>1 DEF ListInv
  <2>4. QED
    BY <2>1, <2>2, <2>3 DEF PutAt
<1>7. nextOf' \in [Slots -> Slots \cup {nil}] /\ prevOf' \in [Slots -> Slots \cup {nil}]
  BY DEF PutAt
<1>8. ListInv(t)'
  <2>1. (Len(t) - 1) = Len(s) /\ Len(t) # 0 /\ Len(t) = Len(s) + 1
    BY <1>0, <1>2
  <2>2. Slots' = Slots /\ nil' = nil
    BY DEF Slots, nil
  <2>3. QED
    BY <2>1, <2>2, <1>3, <1>4, <1>5, <1>6, <1>7 DEF ListInv
<1>9. QED
  <2>1. Ins(s, p, x)' = Ins(s, p, x)
    OBVIOUS
  <2>2. QED
    BY <1>1, <1>8, <2>1

(* erase: the p-th slot leaves the list.                                   *)
LEMMA EraseKeepsList ==
  ASSUME NEW s \in Seq(Slots), ListInv(s), Distinct(s), NEW p \in 1..Len(s), erase(s[p])
  PROVE  ListInv(Del(s, p))'
<1>m. Len(s) \in Nat /\ \A i \in 1..Len(s) : s[i] \in Slots
  BY Members
<1>p. p \in Nat /\ 1 <= p /\ p <= Len(s)
  BY <1>m
<1>0. /\ Len(s) \in Nat /\ p \in Nat /\ 1 <= p /\ p <= Len(s) /\ nil \notin Slots
      /\ \A i \in 1..Len(s) : s[i] \in Slots
  BY <1>m, <1>p, NilIsNoSlot
<1>1. PICK t, x, b, n : t = Del(s, p) /\ x = s[p] /\ b = prevOf[x] /\ n = nextOf[x]
  OBVIOUS
<1>2. /\ t \in Seq(Slots) /\ Len(t) = Len(s) - 1
      /\ \A i \in 1..(p - 1) : t[i] = s[i]
      /\ \A i \in p..(Len(s) - 1) : t[i] = s[i + 1]
      /\ Range(t) = Range(s) \ {x}
  <2>1. s \in Seq(Slots) /\ p \in 1..Len(s) /\ Distinct(s)
    OBVIOUS
  <2>2. QED
    <3>1. t \in Seq(Slots) /\ Len(t) = Len(s) - 1
      BY ONLY <1>1, <2>1, DelFacts
    <3>2. \A i \in 1..(p - 1) : t[i] = s[i]
      BY ONLY <1>1, <2>1, DelFacts
    <3>3. \A i \in p..(Len(s) - 1) : t[i] = s[i + 1]
      BY ONLY <1>1, <2>1, DelFacts
    <3>4. Range(t) = Range(s) \ {x}
      BY ONLY <1>1, <2>1, DelFacts
    <3>5. QED
      BY <3>1, <3>2, <3>3, <3>4
<1>b. b = IF p = 1 THEN nil ELSE s[p - 1]
  <2>1. CASE p = 1
    BY <1>0, <1>1, <2>1 DEF ListInv
  <2>2. CASE p # 1
    <3>1. p - 1 \in 1..(Len(s) - 1) /\ (p - 1) + 1 = p
      BY <1>0, <2>2
    <3>2. QED
      BY <1>1, <2>2, <3>1 DEF ListInv
  <2>3. QED
    BY <2>1, <2>2
<1>n. n = IF p = Len(s) THEN nil ELSE s[p + 1]
  <2>1. CASE p = Len(s)
    BY <1>0, <1>1, <2>1 DEF ListInv
  <2>2. CASE p # Len(s)
    <3>1. p \in 1..(Len(s) - 1)
      BY <1>0, <2>2
    <3>2. QED
      BY <1>1, <2>2, <3>1 DEF ListInv
  <2>3. QED
    BY <2>1, <2>2
<1>e. /\ mHead' = IF b = nil THEN n ELSE mHead
      /\ mTail' = IF n = nil THEN b ELSE mTail
      /\ nextOf' = [y \in Slots |-> CASE y = x -> nil [] y = b -> n [] OTHER -> nextOf[y]]
      /\ prevOf' = [y \in Slots |-> CASE y = x -> nil [] y = n -> b [] OTHER -> prevOf[y]]
  BY <1>1 DEF erase
<1>3. /\ nextOf \in [Slots -> Slots \cup {nil}] /\ prevOf \in [Slots -> Slots \cup {nil}]
      /\ b \in Slots \cup {nil} /\ n \in Slots \cup {nil}
  BY <1>0, <1>1 DEF ListInv
<1>4. /\ nextOf'[x] = nil /\ prevOf'[x] = nil
      /\ \A y \in Slots : y # x => nextOf'[y] = IF y = b THEN n ELSE nextOf[y]
      /\ \A y \in Slots : y # x => prevOf'[y] = IF y = n THEN b ELSE prevOf[y]
  <2>1. x \in Slots
    BY <1>0, <1>1
  <2>b. b # x
    <3>1. p # 1 => p - 1 \in 1..Len(s) /\ p - 1 # p
      BY <1>0
    <3>2. QED
      BY <1>0, <1>1, <1>b, <2>1, <3>1 DEF Distinct
  <2>n. n # x
    <3>1. p # Len(s) => p + 1 \in 1..Len(s) /\ p + 1 # p
      BY <1>0
    <3>2. QED
      BY <1>0, <1>1, <1>n, <2>1, <3>1 DEF Distinct
  <2>2. \A y \in Slots : nextOf'[y] = CASE y = x -> nil [] y = b -> n [] OTHER -> nextOf[y]
    BY ONLY <1>e
  <2>3. \A y \in Slots : prevOf'[y] = CASE y = x -> nil [] y = n -> b [] OTHER -> prevOf[y]
    BY ONLY <1>e
  <2>4. nextOf'[x] = nil /\ prevOf'[x] = nil
    BY ONLY <2>1, <2>2, <2>3, <2>b, <2>n
  <2>5. \A y \in Slots : y # x => nextOf'[y] = IF y = b THEN n ELSE nextOf[y]
    BY ONLY <2>2
  <2>6. \A y \in Slots : y # x => prevOf'[y] = IF y = n THEN b ELSE prevOf[y]
    BY ONLY <2>3
  <2>7. QED
    BY <2>4, <2>5, <2>6
<1>5. nextOf' \in [Slots -> Slots \cup {nil}] /\ prevOf' \in [Slots -> Slots \cup {nil}]
  BY <1>3, <1>e
<1>6. ASSUME NEW i \in 1..(Len(s) - 2) PROVE nextOf'[t[i]] = t[i + 1] /\ prevOf'[t[i + 1]] = t[i]
  <2>0. i \in 1..(Len(s) - 1) /\ i + 1 \in 1..(Len(s) - 1) /\ i + 2 \in 1..Len(s)
    BY <1>0
  <2>1. CASE i + 1 < p
    <3>1. /\ i \in 1..(p - 1) /\ i + 1 \in 1..(p - 1) /\ i \in 1..Len(s) /\ i + 1 \in 1..Len(s)
          /\ i # p /\ i + 1 # p /\ p - 1 \in 1..Len(s) /\ i # p - 1 /\ p # 1
      BY <1>0, <2>0, <2>1
    <3>2. t[i] = s[i] /\ t[i + 1] = s[i + 1] /\ b = s[p - 1]
      BY <1>2, <1>b, <3>1
    <3>3. s[i] # x /\ s[i + 1] # x /\ s[i] # b
      BY <1>0, <1>1, <3>1, <3>2 DEF Distinct
    <3>4. s[i + 1] # n
      <4>1. p # Len(s) => p + 1 \in 1..Len(s) /\ i + 1 # p + 1
        BY <1>0, <3>1
      <4>2. QED
        BY <1>0, <1>n, <3>1, <4>1 DEF Distinct
    <3>5. nextOf[s[i]] = s[i + 1] /\ prevOf[s[i + 1]] = s[i]
      BY <2>0 DEF ListInv
    <3>6. QED
      BY <1>0, <1>4, <3>1, <3>2, <3>3, <3>4, <3>5
  <2>2. CASE i + 1 = p
    <3>1. /\ i \in 1..(p - 1) /\ i = p - 1 /\ i + 1 \in p..(Len(s) - 1) /\ p # 1 /\ p # Len(s)
          /\ p - 1 \in 1..Len(s) /\ p + 1 \in 1..Len(s)
          /\ p - 1 # p /\ p + 1 # p /\ p - 1 # p + 1
      BY <1>0, <2>0, <2>2
    <3>2. t[i] = s[p - 1] /\ t[i + 1] = s[p + 1] /\ b = s[p - 1] /\ n = s[p + 1]
      BY <1>2, <1>b, <1>n, <2>2, <3>1
    <3>3. s[p - 1] # x /\ s[p + 1] # x
      BY <1>0, <1>1, <3>1 DEF Distinct
    <3>4. QED
      BY <1>0, <1>4, <3>1, <3>2, <3>3
  <2>3. CASE i + 1 > p
    <3>1. /\ i \in p..(Len(s) - 1) /\ i + 1 \in p..(Len(s) - 1) /\ i + 1 \in 1..Len(s)
          /\ (i + 1) + 1 \in 1..Len(s) /\ i + 1 # p /\ (i + 1) + 1 # p /\ p # Len(s)
          /\ p + 1 \in 1..Len(s) /\ (i + 1) + 1 # p + 1
      BY <1>0, <2>0, <2>3
    <3>2. t[i] = s[i + 1] /\ t[i + 1] = s[(i + 1) + 1] /\ n = s[p + 1]
      BY <1>2, <1>n, <3>1
    <3>3. s[i + 1] # x /\ s[(i + 1) + 1] # x /\ s[(i + 1) + 1] # n
      BY <1>0, <1>1, <3>1, <3>2 DEF Distinct
    <3>4. s[i + 1] # b
      <4>1. p # 1 => p - 1 \in 1..Len(s) /\ i + 1 # p - 1
        BY <1>0, <3>1
      <4>2. QED
        BY <1>0, <1>b, <3>1, <4>1 DEF Distinct
    <3>5. nextOf[s[i + 1]] = s[(i + 1) + 1] /\ prevOf[s[(i + 1) + 1]] = s[i + 1]
      BY <2>0 DEF ListInv
    <3>6. QED
      BY <1>0, <1>4, <3>1, <3>2, <3>3, <3>4, <3>5
  <2>4. QED
    BY <1>0, <2>0, <2>1, <2>2, <2>3
<1>7. Len(s) = 1 => mHead' = nil /\ mTail' = nil
  BY <1>0, <1>b, <1>n, <1>e
<1>8. ASSUME Len(s) > 1 PROVE mHead' = t[1] /\ prevOf'[t[1]] = nil
  <2>1. CASE p = 1
    <3>1. 1 \in p..(Len(s) - 1) /\ p # Len(s) /\ 1 + 1 \in 1..Len(s) /\ 1 \in 1..Len(s) /\ 1 + 1 # 1
      BY <1>0, <1>8, <2>1
    <3>2. t[1] = s[1 + 1] /\ n = s[1 + 1] /\ b = nil
      BY <1>2, <1>b, <1>n, <2>1, <3>1
    <3>3. s[1 + 1] # x
      BY <1>1, <2>1, <3>1 DEF Distinct
    <3>4. QED
      BY <1>0, <1>4, <1>e, <3>1, <3>2, <3>3
  <2>2. CASE p # 1
    <3>1. 1 \in 1..(p - 1) /\ 1 \in 1..Len(s) /\ p - 1 \in 1..Len(s) /\ Len(s) # 0
      BY <1>0, <2>2
    <3>2. t[1] = s[1] /\ mHead = s[1] /\ prevOf[s[1]] = nil /\ b \in Slots /\ b # nil
      BY <1>0, <1>2, <1>b, <2>2, <3>1 DEF ListInv
    <3>3. s[1] # x
      BY <1>0, <1>1, <2>2, <3>1 DEF Distinct
    <3>4. s[1] # n
      <4>1. p # Len(s) => p + 1 \in 1..Len(s) /\ p + 1 # 1
        BY <1>0
      <4>2. QED
        BY <1>0, <1>n, <3>1, <4>1 DEF Distinct
    <3>5. QED
      BY <1>0, <1>4, <1>e, <3>1, <3>2, <3>3, <3>4
  <2>3. QED
    BY <2>1, <2>2
<1>9. ASSUME Len(s) > 1 PROVE mTail' = t[Len(s) - 1] /\ nextOf'[t[Len(s) - 1]] = nil
  <2>1. CASE p = Len(s)
    <3>1. Len(s) - 1 \in 1..(p - 1) /\ p # 1 /\ p - 1 \in 1..Len(s) /\ p - 1 # p
      BY <1>0, <1>9, <2>1
    <3>2. t[Len(s) - 1] = s[p - 1] /\ b = s[p - 1] /\ n = nil
      BY <1>2, <1>b, <1>n, <2>1, <3>1
    <3>3. s[p - 1] # x
      BY <1>0, <1>1, <3>1 DEF Distinct
    <3>4. QED
      BY <1>0, <1>4, <1>e, <3>1, <3>2, <3>3
  <2>2. CASE p # Len(s)
    <3>1. /\ Len(s) - 1 \in p..(Len(s) - 1) /\ (Len(s) - 1) + 1 = Len(s)
          /\ p + 1 \in 1..Len(s) /\ Len(s) \in 1..Len(s) /\ Len(s) # 0
      BY <1>0, <2>2
    <3>2. /\ t[Len(s) - 1] = s[Len(s)] /\ mTail = s[Len(s)] /\ nextOf[s[Len(s)]] = nil
          /\ n \in Slots /\ n # nil
      BY <1>0, <1>2, <1>n, <2>2, <3>1 DEF ListInv
    <3>3. s[Len(s)] # x
      BY <1>0, <1>1, <2>2, <3>1 DEF Distinct
    <3>4. s[Len(s)] # b
      <4>1. p # 1 => p - 1 \in 1..Len(s) /\ p - 1 # Len(s)
        BY <1>0
      <4>2. QED
        BY <1>0, <1>b, <3>1, <4>1 DEF Distinct
    <3>5. QED
      BY <1>0, <1>4, <1>e, <3>1, <3>2, <3>3, <3>4
  <2>3. QED
    BY <2>1, <2>2
<1>10. ASSUME NEW y \in Slots \ Range(t) PROVE nextOf'[y] = nil /\ prevOf'[y] = nil
  <2>1. CASE y = x
    BY <1>4, <2>1
  <2>2. CASE y # x
    <3>1. y \in Slots \ Range(s)
      BY <1>2, <2>2
    <3>2. y # b /\ y # n
      <4>1. (p # 1 => p - 1 \in 1..Len(s)) /\ (p # Len(s) => p + 1 \in 1..Len(s))
        BY <1>0
      <4>2. (p # 1 => s[p - 1] \in Range(s)) /\ (p # Len(s) => s[p + 1] \in Range(s))
        BY <4>1, Members
      <4>3. QED
        BY <1>0, <1>b, <1>n, <3>1, <4>2
    <3>3. QED
      BY <1>4, <2>2, <3>1, <3>2 DEF ListInv
  <2>3. QED
    BY <2>1, <2>2
<1>11. ListInv(t)'
  <2>1. Len(t) = Len(s) - 1 /\ Len(t) - 1 = Len(s) - 2 /\ (Len(t) = 0 <=> Len(s) = 1) /\ (Len(t) # 0 <=> Len(s) > 1)
    BY <1>0, <1>2
  <2>2. Slots' = Slots /\ nil' = nil
    BY DEF Slots, nil
  <2>3. QED
    BY <2>1, <2>2, <1>5, <1>6, <1>7, <1>8, <1>9, <1>10 DEF ListInv
<1>12. QED
  <2>1. PICK d : d = Del(s, p)
    OBVIOUS
  <2>2. QED
    BY <1>1, <1>11
-----------------------------------------------------------------------------
(* WindowedMap: the keys of the slots.                                     *)

Ascending(f, s) ==
  \A i, j \in 1..Len(s) : i < j => f[s[i]] < f[s[j]] /\ f[s[j]] - f[s[i]] < mWindowSize

(* The slots in use are those of s.  They hold the keys of the map, each   *)
(* in its slot, in ascending order and less than a window apart.           *)
KeysInv(s) ==
  /\ first \in [Slots -> Int]
  /\ \A x \in Slots \ Range(s) : first[x] = gNullValue
  /\ \A i \in 1..Len(s) : first[s[i]] \in 0..MaxKey /\ slotIdx(first[s[i]]) = s[i]
  /\ Ascending(first, s)
  /\ keys = {first[s[i]] : i \in 1..Len(s)}
  /\ mSize = Len(s)
  /\ IsFiniteSet(keys) /\ Cardinality(keys) = Len(s)
  /\ IsFiniteSet(Range(s)) /\ Cardinality(Range(s)) = Len(s)

MapIs(s) == s \in Seq(Slots) /\ ListInv(s) /\ KeysInv(s)
MapInv == \E s : MapIs(s)

(* A key has a slot.                                                       *)
LEMMA SlotOfKey == ASSUME NEW k \in Int PROVE slotIdx(k) \in Slots
<1>1. mWindowSize \in Int /\ mWindowSize > 0
  BY WindowAssumption
<1>2. (k + mWindowSize) % mWindowSize \in 0..(mWindowSize - 1)
  BY <1>1, SMT
<1>3. QED
  BY <1>2 DEF slotIdx, Slots

(* Keys with the same slot are whole windows apart.                        *)
LEMMA SameSlot ==
  ASSUME NEW a \in Int, NEW b \in Int, slotIdx(a) = slotIdx(b),
         b - a < 2 * mWindowSize, a - b < 2 * mWindowSize
  PROVE  b = a \/ b = a + mWindowSize \/ b = a - mWindowSize
<1>1. PICK W : W = mWindowSize /\ W \in Int /\ W > 0
  BY WindowAssumption
<1>2. /\ a + W = W * ((a + W) \div W) + slotIdx(a)
      /\ (a + W) \div W \in Int
  BY <1>1, SMT DEF slotIdx
<1>3. /\ b + W = W * ((b + W) \div W) + slotIdx(b)
      /\ (b + W) \div W \in Int
  BY <1>1, SMT DEF slotIdx
<1>4. PICK q, r, d : q = (a + W) \div W /\ r = (b + W) \div W /\ d = slotIdx(a)
  OBVIOUS
<1>5. q \in Int /\ r \in Int /\ a + W = W * q + d /\ b + W = W * r + d
  BY <1>2, <1>3, <1>4
<1>6. d \in Int
  BY <1>4, <1>1, SMT DEF slotIdx
<1>7. b - a = W * (r - q)
  BY ONLY a \in Int, b \in Int, <1>1, <1>5, <1>6, SMT
<1>8. PICK e : e = r - q /\ e \in Int
  BY <1>5
<1>9. b - a = W * e
  BY <1>7, <1>8
<1>10. W * e < 2 * W /\ -(2 * W) < W * e
  BY ONLY a \in Int, b \in Int, b - a < 2 * mWindowSize, a - b < 2 * mWindowSize, <1>1, <1>9
<1>11. e < 2
  BY ONLY <1>1, <1>8, <1>10, SMT
<1>12. -2 < e
  BY ONLY <1>1, <1>8, <1>10, SMT
<1>13. e = -1 \/ e = 0 \/ e = 1
  BY ONLY <1>8, <1>11, <1>12
<1>14. (e = -1 => W * e = -W) /\ (e = 0 => W * e = 0) /\ (e = 1 => W * e = W)
  BY ONLY <1>1, SMT
<1>15. QED
  BY ONLY a \in Int, b \in Int, <1>1, <1>9, <1>13, <1>14

(* What KeysInv says of the keys, in terms of the indices of s.            *)
LEMMA KeyFacts ==
  ASSUME NEW s \in Seq(Slots), KeysInv(s)
  PROVE  /\ Len(s) \in Nat /\ \A i \in 1..Len(s) : s[i] \in Slots /\ s[i] \in Range(s)
         /\ \A i \in 1..Len(s) : /\ first[s[i]] \in 0..MaxKey /\ first[s[i]] \in Int
                                 /\ slotIdx(first[s[i]]) = s[i] /\ first[s[i]] # gNullValue
                                 /\ first[s[i]] \in keys
         /\ \A k \in keys : \E i \in 1..Len(s) : k = first[s[i]]
         /\ Distinct(s)
<1>1. Len(s) \in Nat /\ \A i \in 1..Len(s) : s[i] \in Slots /\ s[i] \in Range(s)
  BY Members
<1>2. \A n \in 0..MaxKey : n \in Int /\ n # gNullValue
  BY WindowAssumption DEF gNullValue
<1>3. \A i \in 1..Len(s) : /\ first[s[i]] \in 0..MaxKey /\ slotIdx(first[s[i]]) = s[i]
                           /\ first[s[i]] \in keys
  BY DEF KeysInv
<1>4. \A k \in keys : \E i \in 1..Len(s) : k = first[s[i]]
  BY DEF KeysInv
<1>5. ASSUME NEW i \in 1..Len(s), NEW j \in 1..Len(s), i < j PROVE s[i] # s[j]
  <2>1. first[s[i]] < first[s[j]]
    BY <1>5 DEF KeysInv, Ascending
  <2>2. first[s[i]] \in Int
    BY <1>2, <1>3
  <2>3. QED
    BY <2>1, <2>2
<1>6. Distinct(s)
  <2>1. ASSUME NEW i \in 1..Len(s), NEW j \in 1..Len(s), i # j PROVE s[i] # s[j]
    <3>1. i < j \/ j < i
      BY <1>1, <2>1
    <3>2. QED
      BY <1>5, <3>1
  <2>2. QED
    BY <2>1 DEF Distinct
<1>7. QED
  BY <1>1, <1>2, <1>3, <1>4, <1>6

(* There is a place in s for a key that it does not hold.                  *)
LEMMA Position ==
  ASSUME NEW s \in Seq(Slots), KeysInv(s), NEW key \in Int, key \notin keys
  PROVE  \E p \in 0..Len(s) : /\ \A i \in 1..p : first[s[i]] < key
                              /\ \A i \in (p + 1)..Len(s) : key < first[s[i]]
<1>1. PICK f : f = first
  OBVIOUS
<1>2. /\ Len(s) \in Nat
      /\ \A i \in 1..Len(s) : f[s[i]] \in Int /\ f[s[i]] # key
      /\ \A i, j \in 1..Len(s) : i < j => f[s[i]] < f[s[j]]
  BY <1>1, KeyFacts DEF KeysInv, Ascending
<1>3. PICK T : T = {i \in 1..(Len(s) + 1) : i <= Len(s) => key < f[s[i]]}
  OBVIOUS
<1>4. T \subseteq Nat /\ Len(s) + 1 \in T
  BY <1>2, <1>3
<1>5. PICK m \in T : \A k \in T : m <= k
  BY <1>4, LeastMember
<1>6. m \in 1..(Len(s) + 1) /\ (m <= Len(s) => key < f[s[m]])
  BY <1>3
<1>7. ASSUME NEW i \in 1..(m - 1) PROVE f[s[i]] < key
  <2>1. i \in 1..Len(s) /\ i <= Len(s) /\ i \in 1..(Len(s) + 1) /\ ~(m <= i)
    BY <1>2, <1>6
  <2>2. i \notin T
    BY <1>5, <2>1
  <2>3. ~(key < f[s[i]])
    BY <1>3, <2>1, <2>2
  <2>4. QED
    BY <1>2, <2>1, <2>3
<1>8. ASSUME NEW i \in ((m - 1) + 1)..Len(s) PROVE key < f[s[i]]
  <2>1. i \in 1..Len(s) /\ m \in 1..Len(s) /\ m <= Len(s) /\ (i = m \/ m < i)
    BY <1>2, <1>6
  <2>2. key < f[s[m]] /\ (m < i => f[s[m]] < f[s[i]])
    BY <1>2, <1>6, <2>1
  <2>3. f[s[m]] \in Int /\ f[s[i]] \in Int
    BY <1>2, <2>1
  <2>4. QED
    BY <2>1, <2>2, <2>3
<1>9. m - 1 \in 0..Len(s)
  BY <1>2, <1>6
<1>10. QED
  BY <1>1, <1>7, <1>8, <1>9

(* A key that is put in its place keeps the keys in order.                 *)
LEMMA PutKeepsKeys ==
  ASSUME NEW s \in Seq(Slots), KeysInv(s), NEW key \in 0..MaxKey, Fits(key),
         NEW x \in Slots, x = slotIdx(key), x \notin Range(s), NEW p \in 0..Len(s),
         \A i \in 1..p : first[s[i]] < key,
         \A i \in (p + 1)..Len(s) : key < first[s[i]],
         first' = [first EXCEPT ![x] = key], keys' = keys \cup {key}, mSize' = mSize + 1
  PROVE  KeysInv(Ins(s, p, x))'
<1>1. PICK f, g, t : f = first /\ g = first' /\ t = Ins(s, p, x)
  OBVIOUS
<1>k. key \in Int /\ key # gNullValue
  BY WindowAssumption DEF gNullValue
<1>2. /\ Len(s) \in Nat /\ p \in Nat /\ p <= Len(s)
      /\ \A i \in 1..Len(s) : /\ s[i] \in Slots /\ s[i] # x
                              /\ f[s[i]] \in Int /\ f[s[i]] \in keys
  <2>1. Len(s) \in Nat
    BY Members
  <2>2. p \in Nat /\ p <= Len(s)
    BY <2>1
  <2>3. QED
    BY <1>1, <2>1, <2>2, KeyFacts
<1>q. s \in Seq(Slots) /\ p \in 0..Len(s) /\ x \in Slots
  OBVIOUS
<1>h. t \in Seq(Slots) /\ HasIns(t, s, p, x)
  BY ONLY <1>1, <1>q, InsFacts
<1>3. t \in Seq(Slots) /\ Len(t) = Len(s) + 1
  BY ONLY <1>h DEF HasIns
<1>4. \A i \in 1..p : t[i] = s[i]
  BY ONLY <1>h DEF HasIns
<1>5. t[p + 1] = x
  BY ONLY <1>h DEF HasIns
<1>6. \A i \in (p + 1)..Len(s) : t[i + 1] = s[i]
  BY ONLY <1>h DEF HasIns
<1>7. Range(t) = Range(s) \cup {x}
  BY ONLY <1>h DEF HasIns
<1>8. /\ g \in [Slots -> Int] /\ g[x] = key
      /\ \A y \in Slots : y # x => g[y] = f[y]
  BY <1>1, <1>k DEF KeysInv
<1>9. \A i \in 1..p : t[i] = s[i] /\ g[t[i]] = f[s[i]] /\ i \in 1..Len(s)
  BY <1>2, <1>4, <1>8
<1>10. t[p + 1] = x /\ g[t[p + 1]] = key
  BY <1>5, <1>8
<1>11. \A i \in (p + 2)..(Len(s) + 1) : t[i] = s[i - 1] /\ g[t[i]] = f[s[i - 1]] /\ i - 1 \in (p + 1)..Len(s)
  <2>1. ASSUME NEW i \in (p + 2)..(Len(s) + 1)
        PROVE  t[i] = s[i - 1] /\ g[t[i]] = f[s[i - 1]] /\ i - 1 \in (p + 1)..Len(s)
    <3>1. i - 1 \in (p + 1)..Len(s) /\ i - 1 \in 1..Len(s) /\ (i - 1) + 1 = i
      BY <1>2
    <3>2. t[i] = s[i - 1]
      BY <1>6, <3>1
    <3>3. QED
      BY <1>2, <1>8, <3>1, <3>2
  <2>2. QED
    BY <2>1
<1>12. \A i \in 1..(Len(s) + 1) : i \in 1..p \/ i = p + 1 \/ i \in (p + 2)..(Len(s) + 1)
  BY <1>2
<1>13. \A i \in 1..(Len(s) + 1) : g[t[i]] \in 0..MaxKey /\ slotIdx(g[t[i]]) = t[i]
  <2>1. \A i \in 1..Len(s) : f[s[i]] \in 0..MaxKey /\ slotIdx(f[s[i]]) = s[i]
    BY <1>1 DEF KeysInv
  <2>2. ASSUME NEW i \in 1..p PROVE g[t[i]] \in 0..MaxKey /\ slotIdx(g[t[i]]) = t[i]
    BY <1>9, <2>1
  <2>3. g[t[p + 1]] \in 0..MaxKey /\ slotIdx(g[t[p + 1]]) = t[p + 1]
    BY <1>10
  <2>4. ASSUME NEW i \in (p + 2)..(Len(s) + 1) PROVE g[t[i]] \in 0..MaxKey /\ slotIdx(g[t[i]]) = t[i]
    <3>1. i - 1 \in 1..Len(s)
      BY <1>2
    <3>2. QED
      BY <1>11, <2>1, <3>1
  <2>5. QED
    BY <1>12, <2>2, <2>3, <2>4
<1>14. \A i, j \in 1..Len(s) : i < j => f[s[i]] < f[s[j]] /\ f[s[j]] - f[s[i]] < mWindowSize
  BY <1>1 DEF KeysInv, Ascending
<1>15. \A i \in 1..Len(s) : key - f[s[i]] < mWindowSize /\ f[s[i]] - key < mWindowSize
  <2>1. ASSUME NEW k \in keys, k \in Int PROVE key - k < mWindowSize /\ k - key < mWindowSize
    <3>1. k - key \in (1 - mWindowSize)..(mWindowSize - 1)
      BY DEF Fits
    <3>2. QED
      BY <1>k, <2>1, <3>1, WindowAssumption
  <2>2. QED
    BY <1>2, <2>1
<1>16. /\ \A i \in 1..p : f[s[i]] < key
       /\ \A i \in (p + 1)..Len(s) : key < f[s[i]]
  BY <1>1
<1>17. ASSUME NEW i \in 1..(Len(s) + 1), NEW j \in 1..(Len(s) + 1), i < j
       PROVE  g[t[i]] < g[t[j]] /\ g[t[j]] - g[t[i]] < mWindowSize
  <2>1. CASE i \in 1..p /\ j \in 1..p
    BY <1>9, <1>14, <1>17, <2>1
  <2>2. CASE i \in 1..p /\ j = p + 1
    BY <1>9, <1>10, <1>15, <1>16, <2>2
  <2>3. CASE i \in 1..p /\ j \in (p + 2)..(Len(s) + 1)
    <3>1. i \in 1..Len(s) /\ j - 1 \in 1..Len(s) /\ i < j - 1
      BY <1>2, <2>3
    <3>2. QED
      BY <1>9, <1>11, <1>14, <2>3, <3>1
  <2>4. CASE i = p + 1 /\ j \in (p + 2)..(Len(s) + 1)
    <3>1. j - 1 \in 1..Len(s) /\ j - 1 \in (p + 1)..Len(s)
      BY <1>2, <2>4
    <3>2. QED
      BY <1>10, <1>11, <1>15, <1>16, <2>4, <3>1
  <2>5. CASE i \in (p + 2)..(Len(s) + 1) /\ j \in (p + 2)..(Len(s) + 1)
    <3>1. i - 1 \in 1..Len(s) /\ j - 1 \in 1..Len(s) /\ i - 1 < j - 1
      BY <1>2, <1>17, <2>5
    <3>2. QED
      BY <1>11, <1>14, <2>5, <3>1
  <2>6. QED
    <3>1. i \in 1..p => j \in 1..p \/ j = p + 1 \/ j \in (p + 2)..(Len(s) + 1)
      BY <1>12
    <3>2. i = p + 1 => j \in (p + 2)..(Len(s) + 1)
      BY <1>2, <1>17
    <3>3. i \in (p + 2)..(Len(s) + 1) => j \in (p + 2)..(Len(s) + 1)
      BY <1>2, <1>17
    <3>4. QED
      BY <1>12, <2>1, <2>2, <2>3, <2>4, <2>5, <3>1, <3>2, <3>3
<1>18. {g[t[i]] : i \in 1..(Len(s) + 1)} = keys \cup {key}
  <2>1. ASSUME NEW i \in 1..(Len(s) + 1) PROVE g[t[i]] \in keys \cup {key}
    <3>1. i \in 1..p => g[t[i]] \in keys
      BY <1>2, <1>9
    <3>2. i \in (p + 2)..(Len(s) + 1) => i - 1 \in 1..Len(s)
      BY <1>2
    <3>3. i \in (p + 2)..(Len(s) + 1) => g[t[i]] \in keys
      BY <1>2, <1>11, <3>2
    <3>4. QED
      BY <1>10, <1>12, <3>1, <3>3
  <2>2. ASSUME NEW k \in keys PROVE \E i \in 1..(Len(s) + 1) : k = g[t[i]]
    <3>1. PICK j \in 1..Len(s) : k = f[s[j]]
      BY <1>1, KeyFacts
    <3>2. CASE j <= p
      <4>1. j \in 1..p /\ j \in 1..(Len(s) + 1)
        BY <1>2, <3>2
      <4>2. QED
        BY <1>9, <3>1, <4>1
    <3>3. CASE ~(j <= p)
      <4>1. j + 1 \in (p + 2)..(Len(s) + 1) /\ j + 1 \in 1..(Len(s) + 1) /\ (j + 1) - 1 = j
        BY <1>2, <3>3
      <4>2. QED
        BY <1>11, <3>1, <4>1
    <3>4. QED
      BY <3>2, <3>3
  <2>3. p + 1 \in 1..(Len(s) + 1)
    BY <1>2
  <2>4. QED
    BY <1>10, <2>1, <2>2, <2>3
<1>19. key \notin keys
  <2>1. ASSUME key \in keys PROVE FALSE
    <3>1. PICK i \in 1..Len(s) : key = first[s[i]]
      BY <2>1, KeyFacts
    <3>2. slotIdx(key) = s[i] /\ s[i] \in Range(s)
      BY <3>1, KeyFacts
    <3>3. QED
      BY <3>2
  <2>2. QED
    BY <2>1
<1>20. IsFiniteSet(keys') /\ Cardinality(keys') = Len(s) + 1
  <2>1. IsFiniteSet(keys) /\ Cardinality(keys) = Len(s)
    BY DEF KeysInv
  <2>2. IsFiniteSet(keys \cup {key}) /\ Cardinality(keys \cup {key}) = Len(s) + 1
    BY <1>19, <2>1, FS_AddElement
  <2>3. QED
    BY <2>2
<1>21. IsFiniteSet(Range(t)) /\ Cardinality(Range(t)) = Len(s) + 1
  <2>1. IsFiniteSet(Range(s)) /\ Cardinality(Range(s)) = Len(s)
    BY DEF KeysInv
  <2>2. IsFiniteSet(Range(s) \cup {x}) /\ Cardinality(Range(s) \cup {x}) = Len(s) + 1
    BY <2>1, FS_AddElement
  <2>3. QED
    BY <1>7, <2>2
<1>22. \A y \in Slots \ Range(t) : g[y] = gNullValue
  BY <1>1, <1>7, <1>8 DEF KeysInv
<1>23. mSize' = Len(s) + 1
  BY DEF KeysInv
<1>24. Ascending(g, t)
  BY <1>3, <1>17 DEF Ascending
<1>25. KeysInv(t)'
  <2>1. first' \in [Slots -> Int] /\ \A y \in Slots \ Range(t) : first'[y] = gNullValue
    BY ONLY <1>1, <1>8, <1>22
  <2>2. \A i \in 1..Len(t) : first'[t[i]] \in 0..MaxKey /\ slotIdx(first'[t[i]]) = t[i]
    BY ONLY <1>1, <1>3, <1>13
  <2>3. Ascending(first', t)
    BY ONLY <1>1, <1>24
  <2>4. keys' = {first'[t[i]] : i \in 1..Len(t)}
    <3>1. keys' = keys \cup {key}
      BY <1>1
    <3>2. QED
      BY ONLY <1>1, <1>3, <1>18, <3>1
  <2>5. mSize' = Len(t) /\ IsFiniteSet(keys') /\ Cardinality(keys') = Len(t)
    BY ONLY <1>3, <1>20, <1>23
  <2>6. IsFiniteSet(Range(t)) /\ Cardinality(Range(t)) = Len(t)
    BY ONLY <1>3, <1>21
  <2>7. QED
    BY <2>1, <2>2, <2>3, <2>4, <2>5, <2>6 DEF KeysInv
<1>26. QED
  BY <1>1, <1>25

(* A key that is taken out keeps the others in order.                      *)
LEMMA EraseKeepsKeys ==
  ASSUME NEW s \in Seq(Slots), KeysInv(s), NEW p \in 1..Len(s),
         first' = [first EXCEPT ![s[p]] = gNullValue],
         keys' = keys \ {first[s[p]]}, mSize' = mSize - 1
  PROVE  KeysInv(Del(s, p))'
<1>1. PICK f, g, t, x : f = first /\ g = first' /\ t = Del(s, p) /\ x = s[p]
  OBVIOUS
<1>2. /\ Len(s) \in Nat /\ Distinct(s)
      /\ \A i \in 1..Len(s) : /\ s[i] \in Slots /\ s[i] \in Range(s)
                              /\ f[s[i]] \in Int /\ f[s[i]] \in keys
  BY <1>1, KeyFacts
<1>p. p \in Nat /\ 1 <= p /\ p <= Len(s)
  BY <1>2
<1>q. s \in Seq(Slots) /\ p \in 1..Len(s) /\ Distinct(s)
  BY <1>2
<1>3. t \in Seq(Slots) /\ Len(t) = Len(s) - 1
  BY ONLY <1>1, <1>q, DelFacts
<1>4. \A i \in 1..(p - 1) : t[i] = s[i]
  BY ONLY <1>1, <1>q, DelFacts
<1>5. \A i \in p..(Len(s) - 1) : t[i] = s[i + 1]
  BY ONLY <1>1, <1>q, DelFacts
<1>6. Range(t) = Range(s) \ {x}
  BY ONLY <1>1, <1>q, DelFacts
<1>7. gNullValue \in Int
  BY DEF gNullValue
<1>8. /\ g \in [Slots -> Int] /\ g[x] = gNullValue
      /\ \A y \in Slots : y # x => g[y] = f[y]
  BY <1>1, <1>2, <1>7 DEF KeysInv
<1>9. \A i \in 1..(p - 1) : t[i] = s[i] /\ g[t[i]] = f[s[i]] /\ i \in 1..Len(s)
  <2>1. \A i \in 1..(p - 1) : i \in 1..Len(s) /\ i # p
    BY <1>2, <1>p
  <2>2. \A i \in 1..(p - 1) : s[i] # x
    BY <1>1, <1>2, <2>1 DEF Distinct
  <2>3. QED
    BY <1>2, <1>4, <1>8, <2>1, <2>2
<1>10. \A i \in p..(Len(s) - 1) : t[i] = s[i + 1] /\ g[t[i]] = f[s[i + 1]] /\ i + 1 \in 1..Len(s)
  <2>1. \A i \in p..(Len(s) - 1) : i + 1 \in 1..Len(s) /\ i + 1 # p
    BY <1>2, <1>p
  <2>2. \A i \in p..(Len(s) - 1) : s[i + 1] # x
    BY <1>1, <1>2, <2>1 DEF Distinct
  <2>3. QED
    BY <1>2, <1>5, <1>8, <2>1, <2>2
<1>11. \A i \in 1..(Len(s) - 1) : i \in 1..(p - 1) \/ i \in p..(Len(s) - 1)
  BY <1>2, <1>p
<1>12. \A i \in 1..(Len(s) - 1) : g[t[i]] \in 0..MaxKey /\ slotIdx(g[t[i]]) = t[i]
  <2>1. \A i \in 1..Len(s) : f[s[i]] \in 0..MaxKey /\ slotIdx(f[s[i]]) = s[i]
    BY <1>1 DEF KeysInv
  <2>2. QED
    BY <1>9, <1>10, <1>11, <2>1
<1>13. \A i, j \in 1..Len(s) : i < j => f[s[i]] < f[s[j]] /\ f[s[j]] - f[s[i]] < mWindowSize
  BY <1>1 DEF KeysInv, Ascending
<1>14. ASSUME NEW i \in 1..(Len(s) - 1), NEW j \in 1..(Len(s) - 1), i < j
       PROVE  g[t[i]] < g[t[j]] /\ g[t[j]] - g[t[i]] < mWindowSize
  <2>1. CASE i \in 1..(p - 1) /\ j \in 1..(p - 1)
    BY <1>9, <1>13, <1>14, <2>1
  <2>2. CASE i \in 1..(p - 1) /\ j \in p..(Len(s) - 1)
    <3>1. i \in 1..Len(s) /\ j + 1 \in 1..Len(s) /\ i < j + 1
      BY <1>2, <1>p, <1>14
    <3>2. QED
      BY <1>9, <1>10, <1>13, <2>2, <3>1
  <2>3. CASE i \in p..(Len(s) - 1) /\ j \in p..(Len(s) - 1)
    <3>1. i + 1 \in 1..Len(s) /\ j + 1 \in 1..Len(s) /\ i + 1 < j + 1
      BY <1>2, <1>p, <1>14
    <3>2. QED
      BY <1>10, <1>13, <2>3, <3>1
  <2>4. QED
    <3>1. i \in p..(Len(s) - 1) => j \in p..(Len(s) - 1)
      BY <1>2, <1>p, <1>14
    <3>2. QED
      BY <1>11, <2>1, <2>2, <2>3, <3>1
<1>15. {g[t[i]] : i \in 1..(Len(s) - 1)} = keys \ {f[x]}
  <2>0. \A i \in 1..Len(s) : i # p => f[s[i]] # f[x]
    <3>1. \A i \in 1..Len(s) : i # p => i < p \/ p < i
      BY <1>2, <1>p
    <3>2. QED
      BY <1>1, <1>2, <1>13, <3>1
  <2>1. ASSUME NEW i \in 1..(Len(s) - 1) PROVE g[t[i]] \in keys \ {f[x]}
    <3>1. CASE i \in 1..(p - 1)
      <4>1. i # p
        BY <1>p, <3>1
      <4>2. QED
        BY <1>2, <1>9, <2>0, <3>1, <4>1
    <3>2. CASE i \in p..(Len(s) - 1)
      <4>1. i + 1 # p
        BY <1>p, <3>2
      <4>2. QED
        BY <1>2, <1>10, <2>0, <3>2, <4>1
    <3>3. QED
      BY <1>11, <3>1, <3>2
  <2>2. ASSUME NEW k \in keys \ {f[x]} PROVE \E i \in 1..(Len(s) - 1) : k = g[t[i]]
    <3>1. PICK j \in 1..Len(s) : k = f[s[j]]
      BY <1>1, KeyFacts
    <3>2. j # p
      BY <1>1, <2>2, <3>1
    <3>3. CASE j < p
      <4>1. j \in 1..(p - 1) /\ j \in 1..(Len(s) - 1)
        BY <1>2, <1>p, <3>3
      <4>2. QED
        BY <1>9, <3>1, <4>1
    <3>4. CASE p < j
      <4>1. j - 1 \in p..(Len(s) - 1) /\ j - 1 \in 1..(Len(s) - 1) /\ (j - 1) + 1 = j
        BY <1>2, <1>p, <3>4
      <4>2. QED
        BY <1>10, <3>1, <4>1
    <3>5. QED
      BY <1>p, <3>2, <3>3, <3>4
  <2>3. QED
    BY <2>1, <2>2
<1>16. IsFiniteSet(keys') /\ Cardinality(keys') = Len(s) - 1
  <2>1. IsFiniteSet(keys) /\ Cardinality(keys) = Len(s) /\ f[x] \in keys
    BY <1>1, <1>2 DEF KeysInv
  <2>2. IsFiniteSet(keys \ {f[x]}) /\ Cardinality(keys \ {f[x]}) = Len(s) - 1
    BY <2>1, FS_RemoveElement
  <2>3. QED
    BY <1>1, <2>2
<1>17. IsFiniteSet(Range(t)) /\ Cardinality(Range(t)) = Len(s) - 1
  <2>1. IsFiniteSet(Range(s)) /\ Cardinality(Range(s)) = Len(s) /\ x \in Range(s)
    BY <1>1, <1>2 DEF KeysInv
  <2>2. IsFiniteSet(Range(s) \ {x}) /\ Cardinality(Range(s) \ {x}) = Len(s) - 1
    BY <2>1, FS_RemoveElement
  <2>3. QED
    BY <1>6, <2>2
<1>18. \A y \in Slots \ Range(t) : g[y] = gNullValue
  BY <1>1, <1>6, <1>8 DEF KeysInv
<1>19. mSize' = Len(s) - 1
  BY DEF KeysInv
<1>20. Ascending(g, t)
  BY <1>3, <1>14 DEF Ascending
<1>21. KeysInv(t)'
  <2>1. first' \in [Slots -> Int] /\ \A y \in Slots \ Range(t) : first'[y] = gNullValue
    BY ONLY <1>1, <1>8, <1>18
  <2>2. \A i \in 1..Len(t) : first'[t[i]] \in 0..MaxKey /\ slotIdx(first'[t[i]]) = t[i]
    BY ONLY <1>1, <1>3, <1>12
  <2>3. Ascending(first', t)
    BY ONLY <1>1, <1>20
  <2>4. keys' = {first'[t[i]] : i \in 1..Len(t)}
    <3>1. keys' = keys \ {f[x]}
      BY <1>1
    <3>2. QED
      BY ONLY <1>1, <1>3, <1>15, <3>1
  <2>5. mSize' = Len(t) /\ IsFiniteSet(keys') /\ Cardinality(keys') = Len(t)
    BY ONLY <1>3, <1>16, <1>19
  <2>6. IsFiniteSet(Range(t)) /\ Cardinality(Range(t)) = Len(t)
    BY ONLY <1>3, <1>17
  <2>7. QED
    BY <2>1, <2>2, <2>3, <2>4, <2>5, <2>6 DEF KeysInv
<1>22. QED
  BY <1>1, <1>21

(* A slot is in use when it is one of s.                                   *)
LEMMA InUse ==
  ASSUME NEW s \in Seq(Slots), KeysInv(s), NEW x \in Slots
  PROVE  IsInList(x) <=> x \in Range(s)
<1>1. x \in Range(s) => \E i \in 1..Len(s) : x = s[i]
  BY Members
<1>2. x \in Range(s) => first[x] # gNullValue
  BY <1>1, KeyFacts
<1>3. x \notin Range(s) => first[x] = gNullValue
  BY DEF KeysInv
<1>4. QED
  BY <1>2, <1>3 DEF IsInList

(* No two keys of the map are a window apart.                              *)
LEMMA Spread ==
  ASSUME NEW s \in Seq(Slots), KeysInv(s)
  PROVE  \A i, j \in 1..Len(s) : first[s[j]] - first[s[i]] < mWindowSize
<1>1. PICK f, W : f = first /\ W = mWindowSize
  OBVIOUS
<1>2. /\ W \in Int /\ W > 0
      /\ Len(s) \in Nat
      /\ \A i \in 1..Len(s) : f[s[i]] \in Int
      /\ \A i, j \in 1..Len(s) : i < j => f[s[i]] < f[s[j]] /\ f[s[j]] - f[s[i]] < W
  <2>1. W \in Int /\ W > 0 /\ Len(s) \in Nat
    BY <1>1, WindowAssumption
  <2>2. \A i \in 1..Len(s) : f[s[i]] \in Int
    BY <1>1, KeyFacts
  <2>3. \A i, j \in 1..Len(s) : i < j => f[s[i]] < f[s[j]] /\ f[s[j]] - f[s[i]] < W
    BY <1>1 DEF KeysInv, Ascending
  <2>4. QED
    BY <2>1, <2>2, <2>3
<1>3. ASSUME NEW i \in 1..Len(s), NEW j \in 1..Len(s) PROVE f[s[j]] - f[s[i]] < W
  <2>1. i < j \/ i = j \/ j < i
    BY <1>2
  <2>2. CASE i < j
    BY <1>2, <2>2
  <2>3. CASE i = j
    BY ONLY <1>2, <2>3
  <2>4. CASE j < i
    <3>1. f[s[j]] < f[s[i]] /\ f[s[j]] \in Int /\ f[s[i]] \in Int
      BY <1>2, <2>4
    <3>2. QED
      BY ONLY <1>2, <3>1
  <2>5. QED
    BY <2>1, <2>2, <2>3, <2>4
<1>4. QED
  BY <1>1, <1>3

(* A slot that is in use where a key would go holds this key, or one that  *)
(* is a window apart.                                                      *)
LEMMA SlotHolds ==
  ASSUME NEW s \in Seq(Slots), KeysInv(s), NEW k \in Int, IsInList(slotIdx(k)),
         \A i \in 1..Len(s) : /\ k - first[s[i]] < 2 * mWindowSize
                              /\ first[s[i]] - k < 2 * mWindowSize
  PROVE  \E i \in 1..Len(s) : /\ slotIdx(k) = s[i]
                              /\ \/ first[s[i]] = k
                                 \/ first[s[i]] = k + mWindowSize
                                 \/ first[s[i]] = k - mWindowSize
<1>1. slotIdx(k) \in Slots
  BY SlotOfKey
<1>2. PICK i \in 1..Len(s) : slotIdx(k) = s[i]
  BY <1>1, InUse, Members
<1>3. first[s[i]] \in Int /\ slotIdx(first[s[i]]) = slotIdx(k)
  BY <1>2, KeyFacts
<1>4. PICK a : a = first[s[i]]
  OBVIOUS
<1>5. a \in Int /\ slotIdx(k) = slotIdx(a) /\ a - k < 2 * mWindowSize /\ k - a < 2 * mWindowSize
  BY <1>3, <1>4
<1>6. a = k \/ a = k + mWindowSize \/ a = k - mWindowSize
  BY ONLY k \in Int, <1>5, SameSlot
<1>7. QED
  BY <1>2, <1>4, <1>6

(* How far a key that fits is from the keys of the map.                    *)
LEMMA FitsMeans ==
  ASSUME NEW s \in Seq(Slots), KeysInv(s), NEW key \in Int, Fits(key)
  PROVE  \A i \in 1..Len(s) : /\ key - first[s[i]] < mWindowSize
                              /\ first[s[i]] - key < mWindowSize
<1>1. ASSUME NEW i \in 1..Len(s)
      PROVE  key - first[s[i]] < mWindowSize /\ first[s[i]] - key < mWindowSize
  <2>1. PICK k : k = first[s[i]]
    OBVIOUS
  <2>2. k \in Int /\ k \in keys
    BY <2>1, KeyFacts
  <2>3. k - key \in (1 - mWindowSize)..(mWindowSize - 1)
    BY <2>2 DEF Fits
  <2>4. key - k < mWindowSize /\ k - key < mWindowSize
    BY ONLY key \in Int, <2>2, <2>3, WindowAssumption
  <2>5. QED
    BY <2>1, <2>4
<1>2. QED
  BY <1>1

(* A key lies behind the first p keys of the sequence.                     *)
Between(s, key, p) ==
  /\ \A i \in 1..p : first[s[i]] < key
  /\ \A i \in (p + 1)..Len(s) : key < first[s[i]]

(* The search downwards.                                                   *)
LEMMA NearestBelow ==
  ASSUME NEW s \in Seq(Slots), KeysInv(s), NEW key \in Int, Fits(key),
         NEW p \in 1..Len(s), Between(s, key, p)
  PROVE  Nearest(key, -1) = s[p]
<1>1. PICK f, W : f = first /\ W = mWindowSize
  OBVIOUS
<1>2. /\ W \in Int /\ W > 0 /\ Len(s) \in Nat /\ p \in Nat /\ 1 <= p /\ p <= Len(s)
      /\ \A i \in 1..Len(s) : f[s[i]] \in Int
  BY <1>1, WindowAssumption, KeyFacts
<1>3. /\ \A i \in 1..p : f[s[i]] < key
      /\ \A i \in (p + 1)..Len(s) : key < f[s[i]]
  BY <1>1 DEF Between
<1>4. \A i \in 1..Len(s) : key - f[s[i]] < W /\ f[s[i]] - key < W
  BY <1>1, FitsMeans
<1>5. \A i \in 1..Len(s) : f[s[i]] - f[s[p]] < W /\ (i < p => f[s[i]] < f[s[p]])
  BY <1>1, Spread DEF KeysInv, Ascending
<1>6. PICK e : e = key - f[s[p]]
  OBVIOUS
<1>7. e \in Int /\ 1 <= e /\ e < W /\ key - e = f[s[p]] /\ f[s[p]] \in Int
  <2>1. f[s[p]] \in Int /\ f[s[p]] < key /\ key - f[s[p]] < W
    BY <1>2, <1>3, <1>4
  <2>2. QED
    BY ONLY key \in Int, <1>2, <1>6, <2>1
<1>w. W \in Int
  BY <1>2
<1> DEFINE at(d) == slotIdx(key + d * (-1))
           First(d) == IsInList(at(d)) /\ \A c \in 1..(d - 1) : ~IsInList(at(c))
           D == CHOOSE d \in 1..W : First(d)
<1>8. \A d \in Int : key + d * (-1) = key - d
  BY ONLY key \in Int
<1>9. at(e) = s[p] /\ IsInList(at(e))
  <2>1. at(e) = slotIdx(f[s[p]])
    BY <1>7, <1>8
  <2>2. at(e) = s[p]
    BY <1>1, <2>1, KeyFacts
  <2>3. QED
    BY <2>2, InUse, KeyFacts
<1>10. ASSUME NEW c \in 1..(e - 1) PROVE ~IsInList(at(c))
  <2>1. PICK k : k = key - c
    OBVIOUS
  <2>2. c \in Int /\ 1 <= c /\ c < e
    BY <1>7
  <2>3. k \in Int /\ k < key /\ f[s[p]] < k /\ key - k < W
    BY ONLY key \in Int, <1>7, <1>w, <2>1, <2>2
  <2>4. at(c) = slotIdx(k)
    BY <1>8, <2>1, <2>2
  <2>5. SUFFICES ASSUME IsInList(slotIdx(k)) PROVE FALSE
    BY <2>4
  <2>6. ASSUME NEW i \in 1..Len(s) PROVE k - f[s[i]] < 2 * W /\ f[s[i]] - k < 2 * W
    <3>1. PICK a : a = f[s[i]]
      OBVIOUS
    <3>2. a \in Int /\ key - a < W /\ a - key < W
      BY <1>2, <1>4, <3>1
    <3>3. k \in Int /\ k < key /\ key - k < W /\ W > 0
      BY <1>2, <2>3
    <3>4. k - a < 2 * W
      BY ONLY key \in Int, <1>w, <3>2, <3>3
    <3>5. a - k < 2 * W
      BY ONLY key \in Int, <1>w, <3>2, <3>3
    <3>6. QED
      BY <3>1, <3>4, <3>5
  <2>7. PICK i \in 1..Len(s) : f[s[i]] = k \/ f[s[i]] = k + W \/ f[s[i]] = k - W
    BY <1>1, <2>3, <2>5, <2>6, SlotHolds
  <2>8. PICK a : a = f[s[i]]
    OBVIOUS
  <2>9. a \in Int /\ key - a < W /\ a - f[s[p]] < W
    BY <1>2, <1>4, <1>5, <2>8
  <2>10. a = k
    <3>1. a = k \/ a = k + W \/ a = k - W
      BY <2>7, <2>8
    <3>2. PICK b : b = f[s[p]]
      OBVIOUS
    <3>3. b \in Int /\ b < k /\ k < key /\ a - b < W
      BY <1>7, <2>3, <2>9, <3>2
    <3>4. a # k + W
      BY ONLY key \in Int, <1>w, <2>3, <2>9, <3>3
    <3>5. a # k - W
      BY ONLY key \in Int, <1>w, <2>3, <2>9, <3>3
    <3>6. QED
      BY <3>1, <3>4, <3>5
  <2>11. i <= p => i = p \/ i < p
    BY <1>2
  <2>12. i <= p => a <= f[s[p]]
    BY <1>5, <1>7, <2>8, <2>9, <2>11
  <2>13. ~(i <= p) => key < a
    BY <1>2, <1>3, <2>8
  <2>14. QED
    BY ONLY key \in Int, <1>7, <2>3, <2>9, <2>10, <2>12, <2>13
<1>11. e \in 1..W /\ First(e)
  <2>1. e \in 1..W
    BY ONLY <1>2, <1>7
  <2>2. QED
    BY <1>9, <1>10, <2>1
<1>12. D \in 1..W /\ First(D)
  <2>1. \E d \in 1..W : First(d)
    BY <1>11
  <2> HIDE DEF First
  <2>2. QED
    BY <2>1
<1>13. Nearest(key, -1) = at(D)
  BY <1>1 DEF Nearest
<1>14. D = e
  <2> HIDE DEF D
  <2>1. D \in Int /\ 1 <= D
    BY <1>12
  <2>2. D < e => D \in 1..(e - 1)
    BY <1>7, <2>1
  <2>3. e < D => e \in 1..(D - 1)
    BY <1>7, <2>1
  <2>4. ~(D < e)
    BY <1>10, <1>12, <2>2
  <2>5. ~(e < D)
    BY <1>9, <1>12, <2>3
  <2>6. QED
    BY <1>7, <2>1, <2>4, <2>5
<1>15. QED
  BY <1>9, <1>13, <1>14

(* The search upwards.                                                     *)
LEMMA NearestAbove ==
  ASSUME NEW s \in Seq(Slots), KeysInv(s), NEW key \in Int, Fits(key),
         NEW p \in 0..(Len(s) - 1), Between(s, key, p)
  PROVE  Nearest(key, 1) = s[p + 1]
<1>1. PICK f, W : f = first /\ W = mWindowSize
  OBVIOUS
<1>2. /\ W \in Int /\ W > 0 /\ Len(s) \in Nat /\ p \in Nat /\ p + 1 \in 1..Len(s)
      /\ \A i \in 1..Len(s) : f[s[i]] \in Int
  <2>1. Len(s) \in Nat
    BY Members
  <2>2. p \in Nat /\ p + 1 \in 1..Len(s)
    BY <2>1
  <2>3. QED
    BY <1>1, <2>1, <2>2, WindowAssumption, KeyFacts
<1>3. /\ \A i \in 1..p : f[s[i]] < key
      /\ \A i \in (p + 1)..Len(s) : key < f[s[i]]
  BY <1>1 DEF Between
<1>4. \A i \in 1..Len(s) : key - f[s[i]] < W /\ f[s[i]] - key < W
  BY <1>1, FitsMeans
<1>5. \A i \in 1..Len(s) : f[s[p + 1]] - f[s[i]] < W /\ (p + 1 < i => f[s[p + 1]] < f[s[i]])
  BY <1>1, <1>2, Spread DEF KeysInv, Ascending
<1>6. PICK e : e = f[s[p + 1]] - key
  OBVIOUS
<1>7. e \in Int /\ 1 <= e /\ e < W /\ key + e = f[s[p + 1]] /\ f[s[p + 1]] \in Int
  <2>0. p + 1 \in (p + 1)..Len(s)
    BY <1>2
  <2>1. f[s[p + 1]] \in Int /\ key < f[s[p + 1]] /\ f[s[p + 1]] - key < W
    BY <1>2, <1>3, <1>4, <2>0
  <2>2. QED
    BY ONLY key \in Int, <1>2, <1>6, <2>1
<1>w. W \in Int
  BY <1>2
<1> DEFINE at(d) == slotIdx(key + d * 1)
           First(d) == IsInList(at(d)) /\ \A c \in 1..(d - 1) : ~IsInList(at(c))
           D == CHOOSE d \in 1..W : First(d)
<1>8. \A d \in Int : key + d * 1 = key + d
  BY ONLY key \in Int
<1>9. at(e) = s[p + 1] /\ IsInList(at(e))
  <2>1. at(e) = slotIdx(f[s[p + 1]])
    BY <1>7, <1>8
  <2>2. at(e) = s[p + 1]
    BY <1>1, <1>2, <2>1, KeyFacts
  <2>3. QED
    BY <1>2, <2>2, InUse, KeyFacts
<1>10. ASSUME NEW c \in 1..(e - 1) PROVE ~IsInList(at(c))
  <2>1. PICK k : k = key + c
    OBVIOUS
  <2>2. c \in Int /\ 1 <= c /\ c < e
    BY <1>7
  <2>3. k \in Int /\ key < k /\ k < f[s[p + 1]] /\ k - key < W
    BY ONLY key \in Int, <1>7, <1>w, <2>1, <2>2
  <2>4. at(c) = slotIdx(k)
    BY <1>8, <2>1, <2>2
  <2>5. SUFFICES ASSUME IsInList(slotIdx(k)) PROVE FALSE
    BY <2>4
  <2>6. ASSUME NEW i \in 1..Len(s) PROVE k - f[s[i]] < 2 * W /\ f[s[i]] - k < 2 * W
    <3>1. PICK a : a = f[s[i]]
      OBVIOUS
    <3>2. a \in Int /\ key - a < W /\ a - key < W
      BY <1>2, <1>4, <3>1
    <3>3. k \in Int /\ key < k /\ k - key < W /\ W > 0
      BY <1>2, <2>3
    <3>4. k - a < 2 * W
      BY ONLY key \in Int, <1>w, <3>2, <3>3
    <3>5. a - k < 2 * W
      BY ONLY key \in Int, <1>w, <3>2, <3>3
    <3>6. QED
      BY <3>1, <3>4, <3>5
  <2>7. PICK i \in 1..Len(s) : f[s[i]] = k \/ f[s[i]] = k + W \/ f[s[i]] = k - W
    BY <1>1, <2>3, <2>5, <2>6, SlotHolds
  <2>8. PICK a : a = f[s[i]]
    OBVIOUS
  <2>9. a \in Int /\ a - key < W /\ f[s[p + 1]] - a < W
    BY <1>2, <1>4, <1>5, <2>8
  <2>10. a = k
    <3>1. a = k \/ a = k + W \/ a = k - W
      BY <2>7, <2>8
    <3>2. PICK b : b = f[s[p + 1]]
      OBVIOUS
    <3>3. b \in Int /\ key < k /\ k < b /\ b - a < W
      BY <1>7, <2>3, <2>9, <3>2
    <3>4. a # k - W
      BY ONLY key \in Int, <1>w, <2>3, <2>9, <3>3
    <3>5. a # k + W
      BY ONLY key \in Int, <1>w, <2>3, <2>9, <3>3
    <3>6. QED
      BY <3>1, <3>4, <3>5
  <2>11. ~(i <= p) => i = p + 1 \/ p + 1 < i
    BY <1>2
  <2>12. ~(i <= p) => f[s[p + 1]] <= a
    BY <1>5, <1>7, <2>8, <2>9, <2>11
  <2>13. i <= p => a < key
    BY <1>2, <1>3, <2>8
  <2>14. QED
    BY ONLY key \in Int, <1>7, <2>3, <2>9, <2>10, <2>12, <2>13
<1>11. e \in 1..W /\ First(e)
  <2>1. e \in 1..W
    BY ONLY <1>2, <1>7
  <2>2. QED
    BY <1>9, <1>10, <2>1
<1>12. D \in 1..W /\ First(D)
  <2>1. \E d \in 1..W : First(d)
    BY <1>11
  <2> HIDE DEF First
  <2>2. QED
    BY <2>1
<1>13. Nearest(key, 1) = at(D)
  BY <1>1 DEF Nearest
<1>14. D = e
  <2> HIDE DEF D
  <2>1. D \in Int /\ 1 <= D
    BY <1>12
  <2>2. D < e => D \in 1..(e - 1)
    BY <1>7, <2>1
  <2>3. e < D => e \in 1..(D - 1)
    BY <1>7, <2>1
  <2>4. ~(D < e)
    BY <1>10, <1>12, <2>2
  <2>5. ~(e < D)
    BY <1>9, <1>12, <2>3
  <2>6. QED
    BY <1>7, <2>1, <2>4, <2>5
<1>15. QED
  BY <1>9, <1>13, <1>14

(* Whichever end or neighbour Insert2List starts from, the slot comes to   *)
(* the place of its key.                                                   *)
LEMMA InsertPuts ==
  ASSUME NEW s \in Seq(Slots), ListInv(s), KeysInv(s), NEW key \in Int, Fits(key),
         NEW x \in Slots, x \notin Range(s), NEW p \in 0..Len(s), Between(s, key, p),
         Insert2List(key, x)
  PROVE  PutAt(s, p, x)
<1>1. PICK f, n : f = first /\ n = Len(s)
  OBVIOUS
<1>2. /\ n \in Nat /\ p \in Nat /\ p <= n /\ Distinct(s)
      /\ \A i \in 1..n : s[i] \in Slots /\ s[i] # x /\ f[s[i]] \in Int
  <2>1. n \in Nat
    BY <1>1, Members
  <2>2. p \in Nat /\ p <= n
    BY <1>1, <2>1
  <2>3. QED
    BY <1>1, <2>1, <2>2, KeyFacts
<1>3. nil \notin Slots
  BY NilIsNoSlot
<1>4. /\ nextOf \in [Slots -> Slots \cup {nil}] /\ prevOf \in [Slots -> Slots \cup {nil}]
      /\ nextOf[x] = nil /\ prevOf[x] = nil
      /\ \A i \in 1..(n - 1) : nextOf[s[i]] = s[i + 1] /\ prevOf[s[i + 1]] = s[i]
  BY <1>1 DEF ListInv
<1>5. n # 0 => mHead = s[1] /\ mTail = s[n]
  BY <1>1 DEF ListInv
<1>6. mSize = n
  BY <1>1 DEF KeysInv
<1>7. /\ \A i \in 1..p : f[s[i]] < key
      /\ \A i \in (p + 1)..n : key < f[s[i]]
  BY <1>1 DEF Between
<1>8. CASE n = 0
  <2>1. p = 0 /\ ~(p > 0) /\ ~(p < n) /\ p = n
    BY <1>2, <1>8
  <2>2. push_first(x)
    BY <1>6, <1>8 DEF Insert2List
  <2>3. /\ nextOf' = [nextOf EXCEPT ![x] = nil] /\ prevOf' = [prevOf EXCEPT ![x] = nil]
        /\ mHead' = x /\ mTail' = x
    BY <2>2 DEF push_first
  <2>4. QED
    BY <1>1, <1>4, <2>1, <2>3 DEF PutAt
<1>9. CASE n # 0 /\ key < f[s[1]]
  <2>1. p = 0
    <3>1. p >= 1 => 1 \in 1..p /\ 1 \in 1..n
      BY <1>2
    <3>2. p >= 1 => FALSE
      BY <1>2, <1>7, <1>9, <3>1
    <3>3. QED
      BY <1>2, <3>2
  <2>2. ~(p > 0) /\ p < n /\ p # n /\ p + 1 = 1 /\ 1 \in 1..n
    BY <1>2, <1>9, <2>1
  <2>3. push_front(x)
    BY <1>1, <1>5, <1>6, <1>9 DEF Insert2List
  <2>4. /\ nextOf' = [nextOf EXCEPT ![x] = s[1]] /\ prevOf' = [prevOf EXCEPT ![s[1]] = x]
        /\ mHead' = x /\ mTail' = mTail
    BY <1>5, <1>9, <2>3 DEF push_front
  <2>5. s[1] \in Slots /\ s[1] # x
    BY <1>2, <2>2
  <2>6. QED
    BY <1>1, <1>4, <2>1, <2>2, <2>4, <2>5 DEF PutAt
<1>10. CASE n # 0 /\ ~(key < f[s[1]]) /\ key > f[s[n]]
  <2>1. p = n
    <3>1. p < n => n \in (p + 1)..n /\ n \in 1..n
      BY <1>2
    <3>2. p < n => FALSE
      BY <1>2, <1>7, <1>10, <3>1
    <3>3. QED
      BY <1>2, <3>2
  <2>2. ~(p < n) /\ p > 0 /\ p # 0 /\ n \in 1..n
    BY <1>2, <1>10, <2>1
  <2>3. push_back(x)
    BY <1>1, <1>5, <1>6, <1>10 DEF Insert2List
  <2>4. /\ nextOf' = [nextOf EXCEPT ![s[n]] = x] /\ prevOf' = [prevOf EXCEPT ![x] = s[n]]
        /\ mHead' = mHead /\ mTail' = x
    BY <1>5, <1>10, <2>3 DEF push_back
  <2>5. s[n] \in Slots /\ s[n] # x
    BY <1>2, <2>2
  <2>6. QED
    BY <1>1, <1>4, <2>1, <2>2, <2>4, <2>5 DEF PutAt
<1>11. CASE n # 0 /\ ~(key < f[s[1]]) /\ ~(key > f[s[n]])
  <2>1. p >= 1 /\ p < n
    <3>1. (p = 0 => 1 \in (p + 1)..n) /\ (p = n => n \in 1..p) /\ 1 \in 1..n /\ n \in 1..n
      BY <1>2, <1>11
    <3>2. p # 0 /\ p # n
      BY <1>7, <1>11, <3>1
    <3>3. QED
      BY <1>2, <3>2
  <2>2. p \in 1..n /\ p + 1 \in 1..n /\ p \in 1..(n - 1) /\ p \in 0..(n - 1) /\ p # p + 1
    BY <1>2, <2>1
  <2>3. s[p] \in Slots /\ s[p + 1] \in Slots /\ s[p] # x /\ s[p + 1] # x /\ s[p] # s[p + 1]
    BY <1>1, <1>2, <2>2 DEF Distinct
  <2>4. nextOf[s[p]] = s[p + 1] /\ prevOf[s[p + 1]] = s[p]
    BY <1>4, <2>2
  <2>5. Nearest(key, -1) = s[p]
    BY <1>1, <2>2, NearestBelow
  <2>6. Nearest(key, 1) = s[p + 1]
    BY <1>1, <2>2, NearestAbove
  <2>7. insert_after(Nearest(key, -1), x) \/ insert_before(Nearest(key, 1), x)
    BY <1>1, <1>5, <1>6, <1>11 DEF Insert2List
  <2>8. insert_between(s[p], x, s[p + 1])
    <3>1. CASE insert_after(Nearest(key, -1), x)
      <4>1. insert_after(s[p], x)
        BY <2>5, <3>1
      <4>2. QED
        BY <2>4, <4>1 DEF insert_after
    <3>2. CASE insert_before(Nearest(key, 1), x)
      <4>1. insert_before(s[p + 1], x)
        BY <2>6, <3>2
      <4>2. QED
        BY <2>4, <4>1 DEF insert_before
    <3>3. QED
      BY <2>7, <3>1, <3>2
  <2>9. PICK b, a : b = s[p] /\ a = s[p + 1]
    OBVIOUS
  <2>10. /\ nextOf' = [t \in Slots |-> CASE t = x -> a [] t = b -> x [] OTHER -> nextOf[t]]
         /\ prevOf' = [t \in Slots |-> CASE t = x -> b [] t = a -> x [] OTHER -> prevOf[t]]
         /\ mHead' = mHead /\ mTail' = mTail
    BY <2>8, <2>9 DEF insert_between
  <2>11. a \in Slots /\ b \in Slots /\ a # x /\ b # x
    BY <2>3, <2>9
  <2>12. nextOf' \in [Slots -> Slots \cup {nil}] /\ prevOf' \in [Slots -> Slots \cup {nil}]
    BY <1>4, <2>10, <2>11
  <2>13. nextOf'[x] = a /\ \A y \in Slots \ {x} : nextOf'[y] = IF y = b THEN x ELSE nextOf[y]
    BY ONLY x \in Slots, <2>10, <2>11
  <2>14. prevOf'[x] = b /\ \A y \in Slots \ {x} : prevOf'[y] = IF y = a THEN x ELSE prevOf[y]
    BY ONLY x \in Slots, <2>10, <2>11
  <2>15. p > 0 /\ p < n /\ p # 0 /\ p # n
    BY <1>2, <2>1
  <2>16. QED
    BY <1>1, <2>9, <2>10, <2>12, <2>13, <2>14, <2>15 DEF PutAt
<1>12. QED
  BY <1>8, <1>9, <1>10, <1>11

(* insert and operator[].                                                  *)
LEMMA InsertKeeps ==
  ASSUME NEW s, MapIs(s), NEW key \in 0..MaxKey, InsertKey(key)
  PROVE  MapInv'
<1>1. s \in Seq(Slots) /\ ListInv(s) /\ KeysInv(s)
  BY DEF MapIs
<1>2. PICK x : x = slotIdx(key)
  OBVIOUS
<1>3. key \in Int /\ Fits(key)
  BY WindowAssumption DEF InsertKey
<1>4. x \in Slots /\ ~IsInList(x)
  BY <1>2, <1>3, SlotOfKey DEF InsertKey
<1>5. x \notin Range(s)
  BY <1>1, <1>4, InUse
<1>6. key \notin keys
  <2>1. ASSUME key \in keys PROVE FALSE
    <3>1. PICK i \in 1..Len(s) : key = first[s[i]]
      BY <1>1, <2>1, KeyFacts
    <3>2. slotIdx(key) = s[i] /\ s[i] \in Range(s)
      BY <1>1, <3>1, KeyFacts
    <3>3. QED
      BY <1>2, <1>5, <3>2
  <2>2. QED
    BY <2>1
<1>7. PICK p \in 0..Len(s) : Between(s, key, p)
  BY <1>1, <1>3, <1>6, Position DEF Between
<1>8. /\ Insert2List(key, x) /\ first' = [first EXCEPT ![x] = key]
      /\ keys' = keys \cup {key} /\ mSize' = mSize + 1
  BY <1>2 DEF InsertKey, Insert2List
<1>9. PutAt(s, p, x)
  BY <1>1, <1>3, <1>4, <1>5, <1>7, <1>8, InsertPuts
<1>10. Distinct(s)
  BY <1>1, KeyFacts
<1>11. ListInv(Ins(s, p, x))'
  BY <1>1, <1>4, <1>5, <1>9, <1>10, PutKeepsList
<1>12. /\ \A i \in 1..p : first[s[i]] < key
       /\ \A i \in (p + 1)..Len(s) : key < first[s[i]]
  BY <1>7 DEF Between
<1>13. KeysInv(Ins(s, p, x))'
  BY <1>1, <1>2, <1>3, <1>4, <1>5, <1>8, <1>12, PutKeepsKeys
<1>14. Ins(s, p, x) \in Seq(Slots)
  BY <1>1, <1>4, InsFacts
<1>15. PICK t : t = Ins(s, p, x)
  OBVIOUS
<1>16. MapIs(t)'
  <2>1. Slots' = Slots
    BY DEF Slots
  <2>2. t \in Seq(Slots) /\ ListInv(t)' /\ KeysInv(t)'
    BY <1>11, <1>13, <1>14, <1>15
  <2>3. QED
    BY <2>1, <2>2 DEF MapIs
<1>17. QED
  BY <1>16 DEF MapInv

(* erase finds the key it is asked for, since all keys fit the window.     *)
LEMMA EraseKeeps ==
  ASSUME NEW s, MapIs(s), NEW key \in 0..MaxKey, EraseKey(key)
  PROVE  MapInv'
<1>1. s \in Seq(Slots) /\ ListInv(s) /\ KeysInv(s)
  BY DEF MapIs
<1>2. key \in Int /\ Fits(key) /\ IsInList(slotIdx(key))
  BY WindowAssumption DEF EraseKey
<1>3. PICK f, W : f = first /\ W = mWindowSize
  OBVIOUS
<1>4. W \in Int /\ W > 0 /\ \A i \in 1..Len(s) : f[s[i]] \in Int
  BY <1>1, <1>3, WindowAssumption, KeyFacts
<1>5. \A i \in 1..Len(s) : key - f[s[i]] < W /\ f[s[i]] - key < W
  BY <1>1, <1>2, <1>3, FitsMeans
<1>6. PICK p \in 1..Len(s) : slotIdx(key) = s[p] /\ (f[s[p]] = key \/ f[s[p]] = key + W \/ f[s[p]] = key - W)
  <2>1. ASSUME NEW i \in 1..Len(s) PROVE key - f[s[i]] < 2 * W /\ f[s[i]] - key < 2 * W
    <3>1. f[s[i]] \in Int /\ key - f[s[i]] < W /\ f[s[i]] - key < W /\ W \in Int /\ W > 0
      BY <1>4, <1>5
    <3>2. QED
      BY ONLY <1>2, <3>1
  <2>2. QED
    BY <1>1, <1>2, <1>3, <2>1, SlotHolds
<1>7. f[s[p]] = key
  <2>1. f[s[p]] \in Int /\ key - f[s[p]] < W /\ f[s[p]] - key < W /\ W \in Int /\ W > 0
    BY <1>4, <1>5
  <2>2. PICK a : a = f[s[p]]
    OBVIOUS
  <2>3. a = key
    BY ONLY <1>2, <1>6, <2>1, <2>2
  <2>4. QED
    BY <2>2, <2>3
<1>8. Distinct(s)
  BY <1>1, KeyFacts
<1>9. erase(s[p]) /\ first' = [first EXCEPT ![s[p]] = gNullValue] /\ keys' = keys \ {first[s[p]]}
  BY <1>3, <1>6, <1>7 DEF EraseKey
<1>10. mSize' = mSize - 1
  BY <1>9 DEF erase
<1>11. ListInv(Del(s, p))'
  BY <1>1, <1>8, <1>9, EraseKeepsList
<1>12. KeysInv(Del(s, p))'
  BY <1>1, <1>9, <1>10, EraseKeepsKeys
<1>13. Del(s, p) \in Seq(Slots)
  BY <1>1, <1>8, DelFacts
<1>14. PICK t : t = Del(s, p)
  OBVIOUS
<1>15. MapIs(t)'
  <2>1. Slots' = Slots
    BY DEF Slots
  <2>2. t \in Seq(Slots) /\ ListInv(t)' /\ KeysInv(t)'
    BY <1>11, <1>12, <1>13, <1>14
  <2>3. QED
    BY <2>1, <2>2 DEF MapIs
<1>16. QED
  BY <1>15 DEF MapInv

(* An empty map.                                                           *)
LEMMA MapStart == MapInit => MapInv
<1> SUFFICES ASSUME MapInit PROVE MapIs(<<>>)
  BY DEF MapInv
<1>1. <<>> \in Seq(Slots) /\ Len(<<>>) = 0 /\ Range(<<>>) = {}
  BY DEF Range
<1>2. IsFiniteSet({}) /\ Cardinality({}) = 0
  BY FS_EmptySet
<1>3. ListInv(<<>>)
  BY <1>1 DEF MapInit, ListInv
<1>4. KeysInv(<<>>)
  <2>1. gNullValue \in Int
    BY DEF gNullValue
  <2>2. Ascending(first, <<>>)
    BY <1>1 DEF Ascending
  <2>3. {first[<<>>[i]] : i \in 1..0} = {}
    OBVIOUS
  <2>4. QED
    BY <1>1, <1>2, <2>1, <2>2, <2>3 DEF MapInit, KeysInv
<1>5. QED
  BY <1>1, <1>3, <1>4 DEF MapIs

(* insert and erase preserve the invariant.                                *)
LEMMA MapStep == MapInv /\ [MapNext]_mapVars => MapInv'
<1> SUFFICES ASSUME MapInv, [MapNext]_mapVars PROVE MapInv'
  OBVIOUS
<1>1. PICK s : MapIs(s)
  BY DEF MapInv
<1>2. ASSUME NEW key \in 0..MaxKey, InsertKey(key) PROVE MapInv'
  BY <1>1, <1>2, InsertKeeps
<1>3. ASSUME NEW key \in 0..MaxKey, EraseKey(key) PROVE MapInv'
  BY <1>1, <1>3, EraseKeeps
<1>4. CASE UNCHANGED mapVars
  <2>1. UNCHANGED <<first, prevOf, nextOf, mHead, mTail, mSize, keys>>
    BY <1>4 DEF mapVars, listVars
  <2>2. ListInv(s)'
    BY <1>1, <2>1 DEF MapIs, ListInv
  <2>3. KeysInv(s)'
    BY <1>1, <2>1 DEF MapIs, KeysInv
  <2>4. MapIs(s)'
    BY <1>1, <2>2, <2>3 DEF MapIs, Slots
  <2>5. QED
    BY <2>4 DEF MapInv
<1>5. QED
  BY <1>2, <1>3, <1>4 DEF MapNext

(* Some sequence of slots is at all times the list and holds the keys in   *)
(* ascending order: what IsSortedMap rests on.                             *)
THEOREM MapInvariant == MapSpec => []MapInv
BY MapStart, MapStep, PTL DEF MapSpec

(* The sequence has no more slots than there are.                          *)
LEMMA AtMostWindow ==
  ASSUME NEW s \in Seq(Slots), KeysInv(s)
  PROVE  Len(s) \in Nat /\ Len(s) <= mWindowSize
<1>1. Len(s) \in Nat /\ Range(s) \subseteq Slots
  BY Members
<1>2. mWindowSize \in Nat /\ mWindowSize > 0
  BY WindowAssumption
<1>3. IsFiniteSet(Slots) /\ Cardinality(Slots) = mWindowSize
  <2>1. /\ IsFiniteSet(0..(mWindowSize - 1))
        /\ Cardinality(0..(mWindowSize - 1)) =
             IF 0 > mWindowSize - 1 THEN 0 ELSE (mWindowSize - 1) - 0 + 1
    BY <1>2, FS_Interval
  <2>2. QED
    BY <1>2, <2>1 DEF Slots
<1>4. Cardinality(Range(s)) <= Cardinality(Slots)
  BY <1>1, <1>3, FS_Subset
<1>5. QED
  BY <1>1, <1>3, <1>4 DEF KeysInv

Reversed(s) == [i \in 1..Len(s) |-> s[Len(s) + 1 - i]]

(* Following the list forward gives the sequence.                          *)
LEMMA WalkForth == ASSUME NEW s, MapIs(s) PROVE Walk(mHead, nextOf) = s
<1>1. s \in Seq(Slots) /\ ListInv(s) /\ Len(s) \in Nat /\ Len(s) <= mWindowSize /\ mWindowSize \in Nat
  BY AtMostWindow, WindowAssumption DEF MapIs
<1>2. PICK links, item : links = nextOf /\ item = mHead
  OBVIOUS
<1>3. links \in [Slots -> Slots \cup {nil}] /\ AreNeighbours(links, s, nil)
  BY <1>1, <1>2 DEF ListInv, AreNeighbours
<1>4. item = IF Len(s) = 0 THEN nil ELSE s[1]
  BY <1>1, <1>2 DEF ListInv
<1>5. Follow(links, item, nil, mWindowSize) = s
  <2>1. s \in Seq(Slots) /\ mWindowSize \in Nat /\ Len(s) <= mWindowSize
    BY <1>1
  <2>2. QED
    BY ONLY <1>3, <1>4, <2>1, NilIsNoSlot, FollowIs
<1>6. QED
  BY <1>2, <1>5 DEF Walk

(* Following it backward gives the sequence from its end.                  *)
LEMMA WalkBack == ASSUME NEW s, MapIs(s) PROVE Walk(mTail, prevOf) = Reversed(s)
<1>1. s \in Seq(Slots) /\ ListInv(s) /\ Len(s) \in Nat /\ Len(s) <= mWindowSize /\ mWindowSize \in Nat
  BY AtMostWindow, WindowAssumption DEF MapIs
<1>2. PICK n, r : n = Len(s) /\ r = Reversed(s)
  OBVIOUS
<1>3. n \in Nat /\ \A i \in 1..n : n + 1 - i \in 1..n /\ s[i] \in Slots
  BY <1>1, <1>2, Members
<1>4. /\ r = [i \in 1..n |-> s[n + 1 - i]]
      /\ r \in [1..n -> Slots]
      /\ \A i \in 1..n : r[i] = s[n + 1 - i]
  BY <1>2, <1>3 DEF Reversed
<1>5. r \in Seq(Slots) /\ Len(r) = n
  BY ONLY <1>3, <1>4, IsSequence
<1>6. PICK links, item : links = prevOf /\ item = mTail
  OBVIOUS
<1>7. links \in [Slots -> Slots \cup {nil}]
  BY <1>1, <1>6 DEF ListInv
<1>8. AreNeighbours(links, r, nil)
  <2>1. ASSUME NEW i \in 1..(n - 1) PROVE links[r[i]] = r[i + 1]
    <3>1. /\ n - i \in 1..(n - 1) /\ i \in 1..n /\ i + 1 \in 1..n
          /\ n + 1 - i = (n - i) + 1 /\ n + 1 - (i + 1) = n - i
      BY <1>3
    <3>2. r[i] = s[(n - i) + 1] /\ r[i + 1] = s[n - i]
      BY <1>4, <3>1
    <3>3. prevOf[s[(n - i) + 1]] = s[n - i]
      BY <1>1, <1>2, <3>1 DEF ListInv
    <3>4. QED
      BY <1>6, <3>2, <3>3
  <2>2. ASSUME n # 0 PROVE links[r[n]] = nil
    <3>1. n \in 1..n /\ n + 1 - n = 1
      BY <1>3, <2>2
    <3>2. r[n] = s[1]
      BY <1>4, <3>1
    <3>3. prevOf[s[1]] = nil
      BY <1>1, <1>2, <2>2 DEF ListInv
    <3>4. QED
      BY <1>6, <3>2, <3>3
  <2>3. QED
    BY <1>5, <2>1, <2>2 DEF AreNeighbours
<1>9. item = IF Len(r) = 0 THEN nil ELSE r[1]
  <2>1. n # 0 => r[1] = s[n]
    <3>1. n # 0 => 1 \in 1..n /\ n + 1 - 1 = n
      BY <1>3
    <3>2. QED
      BY <1>4, <3>1
  <2>2. mTail = IF n = 0 THEN nil ELSE s[n]
    BY <1>1, <1>2 DEF ListInv
  <2>3. QED
    BY <1>5, <1>6, <2>1, <2>2
<1>10. Follow(links, item, nil, mWindowSize) = r
  <2>1. Len(r) <= mWindowSize
    BY <1>1, <1>2, <1>5
  <2>2. QED
    BY ONLY <1>1, <1>5, <1>7, <1>8, <1>9, <2>1, NilIsNoSlot, FollowIs
<1>11. QED
  BY <1>2, <1>6, <1>10 DEF Walk

(* What the invariant says of iterating, in both directions.               *)
LEMMA MapSorted == MapInv => IsSortedMap
<1> SUFFICES ASSUME MapInv PROVE IsSortedMap
  OBVIOUS
<1>1. PICK s : MapIs(s)
  BY DEF MapInv
<1>2. s \in Seq(Slots) /\ KeysInv(s)
  BY <1>1 DEF MapIs
<1>3. PICK forth, back : forth = Walk(mHead, nextOf) /\ back = Walk(mTail, prevOf)
  OBVIOUS
<1>4. forth = s /\ back = Reversed(s) /\ Len(s) \in Nat /\ DOMAIN s = 1..Len(s)
  BY <1>1, <1>2, <1>3, WalkForth, WalkBack, Members
<1>5. Len(forth) = mSize /\ mSize = Cardinality(keys)
  BY <1>2, <1>4 DEF KeysInv
<1>6. {first[forth[i]] : i \in DOMAIN forth} = keys
  BY <1>2, <1>4 DEF KeysInv
<1>7. \A i \in 1..(Len(forth) - 1) : first[forth[i]] < first[forth[i + 1]]
  <2>1. \A i \in 1..(Len(s) - 1) : i \in 1..Len(s) /\ i + 1 \in 1..Len(s) /\ i < i + 1
    BY <1>4
  <2>2. QED
    BY <1>2, <1>4, <2>1 DEF KeysInv, Ascending
<1>8. back = [i \in DOMAIN forth |-> forth[Len(forth) + 1 - i]]
  BY <1>4 DEF Reversed
<1>9. ASSUME NEW x \in Slots, IsInList(x) PROVE first[x] \in keys /\ slotIdx(first[x]) = x
  <2>1. PICK i \in 1..Len(s) : x = s[i]
    BY <1>2, <1>9, InUse, Members
  <2>2. QED
    BY <1>2, <2>1, KeyFacts
<1>10. QED
  BY <1>3, <1>5, <1>6, <1>7, <1>8, <1>9 DEF IsSortedMap

(* However the window slides, iterating the map forward gives its keys in  *)
(* ascending order, backward in descending order, size counts them and     *)
(* every key is found in its slot: for every size of the window.           *)
THEOREM MapIsSorted == MapSpec => []IsSortedMap
BY MapInvariant, MapSorted, PTL

-----------------------------------------------------------------------------
(***************************************************************************)
(* The time ranges of a phase and their scheduler.                         *)
(***************************************************************************)

(* Where a range begins and ends, in half milliseconds: an open start is   *)
(* half a millisecond after a closed one, and an end is the first half     *)
(* that is no longer in the range.                                         *)
From(r) == 2 * r.mStart + (IF r.mIsStartOpen THEN 1 ELSE 0)
Until(r) == 2 * r.mEnd + (IF r.mIsEndOpen THEN 0 ELSE 1)

(* Ranges of a phase: those that were added and those of Complete.         *)
Ranges == [mStart : Bound, mEnd : Bound, mIsStartOpen : BOOLEAN, mIsEndOpen : BOOLEAN]

(* Bounds are even, so two of them are equal or two milliseconds apart.    *)
LEMMA Even ==
  /\ \A s \in Bound : s \in Nat /\ s <= Day /\ s % 2 = 0
  /\ \A s, e \in Bound : s < e => s + 2 <= e
  /\ 0 \in Bound /\ Day \in Bound /\ Day >= 2
<1>1. \A s \in Bound : s \in Nat /\ s <= Day /\ s % 2 = 0
  BY DayAssumption DEF Bound
<1>2. 0 \in Bound /\ Day \in Bound /\ Day >= 2
  BY DayAssumption DEF Bound
<1>3. ASSUME NEW s \in Nat, NEW e \in Nat, s % 2 = 0, e % 2 = 0, s < e PROVE s + 2 <= e
  BY ONLY <1>3
<1>4. QED
  BY <1>1, <1>2, <1>3

(* What the bounds of a range are, and From and Until of it.               *)
LEMMA EndsTyped ==
  ASSUME NEW r \in Ranges
  PROVE  /\ From(r) \in Nat /\ Until(r) \in Nat
         /\ r.mStart \in Bound /\ r.mEnd \in Bound /\ r.mStart \in Nat /\ r.mEnd \in Nat
         /\ r.mStart <= Day /\ r.mEnd <= Day
         /\ r.mIsStartOpen \in BOOLEAN /\ r.mIsEndOpen \in BOOLEAN
         /\ r.mIsStartOpen => From(r) = 2 * r.mStart + 1
         /\ ~r.mIsStartOpen => From(r) = 2 * r.mStart
         /\ r.mIsEndOpen => Until(r) = 2 * r.mEnd
         /\ ~r.mIsEndOpen => Until(r) = 2 * r.mEnd + 1
         /\ 2 * r.mStart <= From(r) /\ From(r) <= 2 * r.mStart + 1
         /\ 2 * r.mEnd <= Until(r) /\ Until(r) <= 2 * r.mEnd + 1
<1>1. /\ r.mStart \in Bound /\ r.mEnd \in Bound
      /\ r.mIsStartOpen \in BOOLEAN /\ r.mIsEndOpen \in BOOLEAN
  BY DEF Ranges
<1>2. r.mStart \in Nat /\ r.mEnd \in Nat /\ r.mStart <= Day /\ r.mEnd <= Day
  BY <1>1, Even
<1> DEFINE i == IF r.mIsStartOpen THEN 1 ELSE 0
           j == IF r.mIsEndOpen THEN 0 ELSE 1
<1>3. From(r) = 2 * r.mStart + i /\ Until(r) = 2 * r.mEnd + j
  BY DEF From, Until
<1>4. /\ r.mIsStartOpen => i = 1
      /\ ~r.mIsStartOpen => i = 0
      /\ r.mIsEndOpen => j = 0
      /\ ~r.mIsEndOpen => j = 1
  OBVIOUS
<1> HIDE DEF i, j
<1>5. /\ i = 1 => From(r) = 2 * r.mStart + 1
      /\ i = 0 => From(r) = 2 * r.mStart
      /\ j = 0 => Until(r) = 2 * r.mEnd
      /\ j = 1 => Until(r) = 2 * r.mEnd + 1
  BY ONLY <1>2, <1>3
<1>6. /\ r.mIsStartOpen => From(r) = 2 * r.mStart + 1
      /\ ~r.mIsStartOpen => From(r) = 2 * r.mStart
  BY <1>4, <1>5
<1>7. /\ r.mIsEndOpen => Until(r) = 2 * r.mEnd
      /\ ~r.mIsEndOpen => Until(r) = 2 * r.mEnd + 1
  BY <1>4, <1>5
<1>8. /\ From(r) = 2 * r.mStart + 1 \/ From(r) = 2 * r.mStart
      /\ Until(r) = 2 * r.mEnd + 1 \/ Until(r) = 2 * r.mEnd
  BY <1>6, <1>7
<1>9. /\ From(r) \in Nat /\ 2 * r.mStart <= From(r) /\ From(r) <= 2 * r.mStart + 1
      /\ Until(r) \in Nat /\ 2 * r.mEnd <= Until(r) /\ Until(r) <= 2 * r.mEnd + 1
  BY ONLY <1>2, <1>8
<1>10. QED
  BY <1>1, <1>2, <1>6, <1>7, <1>9

(* What a range contains, said with its ends.                              *)
LEMMA InRange ==
  ASSUME NEW r \in Ranges, NEW t \in Nat, IsValid(r)
  PROVE  /\ IsCrossDay(r) => (IsInRange(r, t) <=> From(r) <= 2 * t \/ 2 * t < Until(r))
         /\ ~IsCrossDay(r) => (IsInRange(r, t) <=> From(r) <= 2 * t /\ 2 * t < Until(r))
<1> DEFINE a == r.mIsStartOpen
           b == r.mIsEndOpen
           s == r.mStart
           e == r.mEnd
           f == From(r)
           u == Until(r)
<1>1. /\ s \in Nat /\ e \in Nat /\ a \in BOOLEAN /\ b \in BOOLEAN
      /\ a => f = 2 * s + 1
      /\ ~a => f = 2 * s
      /\ b => u = 2 * e
      /\ ~b => u = 2 * e + 1
  BY EndsTyped
<1>2. s # e \/ (~a /\ ~b)
  BY DEF IsValid
<1>3. IsCrossDay(r) <=> e < s
  BY DEF IsCrossDay
<1>4. IsCrossDay(r) => (IsInRange(r, t) <=> (t > s \/ (~a /\ t = s)) \/ (t < e \/ (~b /\ t = e)))
  BY DEF IsInRange
<1>5. ~IsCrossDay(r) => (IsInRange(r, t) <=> \/ t > s /\ t < e
                                             \/ ~a /\ t = s
                                             \/ ~b /\ t = e)
  BY DEF IsInRange
<1> HIDE DEF a, b, s, e, f, u
<1>6. f <= 2 * t <=> (t > s \/ (~a /\ t = s))
  <2>1. CASE a
    <3>1. f <= 2 * t <=> t > s
      BY ONLY <1>1, <2>1
    <3>2. QED
      BY <2>1, <3>1
  <2>2. CASE ~a
    <3>1. f <= 2 * t <=> t > s \/ t = s
      BY ONLY <1>1, <2>2
    <3>2. QED
      BY <2>2, <3>1
  <2>3. QED
    BY <2>1, <2>2
<1>7. 2 * t < u <=> (t < e \/ (~b /\ t = e))
  <2>1. CASE b
    <3>1. 2 * t < u <=> t < e
      BY ONLY <1>1, <2>1
    <3>2. QED
      BY <2>1, <3>1
  <2>2. CASE ~b
    <3>1. 2 * t < u <=> t < e \/ t = e
      BY ONLY <1>1, <2>2
    <3>2. QED
      BY <2>2, <3>1
  <2>3. QED
    BY <2>1, <2>2
<1>8. IsCrossDay(r) => (IsInRange(r, t) <=> f <= 2 * t \/ 2 * t < u)
  BY <1>4, <1>6, <1>7
<1>9. ASSUME ~IsCrossDay(r)
      PROVE  IsInRange(r, t) <=> f <= 2 * t /\ 2 * t < u
  <2>1. s <= e
    BY <1>1, <1>3, <1>9
  <2>2. f <= 2 * t /\ 2 * t < u <=> (t > s \/ (~a /\ t = s)) /\ (t < e \/ (~b /\ t = e))
    BY <1>6, <1>7
  <2>3. t > s /\ ~b /\ t = e => e > s
    BY ONLY <1>1
  <2>4. CASE s = e
    <3>1. ~a /\ ~b
      BY <1>2, <2>4
    <3>2. IsInRange(r, t) <=> t = s
      <4>1. ~(t > s /\ t < e)
        BY ONLY <1>1, <2>4
      <4>2. QED
        BY <1>5, <1>9, <3>1, <4>1, <2>4
    <3>3. f <= 2 * t /\ 2 * t < u <=> t = s
      BY ONLY <1>1, <3>1, <2>4
    <3>4. QED
      BY <3>2, <3>3
  <2>5. CASE s < e
    <3>1. t = s => t < e /\ ~(t > s) /\ t # e
      BY ONLY <1>1, <2>5
    <3>2. t = e => t > s /\ ~(t < e) /\ t # s
      BY ONLY <1>1, <2>5
    <3>3. QED
      BY <1>5, <1>9, <2>2, <3>1, <3>2
  <2>6. QED
    BY ONLY <1>1, <2>1, <2>4, <2>5
<1>10. QED
  BY <1>8, <1>9 DEF f, u

(* Added ranges begin within the day, and are ranges.                      *)
LEMMA AddedTyped ==
  ASSUME NEW r \in AllRanges
  PROVE  r \in Ranges /\ r.mStart + 2 <= Day
BY Even DEF AllRanges, Ranges

(* Added ranges that have no common time follow one another, and the       *)
(* second begins where the first is over, or later.                        *)
LEMMA ApartLater ==
  ASSUME NEW r \in Ranges, NEW q \in Ranges, r.mStart # r.mEnd,
         r.mStart < q.mStart, ~HasIntersection(r, q)
  PROVE  ~IsCrossDay(r) /\ Until(r) <= From(q)
<1> DEFINE s == r.mStart
           e == r.mEnd
           p == q.mStart
           cross == IsCrossDay(r)
           in == IsInRange(r, p)
           open == q.mIsStartOpen
<1>1. /\ s \in Nat /\ e \in Nat /\ From(r) \in Nat /\ Until(r) \in Nat
      /\ From(r) <= 2 * s + 1 /\ Until(r) <= 2 * e + 1
  BY EndsTyped
<1>2. /\ p \in Nat /\ From(q) \in Nat /\ 2 * p <= From(q)
      /\ open => From(q) = 2 * p + 1
  BY EndsTyped
<1>3. IsValid(r)
  BY DEF IsValid
<1>4. /\ cross => (in <=> From(r) <= 2 * p \/ 2 * p < Until(r))
      /\ ~cross => (in <=> From(r) <= 2 * p /\ 2 * p < Until(r))
  BY <1>2, <1>3, InRange
<1>5. in => p = e /\ open
  BY DEF HasIntersection
<1>6. cross <=> e < s
  BY DEF IsCrossDay
<1>7. s < p
  OBVIOUS
<1> HIDE DEF s, e, p, cross, in, open
<1>8. From(r) <= 2 * p
  BY ONLY <1>1, <1>2, <1>7
<1>9. CASE in
  <2>1. p = e /\ From(q) = 2 * p + 1
    BY <1>2, <1>5, <1>9
  <2>2. ~(e < s) /\ Until(r) <= From(q)
    BY ONLY <2>1, <1>1, <1>2, <1>7
  <2>3. QED
    BY <1>6, <2>2 DEF cross
<1>10. CASE ~in
  <2>1. ~cross /\ ~(2 * p < Until(r))
    BY <1>4, <1>8, <1>10
  <2>2. Until(r) <= From(q)
    BY <1>1, <1>2, <2>1
  <2>3. QED
    BY <2>1, <2>2 DEF cross
<1>11. QED
  BY <1>9, <1>10

(* The last range, over midnight, ends before the first one begins.        *)
LEMMA ApartFirst ==
  ASSUME NEW r \in Ranges, NEW q \in Ranges, r.mStart # r.mEnd, IsCrossDay(r),
         q = r \/ ~HasIntersection(r, q)
  PROVE  Until(r) <= From(q)
<1> DEFINE s == r.mStart
           e == r.mEnd
           p == q.mStart
           in == IsInRange(r, p)
           open == q.mIsStartOpen
<1>1. /\ s \in Nat /\ e \in Nat /\ From(r) \in Nat /\ Until(r) \in Nat
      /\ From(r) <= 2 * s + 1 /\ Until(r) <= 2 * e + 1 /\ 2 * s <= From(r)
  BY EndsTyped
<1>2. /\ p \in Nat /\ From(q) \in Nat /\ 2 * p <= From(q)
      /\ open => From(q) = 2 * p + 1
  BY EndsTyped
<1>3. IsValid(r)
  BY DEF IsValid
<1>4. in <=> From(r) <= 2 * p \/ 2 * p < Until(r)
  BY <1>2, <1>3, InRange
<1>5. q = r \/ (in => p = e /\ open)
  BY DEF HasIntersection
<1>6. e < s
  BY DEF IsCrossDay
<1> HIDE DEF s, e, p, in, open
<1>7. CASE q = r
  BY ONLY <1>1, <1>6, <1>7
<1>8. CASE q # r /\ in
  <2>1. p = e /\ From(q) = 2 * p + 1
    BY <1>2, <1>5, <1>8
  <2>2. QED
    BY ONLY <2>1, <1>1, <1>2
<1>9. CASE ~in
  <2>1. ~(2 * p < Until(r))
    BY <1>4, <1>9
  <2>2. QED
    BY <1>1, <1>2, <2>1
<1>10. QED
  BY <1>7, <1>8, <1>9

(* Ranges that intersect have a time of the day in common, the first or    *)
(* last of one of them, because there are times between any two bounds.    *)
LEMMA CommonTime ==
  ASSUME NEW r \in AllRanges, NEW q \in AllRanges,
         r.mStart # r.mEnd, q.mStart # q.mEnd, r.mStart # q.mStart, HasIntersection(r, q)
  PROVE  \E t \in TimeOfDay : IsInRange(r, t) /\ IsInRange(q, t)
<1> DEFINE s == r.mStart
           e == r.mEnd
           p == q.mStart
           z == q.mEnd
           over == IsCrossDay(r)
           cross == IsCrossDay(q)
<1>1. r \in Ranges /\ q \in Ranges /\ s + 2 <= Day /\ p + 2 <= Day
  BY AddedTyped
<1>2. /\ s \in Nat /\ e \in Nat /\ From(r) \in Nat /\ Until(r) \in Nat
      /\ From(r) <= 2 * s + 1 /\ Until(r) <= 2 * e + 1
      /\ 2 * s <= From(r) /\ 2 * e <= Until(r)
  BY <1>1, EndsTyped
<1>3. /\ p \in Nat /\ z \in Nat /\ From(q) \in Nat /\ Until(q) \in Nat
      /\ From(q) <= 2 * p + 1 /\ Until(q) <= 2 * z + 1
      /\ 2 * p <= From(q) /\ 2 * z <= Until(q)
  BY <1>1, EndsTyped
<1>4. /\ s \in Bound /\ e \in Bound /\ p \in Bound /\ z \in Bound /\ e <= Day /\ z <= Day
      /\ ~q.mIsStartOpen => From(q) = 2 * p
      /\ ~q.mIsEndOpen => Until(q) = 2 * z + 1
  BY <1>1, EndsTyped
<1>5. Day \in Nat
  BY DayAssumption
<1>6. /\ s < p => s + 2 <= p
      /\ p < s => p + 2 <= s
      /\ s < e => s + 2 <= e
      /\ e < s => e + 2 <= s
      /\ p < z => p + 2 <= z
      /\ z < p => z + 2 <= p
      /\ p < e => p + 2 <= e
      /\ e < p => e + 2 <= p
      /\ s < z => s + 2 <= z
      /\ z < s => z + 2 <= s
  BY <1>4, Even
<1>7. IsValid(r) /\ IsValid(q)
  BY DEF IsValid
<1>8. ASSUME NEW t \in Nat
      PROVE  /\ over => (IsInRange(r, t) <=> From(r) <= 2 * t \/ 2 * t < Until(r))
             /\ ~over => (IsInRange(r, t) <=> From(r) <= 2 * t /\ 2 * t < Until(r))
  BY <1>1, <1>7, InRange
<1>9. ASSUME NEW t \in Nat
      PROVE  /\ cross => (IsInRange(q, t) <=> From(q) <= 2 * t \/ 2 * t < Until(q))
             /\ ~cross => (IsInRange(q, t) <=> From(q) <= 2 * t /\ 2 * t < Until(q))
  BY <1>1, <1>7, InRange
<1>10. s # e /\ p # z /\ s # p
  OBVIOUS
<1>11. (over <=> e < s) /\ (cross <=> z < p)
  BY DEF IsCrossDay
<1>12. \/ IsInRange(r, p) /\ (p # e \/ ~q.mIsStartOpen)
       \/ IsInRange(r, z) /\ (z # s \/ ~q.mIsEndOpen)
  BY DEF HasIntersection
<1>13. ASSUME NEW t \in Nat, t + 1 <= Day PROVE t \in TimeOfDay
  BY <1>5, <1>13 DEF TimeOfDay
<1> HIDE DEF s, e, p, z, over, cross
<1>14. CASE IsInRange(r, p) /\ ~q.mIsStartOpen
  <2>1. From(q) <= 2 * p
    BY <1>3, <1>4, <1>14
  <2>2. cross \/ 2 * p < Until(q)
    <3>1. z < p \/ 2 * p < Until(q)
      BY ONLY <1>3, <1>10
    <3>2. QED
      BY <1>11, <3>1
  <2>3. IsInRange(q, p)
    BY <1>3, <1>9, <2>1, <2>2
  <2>4. p + 1 <= Day
    BY ONLY <1>1, <1>3, <1>5
  <2>5. p \in TimeOfDay
    BY <1>3, <1>13, <2>4
  <2>6. QED
    BY <1>14, <2>3, <2>5
<1>15. CASE IsInRange(r, p) /\ p # e
  <2> DEFINE t == p + 1
  <2>1. t \in Nat /\ t + 1 <= Day
    BY ONLY <1>1, <1>3, <1>5
  <2>2. IsInRange(q, t)
    <3>1. From(q) <= 2 * t
      BY ONLY <1>3
    <3>2. z < p \/ 2 * t < Until(q)
      BY ONLY <1>3, <1>6, <1>10
    <3>3. QED
      BY <1>9, <1>11, <2>1, <3>1, <3>2
  <2>3. IsInRange(r, t)
    <3>1. CASE over
      <4>1. From(r) <= 2 * p \/ 2 * p < Until(r)
        BY <1>3, <1>8, <1>15, <3>1
      <4>2. From(r) <= 2 * t \/ 2 * t < Until(r)
        BY ONLY <1>2, <1>3, <1>6, <1>10, <1>15, <4>1
      <4>3. QED
        BY <1>8, <2>1, <3>1, <4>2
    <3>2. CASE ~over
      <4>1. From(r) <= 2 * p /\ 2 * p < Until(r)
        BY <1>3, <1>8, <1>15, <3>2
      <4>2. From(r) <= 2 * t /\ 2 * t < Until(r)
        BY ONLY <1>2, <1>3, <1>6, <1>10, <1>15, <4>1
      <4>3. QED
        BY <1>8, <2>1, <3>2, <4>2
    <3>3. QED
      BY <3>1, <3>2
  <2>4. t \in TimeOfDay
    BY <1>13, <2>1
  <2>5. QED
    BY <2>2, <2>3, <2>4
<1>16. CASE IsInRange(r, z) /\ z # s
  <2>1. CASE z > 0
    <3> DEFINE t == z - 1
    <3>1. t \in Nat /\ t + 1 <= Day /\ 2 * t < Until(q)
      BY ONLY <1>3, <1>4, <2>1
    <3>2. IsInRange(q, t)
      <4>1. z < p \/ From(q) <= 2 * t
        BY ONLY <1>3, <1>6, <1>10
      <4>2. QED
        BY <1>9, <1>11, <3>1, <4>1
    <3>3. IsInRange(r, t)
      <4>1. CASE over
        <5>1. From(r) <= 2 * z \/ 2 * z < Until(r)
          BY <1>3, <1>8, <1>16, <4>1
        <5>2. From(r) <= 2 * t \/ 2 * t < Until(r)
          BY ONLY <1>2, <1>3, <1>6, <1>16, <5>1
        <5>3. QED
          BY <1>8, <3>1, <4>1, <5>2
      <4>2. CASE ~over
        <5>1. From(r) <= 2 * z /\ 2 * z < Until(r)
          BY <1>3, <1>8, <1>16, <4>2
        <5>2. From(r) <= 2 * t /\ 2 * t < Until(r)
          BY ONLY <1>2, <1>3, <1>6, <1>16, <5>1
        <5>3. QED
          BY <1>8, <3>1, <4>2, <5>2
      <4>3. QED
        BY <4>1, <4>2
    <3>4. t \in TimeOfDay
      BY <1>13, <3>1
    <3>5. QED
      BY <3>2, <3>3, <3>4
  <2>2. CASE z = 0
    <3> DEFINE t == Day - 1
    <3>1. /\ t \in Nat /\ t + 1 <= Day /\ From(r) <= 2 * t /\ From(q) <= 2 * t
          /\ z < p
      BY ONLY <1>1, <1>2, <1>3, <1>5, <1>10, <2>2
    <3>2. over
      <4>1. SUFFICES ASSUME ~over PROVE FALSE
        OBVIOUS
      <4>2. From(r) <= 2 * z
        BY <1>3, <1>8, <1>16, <4>1
      <4>3. QED
        BY ONLY <4>2, <1>2, <1>16, <2>2
    <3>3. IsInRange(r, t) /\ IsInRange(q, t)
      BY <1>8, <1>9, <1>11, <3>1, <3>2
    <3>4. t \in TimeOfDay
      BY <1>13, <3>1
    <3>5. QED
      BY <3>3, <3>4
  <2>3. QED
    BY ONLY <1>3, <2>1, <2>2
<1>17. CASE IsInRange(r, z) /\ z = s /\ ~q.mIsEndOpen
  <2>1. z + 1 <= Day /\ 2 * z < Until(q) /\ (z < p \/ From(q) <= 2 * z)
    <3>1. Until(q) = 2 * z + 1
      BY <1>4, <1>17
    <3>2. z + 1 <= Day
      BY ONLY <1>1, <1>2, <1>5, <1>17
    <3>3. QED
      BY ONLY <1>3, <1>10, <3>1, <3>2
  <2>2. IsInRange(q, z)
    BY <1>3, <1>9, <1>11, <2>1
  <2>3. z \in TimeOfDay
    BY <1>3, <1>13, <2>1
  <2>4. QED
    BY <1>17, <2>2, <2>3
<1>18. QED
  BY <1>12, <1>14, <1>15, <1>16, <1>17
-----------------------------------------------------------------------------
(* The least and the greatest of a set of bounds.                          *)
LEMMA Extremes ==
  ASSUME NEW S, S \subseteq Bound, S # {}
  PROVE  /\ Min(S) \in S /\ \A y \in S : Min(S) <= y
         /\ Max(S) \in S /\ \A y \in S : y <= Max(S)
<1>1. S \subseteq Nat /\ \A y \in S : y <= Day
  BY Even
<1>2. \E x \in S : \A y \in S : x <= y
  BY <1>1, LeastMember
<1>3. \E x \in S : \A y \in S : x >= y
  <2> DEFINE T == {Day - y : y \in S}
  <2>1. T \subseteq Nat /\ T # {}
    BY <1>1, DayAssumption
  <2>2. PICK m \in T : \A k \in T : m <= k
    BY <2>1, LeastMember
  <2>3. PICK x \in S : m = Day - x
    OBVIOUS
  <2>4. ASSUME NEW y \in S PROVE x >= y
    <3>1. m <= Day - y
      BY <2>2
    <3>2. x \in Nat /\ y \in Nat /\ Day \in Nat
      BY <1>1, DayAssumption
    <3>3. QED
      BY <2>3, <3>1, <3>2
  <2>5. QED
    BY <2>4
<1>4. Max(S) \in S /\ \A y \in S : Max(S) >= y
  BY <1>3 DEF Max
<1>5. \A y \in S : y <= Max(S)
  BY <1>1, <1>4
<1>6. QED
  BY <1>2, <1>4, <1>5 DEF Min

(* A map from starts to ranges.                                            *)
Keyed(R) == R \subseteq Ranges /\ \A r, q \in R : r.mStart = q.mStart => r = q

(* A map whose keys are bounds is finite.                                  *)
LEMMA KeyedFinite ==
  ASSUME NEW R, Keyed(R)
  PROVE  IsFiniteSet(R) /\ Cardinality(R) \in Nat
<1> DEFINE f == [r \in R |-> r.mStart]
<1>1. f \in Injection(R, 0..Day)
  <2>1. f \in [R -> 0..Day]
    BY EndsTyped DEF Keyed
  <2>2. \A r, q \in R : f[r] = f[q] => r = q
    BY DEF Keyed
  <2>3. QED
    BY <2>1, <2>2 DEF Injection, IsInjective
<1>2. IsFiniteSet(0..Day)
  BY DayAssumption, FS_Interval
<1>3. QED
  BY <1>1, <1>2, FS_Injection, FS_CardinalityType

(* The ranges come one after another, and only the last goes on after      *)
(* midnight, until the first begins at most.                               *)
Laid(R) ==
  /\ Keyed(R)
  /\ \A r \in R : IsValid(r)
  /\ \A r, q \in R : r.mStart < q.mStart => ~IsCrossDay(r) /\ Until(r) <= From(q)
  /\ \A r, q \in R : IsCrossDay(r) => Until(r) <= From(q)

Covers(R) == \A t \in TimeOfDay : \E r \in R : IsInRange(r, t)

(* n is the first of R after r, or the first of all when r is the last.    *)
IsLater(R, r, n) == r.mStart < n.mStart /\ \A p \in R : r.mStart < p.mStart => n.mStart <= p.mStart
IsWrap(R, r, n) == \A p \in R : p.mStart <= r.mStart /\ n.mStart <= p.mStart
IsNext(R, r, n) == n \in R /\ (IsLater(R, r, n) \/ IsWrap(R, r, n))

(* At is the range that the map has at a start.                            *)
LEMMA AtIs ==
  ASSUME Keyed(mTimeRanges)
  PROVE  /\ \A s \in Starts(mTimeRanges) : At(s) \in mTimeRanges /\ At(s).mStart = s
         /\ \A r \in mTimeRanges : r.mStart \in Starts(mTimeRanges) /\ At(r.mStart) = r
         /\ Starts(mTimeRanges) \subseteq Bound
<1>1. ASSUME NEW s \in Starts(mTimeRanges) PROVE At(s) \in mTimeRanges /\ At(s).mStart = s
  BY DEF Starts, At
<1>2. ASSUME NEW r \in mTimeRanges PROVE r.mStart \in Starts(mTimeRanges)
  BY DEF Starts
<1>3. ASSUME NEW r \in mTimeRanges PROVE At(r.mStart) = r
  BY <1>1, <1>2 DEF Keyed
<1>4. Starts(mTimeRanges) \subseteq Bound
  BY DEF Starts, Keyed, Ranges
<1>5. QED
  BY <1>1, <1>2, <1>3, <1>4

(* NextStart leads to the next range, after the last one to the first.     *)
LEMMA NextIs ==
  ASSUME Keyed(mTimeRanges), NEW r \in mTimeRanges
  PROVE  /\ NextStart(r.mStart) \in Starts(mTimeRanges)
         /\ IsNext(mTimeRanges, r, At(NextStart(r.mStart)))
<1> DEFINE starts == Starts(mTimeRanges)
           later == {s \in starts : s > r.mStart}
           n == At(NextStart(r.mStart))
<1>1. /\ starts \subseteq Bound /\ r.mStart \in starts
      /\ \A p \in mTimeRanges : p.mStart \in starts
  BY AtIs
<1>2. CASE later # {}
  <2>1. NextStart(r.mStart) = Min(later)
    BY <1>2 DEF NextStart
  <2>2. Min(later) \in later /\ \A y \in later : Min(later) <= y
    BY <1>1, <1>2, Extremes
  <2>3. n \in mTimeRanges /\ n.mStart = Min(later)
    BY <2>1, <2>2, AtIs
  <2> HIDE DEF n
  <2>4. starts \subseteq Nat
    BY <1>1, Even
  <2>5. r.mStart < n.mStart
    BY <1>1, <2>2, <2>3, <2>4
  <2>6. ASSUME NEW p \in mTimeRanges, r.mStart < p.mStart PROVE n.mStart <= p.mStart
    <3>1. p.mStart \in later
      BY <1>1, <2>4, <2>6
    <3>2. QED
      BY <2>2, <2>3, <3>1
  <2>7. QED
    BY <2>1, <2>2, <2>3, <2>5, <2>6 DEF IsNext, IsLater, n
<1>3. CASE later = {}
  <2>1. NextStart(r.mStart) = Min(starts)
    BY <1>3 DEF NextStart
  <2>2. Min(starts) \in starts /\ \A y \in starts : Min(starts) <= y
    BY <1>1, Extremes
  <2>3. n \in mTimeRanges /\ n.mStart = Min(starts)
    BY <2>1, <2>2, AtIs
  <2>4. ASSUME NEW p \in mTimeRanges PROVE p.mStart <= r.mStart
    <3>1. p.mStart \in Nat /\ r.mStart \in Nat /\ ~(p.mStart > r.mStart)
      BY <1>1, <1>3, Even
    <3>2. QED
      BY ONLY <3>1
  <2>5. QED
    BY <1>1, <2>1, <2>2, <2>3, <2>4 DEF IsNext, IsWrap
<1>4. QED
  BY <1>2, <1>3

(* A range has one next range.                                             *)
LEMMA NextIsOne ==
  ASSUME NEW R, Keyed(R), NEW r \in R, NEW n, NEW m, IsNext(R, r, n), IsNext(R, r, m)
  PROVE  n = m
<1>1. n \in R /\ m \in R /\ r.mStart \in Nat /\ n.mStart \in Nat /\ m.mStart \in Nat
  BY EndsTyped DEF Keyed, IsNext
<1>2. CASE IsLater(R, r, n) /\ IsLater(R, r, m)
  <2>1. n.mStart <= m.mStart /\ m.mStart <= n.mStart
    BY <1>1, <1>2 DEF IsLater
  <2>2. n.mStart = m.mStart
    BY ONLY <1>1, <2>1
  <2>3. QED
    BY <2>2 DEF Keyed, IsNext
<1>3. CASE IsWrap(R, r, n) /\ IsWrap(R, r, m)
  <2>1. n.mStart <= m.mStart /\ m.mStart <= n.mStart
    BY <1>1, <1>3 DEF IsWrap
  <2>2. n.mStart = m.mStart
    BY ONLY <1>1, <2>1
  <2>3. QED
    BY <2>2 DEF Keyed, IsNext
<1>4. CASE IsLater(R, r, n) /\ IsWrap(R, r, m)
  <2>1. r.mStart < n.mStart /\ n.mStart <= r.mStart
    BY <1>1, <1>4 DEF IsLater, IsWrap
  <2>2. QED
    BY ONLY <1>1, <2>1
<1>5. CASE IsWrap(R, r, n) /\ IsLater(R, r, m)
  <2>1. r.mStart < m.mStart /\ m.mStart <= r.mStart
    BY <1>1, <1>5 DEF IsLater, IsWrap
  <2>2. QED
    BY ONLY <1>1, <2>1
<1>6. QED
  BY <1>2, <1>3, <1>4, <1>5 DEF IsNext

(* A time is in one of the ranges at most.                                 *)
LEMMA LaidApart ==
  ASSUME NEW R, Laid(R), NEW r \in R, NEW q \in R, NEW t \in Nat,
         IsInRange(r, t), IsInRange(q, t)
  PROVE  r = q
<1>1. ASSUME NEW a \in R, NEW b \in R, a.mStart < b.mStart, IsInRange(a, t), IsInRange(b, t)
      PROVE  FALSE
  <2>1. a \in Ranges /\ b \in Ranges /\ IsValid(a) /\ IsValid(b)
    BY DEF Laid, Keyed
  <2>2. ~IsCrossDay(a) /\ Until(a) <= From(b)
    BY <1>1 DEF Laid
  <2>3. From(a) <= 2 * t /\ 2 * t < Until(a)
    BY <1>1, <2>1, <2>2, InRange
  <2>4. /\ From(a) \in Nat /\ Until(a) \in Nat /\ From(b) \in Nat /\ Until(b) \in Nat
    BY <2>1, EndsTyped
  <2>5. CASE IsCrossDay(b)
    <3>1. Until(b) <= From(a)
      BY <2>5 DEF Laid
    <3>2. From(b) <= 2 * t \/ 2 * t < Until(b)
      BY <1>1, <2>1, <2>5, InRange
    <3>3. QED
      BY <2>2, <2>3, <2>4, <3>1, <3>2
  <2>6. CASE ~IsCrossDay(b)
    <3>1. From(b) <= 2 * t
      BY <1>1, <2>1, <2>6, InRange
    <3>2. QED
      BY <2>2, <2>3, <2>4, <3>1
  <2>7. QED
    BY <2>5, <2>6
<1>2. r.mStart \in Nat /\ q.mStart \in Nat
  <2>1. r \in Ranges /\ q \in Ranges
    BY DEF Laid, Keyed
  <2>2. QED
    BY <2>1, EndsTyped
<1>3. ~(r.mStart < q.mStart) /\ ~(q.mStart < r.mStart)
  BY <1>1
<1>4. r.mStart = q.mStart
  BY ONLY <1>2, <1>3
<1>5. QED
  BY <1>4 DEF Laid, Keyed

(* What was added to a phase.                                              *)
Added(R) ==
  /\ R \subseteq AllRanges /\ Keyed(R)
  /\ \A r, q \in R : Separate(r, q)

(* Ranges begin in the order of their starts, open or not.                 *)
LEMMA FromGrows ==
  ASSUME NEW r \in Ranges, NEW q \in Ranges, r.mStart < q.mStart
  PROVE  From(r) < From(q)
<1>1. /\ r.mStart \in Nat /\ q.mStart \in Nat /\ From(r) \in Nat /\ From(q) \in Nat
      /\ From(r) <= 2 * r.mStart + 1 /\ 2 * q.mStart <= From(q)
  BY EndsTyped
<1>2. r.mStart < q.mStart
  OBVIOUS
<1>3. QED
  BY ONLY <1>1, <1>2

(* What is not refused is laid.                                            *)
LEMMA AcceptedIsLaid ==
  ASSUME Added(mTimeRanges),
         ~(Cardinality(mTimeRanges) > 1 /\ \E p \in Neighbours : IsConflict(p))
  PROVE  Laid(mTimeRanges)
<1> DEFINE R == mTimeRanges
           n(r) == At(NextStart(r.mStart))
<1>1. Keyed(R) /\ R \subseteq Ranges /\ \A r \in R : r.mStart # r.mEnd
  BY DEF Added, Keyed, Separate
<1>2. ASSUME NEW r \in R PROVE IsNext(R, r, n(r))
  BY <1>1, NextIs
<1>3. ASSUME NEW r \in R, NEW q \in R, r # q, NEW x \in R PROVE ~HasIntersection(x, n(x))
  <2>1. Cardinality(R) > 1
    <3>1. IsFiniteSet(R) /\ Cardinality(R) \in Nat
      BY <1>1, KeyedFinite
    <3>2. Cardinality(R) # 0
      BY <3>1, FS_EmptySet
    <3>3. Cardinality(R) # 1
      <4>1. SUFFICES ASSUME Cardinality(R) = 1 PROVE FALSE
        OBVIOUS
      <4>2. \E y : R = {y}
        BY <3>1, <4>1, FS_Singleton
      <4>3. QED
        BY <1>3, <4>2
    <3>4. QED
      BY ONLY <3>1, <3>2, <3>3
  <2>2. <<x, n(x)>> \in Neighbours
    BY DEF Neighbours
  <2>3. ~IsConflict(<<x, n(x)>>)
    BY <2>1, <2>2
  <2>4. QED
    BY <2>3 DEF IsConflict
<1>4. ASSUME NEW r \in R, NEW q \in R, r.mStart <= q.mStart PROVE From(r) <= From(q)
  <2>1. r \in Ranges /\ q \in Ranges /\ From(r) \in Nat /\ From(q) \in Nat
        /\ r.mStart \in Nat /\ q.mStart \in Nat
    BY <1>1, EndsTyped
  <2>2. CASE r.mStart < q.mStart
    BY <2>1, <2>2, FromGrows
  <2>3. CASE r.mStart = q.mStart
    BY <1>1, <2>1, <2>3 DEF Keyed
  <2>4. QED
    BY <1>4, <2>1, <2>2, <2>3
<1>5. ASSUME NEW r \in R, NEW q \in R, r.mStart < q.mStart
      PROVE  ~IsCrossDay(r) /\ Until(r) <= From(q)
  <2>1. PICK m : m = n(r)
    OBVIOUS
  <2>2. IsNext(R, r, m) /\ r.mStart \in Nat /\ q.mStart \in Nat /\ m \in R
    BY <1>1, <1>2, <2>1, EndsTyped DEF IsNext
  <2>3. ~(q.mStart <= r.mStart)
    BY ONLY <1>5, <2>2
  <2>4. r.mStart < m.mStart /\ m.mStart <= q.mStart
    BY <1>5, <2>2, <2>3 DEF IsNext, IsLater, IsWrap
  <2>5. ~HasIntersection(r, m)
    BY <1>3, <1>5, <2>1, <2>2, <2>3
  <2>6. r.mStart # r.mEnd /\ r \in Ranges /\ m \in Ranges /\ q \in Ranges
    BY <1>1, <2>2
  <2>7. ~IsCrossDay(r) /\ Until(r) <= From(m)
    BY <2>4, <2>5, <2>6, ApartLater
  <2>8. From(m) <= From(q)
    BY <1>4, <2>2, <2>4
  <2>9. Until(r) \in Nat /\ From(m) \in Nat /\ From(q) \in Nat
    BY <2>6, EndsTyped
  <2>10. QED
    BY <2>7, <2>8, <2>9
<1>6. ASSUME NEW r \in R, NEW q \in R, IsCrossDay(r) PROVE Until(r) <= From(q)
  <2>1. PICK m : m = n(r)
    OBVIOUS
  <2>2. IsNext(R, r, m) /\ m \in R
    BY <1>2, <2>1 DEF IsNext
  <2>3. IsWrap(R, r, m)
    BY <1>5, <1>6, <2>2 DEF IsNext, IsLater
  <2>4. m.mStart <= q.mStart
    BY <2>3 DEF IsWrap
  <2>5. m = r \/ ~HasIntersection(r, m)
    BY <1>3, <2>1, <2>2
  <2>6. r.mStart # r.mEnd /\ r \in Ranges /\ m \in Ranges /\ q \in Ranges
    BY <1>1, <2>2
  <2>7. Until(r) <= From(m)
    BY <1>6, <2>5, <2>6, ApartFirst
  <2>8. From(m) <= From(q)
    BY <1>4, <2>2, <2>4
  <2>9. Until(r) \in Nat /\ From(m) \in Nat /\ From(q) \in Nat
    BY <2>6, EndsTyped
  <2>10. QED
    BY <2>7, <2>8, <2>9
<1>7. \A r \in R : IsValid(r)
  BY <1>1 DEF IsValid
<1>8. QED
  BY <1>1, <1>5, <1>6, <1>7 DEF Laid
-----------------------------------------------------------------------------
(* Complete.  The range after r, where r does not end where the next, n,   *)
(* begins.                                                                 *)
Gap(R, r, n) == r \in R /\ IsNext(R, r, n) /\ r.mEnd # n.mStart

Spaced(R) == Laid(R) /\ \A r \in R : r.mStart # r.mEnd

(* It is after r and before n: the next on the same day, or the last after *)
(* the first in the map, or the one that comes before it at night.         *)
LEMMA GapIs ==
  ASSUME NEW R, Spaced(R), NEW r, NEW n, Gap(R, r, n)
  PROVE  /\ r \in Ranges /\ n \in Ranges
         /\ ~IsCrossDay(r) => r.mStart < r.mEnd /\ From(r) <= Until(r)
         /\ \/ IsLater(R, r, n) /\ ~IsCrossDay(r) /\ r.mEnd < n.mStart
            \/ IsWrap(R, r, n) /\ ~IsCrossDay(r) /\ n.mStart < r.mEnd
            \/ IsWrap(R, r, n) /\ IsCrossDay(r) /\ r.mEnd < n.mStart
<1>1. r \in R /\ n \in R /\ r \in Ranges /\ n \in Ranges /\ r.mStart # r.mEnd
      /\ (IsLater(R, r, n) \/ IsWrap(R, r, n)) /\ r.mEnd # n.mStart
  BY DEF Gap, IsNext, Spaced, Laid, Keyed
<1>2. /\ r.mStart \in Nat /\ r.mEnd \in Nat /\ From(r) \in Nat /\ Until(r) \in Nat
      /\ n.mStart \in Nat /\ From(n) \in Nat
      /\ From(r) <= 2 * r.mStart + 1 /\ 2 * r.mEnd <= Until(r) /\ From(n) <= 2 * n.mStart + 1
  BY <1>1, EndsTyped
<1>3. IsCrossDay(r) <=> r.mEnd < r.mStart
  BY DEF IsCrossDay
<1>4. ASSUME ~IsCrossDay(r) PROVE r.mStart < r.mEnd /\ From(r) <= Until(r)
  <2>1. ~(r.mEnd < r.mStart) /\ r.mStart # r.mEnd
    BY <1>1, <1>3, <1>4
  <2>2. QED
    BY ONLY <1>2, <2>1
<1>5. CASE IsLater(R, r, n)
  <2>1. ~IsCrossDay(r) /\ Until(r) <= From(n)
    BY <1>1, <1>5 DEF Spaced, Laid, IsLater
  <2>2. r.mEnd < n.mStart
    BY ONLY <1>1, <1>2, <2>1
  <2>3. QED
    BY <1>1, <1>4, <1>5, <2>1, <2>2
<1>6. CASE IsWrap(R, r, n) /\ IsCrossDay(r)
  <2>1. Until(r) <= From(n)
    BY <1>1, <1>6 DEF Spaced, Laid
  <2>2. r.mEnd < n.mStart
    BY ONLY <1>1, <1>2, <2>1
  <2>3. QED
    BY <1>1, <1>4, <1>6, <2>2
<1>7. CASE IsWrap(R, r, n) /\ ~IsCrossDay(r)
  <2>1. n.mStart <= r.mStart
    BY <1>1, <1>7 DEF IsWrap
  <2>2. r.mStart < r.mEnd
    BY <1>4, <1>7
  <2>3. n.mStart < r.mEnd
    BY ONLY <1>2, <2>1, <2>2
  <2>4. QED
    BY <1>1, <1>4, <1>7, <2>3
<1>8. QED
  BY <1>1, <1>5, <1>6, <1>7

(* CompleteRange begins where r ends and ends where n begins.              *)
LEMMA CompletedIs ==
  ASSUME NEW r \in Ranges, NEW n \in Ranges, r.mEnd # n.mStart
  PROVE  LET u == CompleteRange(r, n)
         IN  /\ u \in Ranges /\ IsValid(u) /\ u.mStart = r.mEnd /\ u.mEnd = n.mStart
             /\ u.mStart # u.mEnd
             /\ From(u) = Until(r) /\ Until(u) = From(n)
             /\ IsCrossDay(u) <=> n.mStart < r.mEnd
<1> DEFINE u == CompleteRange(r, n)
<1>1. /\ r.mEnd \in Bound /\ n.mStart \in Bound /\ r.mEnd \in Nat /\ n.mStart \in Nat
      /\ r.mIsEndOpen \in BOOLEAN /\ n.mIsStartOpen \in BOOLEAN
  BY EndsTyped
<1>2. /\ u.mStart = r.mEnd /\ u.mEnd = n.mStart
      /\ u.mIsStartOpen = ~r.mIsEndOpen /\ u.mIsEndOpen = ~n.mIsStartOpen
  BY DEF CompleteRange
<1>3. u \in Ranges
  BY <1>1 DEF CompleteRange, Ranges
<1>4. /\ u.mIsStartOpen => From(u) = 2 * u.mStart + 1
      /\ ~u.mIsStartOpen => From(u) = 2 * u.mStart
      /\ u.mIsEndOpen => Until(u) = 2 * u.mEnd
      /\ ~u.mIsEndOpen => Until(u) = 2 * u.mEnd + 1
  BY <1>3, EndsTyped
<1>5. /\ n.mIsStartOpen => From(n) = 2 * n.mStart + 1
      /\ ~n.mIsStartOpen => From(n) = 2 * n.mStart
      /\ r.mIsEndOpen => Until(r) = 2 * r.mEnd
      /\ ~r.mIsEndOpen => Until(r) = 2 * r.mEnd + 1
  BY EndsTyped
<1> HIDE DEF u
<1>6. From(u) = Until(r)
  <2>1. CASE r.mIsEndOpen
    BY <1>2, <1>4, <1>5, <2>1
  <2>2. CASE ~r.mIsEndOpen
    BY <1>2, <1>4, <1>5, <2>2
  <2>3. QED
    BY <2>1, <2>2
<1>7. Until(u) = From(n)
  <2>1. CASE n.mIsStartOpen
    BY <1>2, <1>4, <1>5, <2>1
  <2>2. CASE ~n.mIsStartOpen
    BY <1>2, <1>4, <1>5, <2>2
  <2>3. QED
    BY <2>1, <2>2
<1>8. IsValid(u) /\ (IsCrossDay(u) <=> n.mStart < r.mEnd)
  BY <1>2 DEF IsValid, IsCrossDay
<1>9. QED
  BY <1>2, <1>3, <1>6, <1>7, <1>8 DEF u

(* No range starts where another one ends before the next.                 *)
LEMMA GapIsNew ==
  ASSUME NEW R, Spaced(R), NEW r, NEW n, Gap(R, r, n), NEW q \in R
  PROVE  q.mStart # r.mEnd
<1>1. /\ ~IsCrossDay(r) => r.mStart < r.mEnd
      /\ \/ IsLater(R, r, n) /\ ~IsCrossDay(r) /\ r.mEnd < n.mStart
         \/ IsWrap(R, r, n) /\ ~IsCrossDay(r) /\ n.mStart < r.mEnd
         \/ IsWrap(R, r, n) /\ IsCrossDay(r) /\ r.mEnd < n.mStart
  BY GapIs
<1>2. r \in Ranges /\ n \in Ranges /\ q \in Ranges
  BY DEF Gap, IsNext, Spaced, Laid, Keyed
<1>3. r.mStart \in Nat /\ r.mEnd \in Nat /\ n.mStart \in Nat /\ q.mStart \in Nat
  BY <1>2, EndsTyped
<1>4. /\ IsLater(R, r, n) => (r.mStart < q.mStart => n.mStart <= q.mStart)
      /\ IsWrap(R, r, n) => q.mStart <= r.mStart /\ n.mStart <= q.mStart
  BY DEF IsLater, IsWrap
<1>5. CASE IsLater(R, r, n) /\ ~IsCrossDay(r) /\ r.mEnd < n.mStart
  <2>1. r.mStart < r.mEnd /\ r.mEnd < n.mStart /\ (r.mStart < q.mStart => n.mStart <= q.mStart)
    BY <1>1, <1>4, <1>5
  <2>2. QED
    BY ONLY <1>3, <2>1
<1>6. CASE IsWrap(R, r, n) /\ ~IsCrossDay(r) /\ n.mStart < r.mEnd
  <2>1. r.mStart < r.mEnd /\ q.mStart <= r.mStart
    BY <1>1, <1>4, <1>6
  <2>2. QED
    BY ONLY <1>3, <2>1
<1>7. CASE IsWrap(R, r, n) /\ IsCrossDay(r) /\ r.mEnd < n.mStart
  <2>1. n.mStart <= q.mStart /\ r.mEnd < n.mStart
    BY <1>4, <1>7
  <2>2. QED
    BY ONLY <1>3, <2>1
<1>8. QED
  BY <1>1, <1>5, <1>6, <1>7

(* Ranges after different ones start at different times.                   *)
LEMMA GapsDiffer ==
  ASSUME NEW R, Spaced(R), NEW r, NEW n, Gap(R, r, n), NEW q, NEW m, Gap(R, q, m),
         r.mStart < q.mStart
  PROVE  r.mEnd # q.mEnd
<1>1. /\ (IsLater(R, r, n) /\ r.mEnd < n.mStart) \/ IsWrap(R, r, n)
      /\ ~IsCrossDay(r) => r.mStart < r.mEnd
  BY GapIs
<1>2. /\ ~IsCrossDay(q) => q.mStart < q.mEnd
  BY GapIs
<1>3. r \in R /\ q \in R /\ n \in R /\ r \in Ranges /\ n \in Ranges /\ q \in Ranges
  BY DEF Gap, IsNext, Spaced, Laid, Keyed
<1>4. /\ r.mStart \in Nat /\ r.mEnd \in Nat /\ n.mStart \in Nat
      /\ q.mStart \in Nat /\ q.mEnd \in Nat
      /\ Until(q) \in Nat /\ From(r) \in Nat
      /\ 2 * q.mEnd <= Until(q) /\ From(r) <= 2 * r.mStart + 1
  BY <1>3, EndsTyped
<1>5. ~IsCrossDay(r) /\ r.mStart < q.mStart
  BY <1>3 DEF Spaced, Laid
<1>6. ~IsWrap(R, r, n)
  <2>1. ~(q.mStart <= r.mStart)
    BY ONLY <1>4, <1>5
  <2>2. QED
    BY <1>3, <2>1 DEF IsWrap
<1>7. r.mEnd < n.mStart /\ n.mStart <= q.mStart
  BY <1>1, <1>3, <1>5, <1>6 DEF IsLater
<1>8. CASE ~IsCrossDay(q)
  <2>1. q.mStart < q.mEnd
    BY <1>2, <1>8
  <2>2. QED
    BY ONLY <1>4, <1>7, <2>1
<1>9. CASE IsCrossDay(q)
  <2>1. Until(q) <= From(r) /\ r.mStart < r.mEnd
    BY <1>1, <1>3, <1>5, <1>9 DEF Spaced, Laid
  <2>2. QED
    BY ONLY <1>4, <2>1
<1>10. QED
  BY <1>8, <1>9

(* A range starts before the gap after r only if it is r or earlier, and   *)
(* after it only if it is n or later.                                      *)
LEMMA GapBefore ==
  ASSUME NEW R, Spaced(R), NEW r, NEW n, Gap(R, r, n), NEW q \in R, r.mEnd < q.mStart
  PROVE  ~(n.mStart < r.mEnd) /\ From(n) <= From(q)
<1>1. /\ ~IsCrossDay(r) => r.mStart < r.mEnd
      /\ \/ IsLater(R, r, n) /\ ~IsCrossDay(r) /\ r.mEnd < n.mStart
         \/ IsWrap(R, r, n) /\ ~IsCrossDay(r) /\ n.mStart < r.mEnd
         \/ IsWrap(R, r, n) /\ IsCrossDay(r) /\ r.mEnd < n.mStart
  BY GapIs
<1>2. r \in Ranges /\ n \in Ranges /\ q \in Ranges /\ n \in R
  BY DEF Gap, IsNext, Spaced, Laid, Keyed
<1>3. /\ r.mStart \in Nat /\ r.mEnd \in Nat /\ n.mStart \in Nat /\ q.mStart \in Nat
      /\ From(n) \in Nat /\ From(q) \in Nat
  BY <1>2, EndsTyped
<1>4. /\ IsLater(R, r, n) => (r.mStart < q.mStart => n.mStart <= q.mStart)
      /\ IsWrap(R, r, n) => q.mStart <= r.mStart /\ n.mStart <= q.mStart
  BY DEF IsLater, IsWrap
<1>5. ~(n.mStart < r.mEnd) /\ n.mStart <= q.mStart
  <2>1. CASE IsLater(R, r, n) /\ ~IsCrossDay(r) /\ r.mEnd < n.mStart
    <3>1. r.mStart < r.mEnd /\ (r.mStart < q.mStart => n.mStart <= q.mStart)
      BY <1>1, <1>4, <2>1
    <3>2. r.mEnd < n.mStart /\ r.mEnd < q.mStart
      BY <2>1
    <3>3. QED
      BY ONLY <1>3, <3>1, <3>2
  <2>2. CASE IsWrap(R, r, n) /\ ~IsCrossDay(r) /\ n.mStart < r.mEnd
    <3>1. r.mStart < r.mEnd /\ q.mStart <= r.mStart /\ r.mEnd < q.mStart
      BY <1>1, <1>4, <2>2
    <3>2. FALSE
      BY ONLY <1>3, <3>1
    <3>3. QED
      BY <3>2
  <2>3. CASE IsWrap(R, r, n) /\ IsCrossDay(r) /\ r.mEnd < n.mStart
    <3>1. n.mStart <= q.mStart /\ r.mEnd < n.mStart
      BY <1>4, <2>3
    <3>2. QED
      BY ONLY <1>3, <3>1
  <2>4. QED
    BY <1>1, <2>1, <2>2, <2>3
<1>6. CASE n.mStart < q.mStart
  BY <1>2, <1>3, <1>5, <1>6, FromGrows
<1>7. CASE n.mStart = q.mStart
  <2>1. n = q
    BY <1>2, <1>7 DEF Spaced, Laid, Keyed
  <2>2. QED
    BY <1>3, <1>5, <2>1
<1>8. QED
  BY <1>3, <1>5, <1>6, <1>7

(* A range that starts before the gap after r ends before it, too.         *)
LEMMA GapAfter ==
  ASSUME NEW R, Spaced(R), NEW r, NEW n, Gap(R, r, n), NEW q \in R,
         q.mStart < r.mEnd \/ IsCrossDay(q)
  PROVE  /\ q.mStart < r.mEnd => ~IsCrossDay(q)
         /\ Until(q) <= Until(r)
<1>1. /\ ~IsCrossDay(r) => r.mStart < r.mEnd /\ From(r) <= Until(r)
      /\ \/ IsLater(R, r, n) /\ ~IsCrossDay(r) /\ r.mEnd < n.mStart
         \/ IsWrap(R, r, n) /\ ~IsCrossDay(r) /\ n.mStart < r.mEnd
         \/ IsWrap(R, r, n) /\ IsCrossDay(r) /\ r.mEnd < n.mStart
  BY GapIs
<1>2. r \in R /\ r \in Ranges /\ n \in Ranges /\ q \in Ranges
  BY DEF Gap, IsNext, Spaced, Laid, Keyed
<1>3. /\ r.mStart \in Nat /\ r.mEnd \in Nat /\ n.mStart \in Nat /\ q.mStart \in Nat
      /\ From(r) \in Nat /\ Until(r) \in Nat /\ Until(q) \in Nat
      /\ From(r) <= 2 * r.mStart + 1 /\ 2 * q.mEnd <= Until(q) /\ q.mEnd \in Nat
  BY <1>2, EndsTyped
<1>4. /\ IsLater(R, r, n) => (r.mStart < q.mStart => n.mStart <= q.mStart)
      /\ IsWrap(R, r, n) => q.mStart <= r.mStart /\ n.mStart <= q.mStart
  BY DEF IsLater, IsWrap
<1>5. /\ q.mStart < r.mStart => ~IsCrossDay(q) /\ Until(q) <= From(r)
      /\ r.mStart < q.mStart => ~IsCrossDay(r)
      /\ IsCrossDay(q) => Until(q) <= From(r)
      /\ q.mStart = r.mStart => q = r
  BY <1>2 DEF Spaced, Laid, Keyed
<1>6. IsCrossDay(q) <=> q.mEnd < q.mStart
  BY DEF IsCrossDay
<1>7. CASE q.mStart = r.mStart
  <2>1. q = r
    BY <1>5, <1>7
  <2>2. ASSUME q.mStart < r.mEnd PROVE ~IsCrossDay(q)
    BY <1>3, <1>6, <2>1, <2>2
  <2>3. QED
    BY <1>3, <2>1, <2>2
<1>8. CASE q.mStart < r.mStart
  <2>1. ~IsCrossDay(q) /\ Until(q) <= From(r)
    BY <1>5, <1>8
  <2>2. q.mStart < r.mEnd
    BY <2>1
  <2>3. ~IsCrossDay(r)
    <3>1. SUFFICES ASSUME IsCrossDay(r) PROVE FALSE
      OBVIOUS
    <3>2. n.mStart <= q.mStart /\ r.mEnd < n.mStart
      BY <1>1, <1>4, <3>1
    <3>3. QED
      BY ONLY <1>3, <2>2, <3>2
  <2>4. From(r) <= Until(r)
    BY <1>1, <2>3
  <2>5. Until(q) <= Until(r)
    BY ONLY <1>3, <2>1, <2>4
  <2>6. QED
    BY <2>1, <2>5
<1>9. CASE r.mStart < q.mStart
  <2>1. ~IsCrossDay(r)
    BY <1>5, <1>9
  <2>2. From(r) <= Until(r)
    BY <1>1, <2>1
  <2>3. ~(q.mStart < r.mEnd)
    <3>1. SUFFICES ASSUME q.mStart < r.mEnd PROVE FALSE
      OBVIOUS
    <3>2. CASE IsLater(R, r, n) /\ r.mEnd < n.mStart
      <4>1. n.mStart <= q.mStart /\ r.mEnd < n.mStart
        BY <1>4, <1>9, <3>2
      <4>2. QED
        BY ONLY <1>3, <3>1, <4>1
    <3>3. CASE IsWrap(R, r, n)
      <4>1. q.mStart <= r.mStart
        BY <1>4, <3>3
      <4>2. QED
        BY ONLY <1>3, <1>9, <4>1
    <3>4. QED
      BY <1>1, <3>2, <3>3
  <2>4. Until(q) <= From(r)
    BY <1>5, <2>3
  <2>5. Until(q) <= Until(r)
    BY ONLY <1>3, <2>2, <2>4
  <2>6. QED
    BY <2>3, <2>5
<1>10. QED
  BY ONLY <1>3, <1>7, <1>8, <1>9

(* Before the gap after q that starts later than the one after r there is  *)
(* n, or q goes over midnight.                                             *)
LEMMA GapAndGap ==
  ASSUME NEW R, Spaced(R), NEW r, NEW n, Gap(R, r, n), NEW q, NEW m, Gap(R, q, m),
         r.mEnd < q.mEnd \/ n.mStart < r.mEnd
  PROVE  /\ r.mEnd < q.mEnd => ~(n.mStart < r.mEnd)
         /\ From(n) <= Until(q)
<1>1. /\ ~IsCrossDay(q) => q.mStart < q.mEnd /\ From(q) <= Until(q)
  BY GapIs
<1>2. /\ ~IsCrossDay(r) => r.mStart < r.mEnd
      /\ \/ IsLater(R, r, n) /\ ~IsCrossDay(r) /\ r.mEnd < n.mStart
         \/ IsWrap(R, r, n) /\ ~IsCrossDay(r) /\ n.mStart < r.mEnd
         \/ IsWrap(R, r, n) /\ IsCrossDay(r) /\ r.mEnd < n.mStart
  BY GapIs
<1>3. r \in R /\ q \in R /\ n \in R /\ r \in Ranges /\ n \in Ranges /\ q \in Ranges
  BY DEF Gap, IsNext, Spaced, Laid, Keyed
<1>4. /\ r.mStart \in Nat /\ r.mEnd \in Nat /\ n.mStart \in Nat
      /\ q.mStart \in Nat /\ q.mEnd \in Nat
      /\ From(n) \in Nat /\ From(q) \in Nat /\ Until(q) \in Nat /\ From(r) \in Nat
      /\ 2 * q.mEnd <= Until(q) /\ From(r) <= 2 * r.mStart + 1
      /\ From(n) <= 2 * n.mStart + 1
  BY <1>3, EndsTyped
<1>5. /\ IsLater(R, r, n) => (r.mStart < q.mStart => n.mStart <= q.mStart)
      /\ IsWrap(R, r, n) => q.mStart <= r.mStart /\ n.mStart <= q.mStart
  BY <1>3 DEF IsLater, IsWrap
<1>6. /\ q.mStart < r.mStart => ~IsCrossDay(q)
      /\ r.mStart < q.mStart => ~IsCrossDay(r)
      /\ IsCrossDay(q) => Until(q) <= From(r)
      /\ q.mStart = r.mStart => q = r
      /\ n.mStart = q.mStart => q = n
  BY <1>3 DEF Spaced, Laid, Keyed
<1>7. n.mStart <= q.mStart => From(n) <= From(q)
  <2>1. CASE n.mStart < q.mStart
    BY <1>3, <1>4, <2>1, FromGrows
  <2>2. CASE n.mStart = q.mStart
    BY <1>4, <1>6, <2>2
  <2>3. QED
    BY ONLY <1>4, <2>1, <2>2
<1>8. n.mStart <= q.mStart /\ ~IsCrossDay(q) => From(n) <= Until(q)
  BY <1>1, <1>4, <1>7
<1>9. CASE IsLater(R, r, n) /\ ~IsCrossDay(r) /\ r.mEnd < n.mStart
  <2>1. r.mStart < r.mEnd /\ r.mEnd < n.mStart /\ r.mEnd < q.mEnd /\ ~(n.mStart < r.mEnd)
    <3>1. r.mStart < r.mEnd /\ r.mEnd < n.mStart
      BY <1>2, <1>9
    <3>2. ~(n.mStart < r.mEnd)
      BY ONLY <1>4, <3>1
    <3>3. QED
      BY <3>1, <3>2
  <2>2. ~IsCrossDay(q)
    <3>1. SUFFICES ASSUME IsCrossDay(q) PROVE FALSE
      OBVIOUS
    <3>2. Until(q) <= From(r)
      BY <1>6, <3>1
    <3>3. QED
      BY ONLY <1>4, <2>1, <3>2
  <2>3. n.mStart <= q.mStart
    <3>1. r.mStart < q.mStart
      <4>1. q.mStart # r.mStart
        BY <1>4, <1>6, <2>1
      <4>2. ~(q.mStart < r.mStart)
        <5>1. SUFFICES ASSUME q.mStart < r.mStart PROVE FALSE
          OBVIOUS
        <5>2. q.mEnd <= r.mStart
          <6>1. Until(q) <= From(r)
            BY <1>3, <5>1 DEF Spaced, Laid
          <6>2. QED
            BY ONLY <1>4, <6>1
        <5>3. QED
          BY ONLY <1>4, <2>1, <5>2
      <4>3. QED
        BY ONLY <1>4, <4>1, <4>2
    <3>2. QED
      BY <1>5, <1>9, <3>1
  <2>4. QED
    BY <1>8, <2>1, <2>2, <2>3
<1>10. CASE IsWrap(R, r, n) /\ ~IsCrossDay(r) /\ n.mStart < r.mEnd
  <2>1. q.mStart <= r.mStart /\ n.mStart <= q.mStart /\ r.mStart < r.mEnd
    BY <1>2, <1>5, <1>10
  <2>2. ~IsCrossDay(q)
    <3>1. CASE q.mStart = r.mStart
      BY <1>6, <1>10, <3>1
    <3>2. CASE q.mStart < r.mStart
      BY <1>6, <3>2
    <3>3. QED
      BY ONLY <1>4, <2>1, <3>1, <3>2
  <2>3. ~(r.mEnd < q.mEnd)
    <3>1. CASE q.mStart = r.mStart
      BY <1>4, <1>6, <3>1
    <3>2. CASE q.mStart < r.mStart
      <4>1. Until(q) <= From(r)
        BY <1>3, <3>2 DEF Spaced, Laid
      <4>2. QED
        BY ONLY <1>4, <2>1, <4>1
    <3>3. QED
      BY ONLY <1>4, <2>1, <3>1, <3>2
  <2>4. QED
    BY <1>8, <2>1, <2>2, <2>3
<1>11. CASE IsWrap(R, r, n) /\ IsCrossDay(r) /\ r.mEnd < n.mStart
  <2>1. q.mStart <= r.mStart /\ n.mStart <= q.mStart
    BY <1>5, <1>11
  <2>2. ~(n.mStart < r.mEnd) /\ r.mEnd < q.mEnd
    <3>1. ~(n.mStart < r.mEnd)
      BY <1>4, <1>11
    <3>2. QED
      BY <3>1
  <2>3. q.mStart # r.mStart
    BY <1>4, <1>6, <2>2
  <2>4. q.mStart < r.mStart
    BY ONLY <1>4, <2>1, <2>3
  <2>5. ~IsCrossDay(q)
    BY <1>6, <2>4
  <2>6. QED
    BY <1>8, <2>1, <2>2, <2>5
<1>12. QED
  BY <1>2, <1>9, <1>10, <1>11

(* So the ranges and those of Complete are laid together.                  *)
Completed(R) ==
  R \cup {u \in Ranges : \E r, n \in R : Gap(R, r, n) /\ u = CompleteRange(r, n)}

(* With the gaps filled, no two ranges have a time in common.              *)
LEMMA CompletedIsLaid ==
  ASSUME NEW R, Spaced(R)
  PROVE  Laid(Completed(R)) /\ \A r \in Completed(R) : r.mStart # r.mEnd
<1> DEFINE U == {u \in Ranges : \E r, n \in R : Gap(R, r, n) /\ u = CompleteRange(r, n)}
<1>1. R \subseteq Ranges
  BY DEF Spaced, Laid, Keyed
<1>2. ASSUME NEW u \in U
      PROVE  \E r, n \in R :
               /\ Gap(R, r, n) /\ u = CompleteRange(r, n)
               /\ IsValid(u) /\ u.mStart = r.mEnd /\ u.mEnd = n.mStart /\ u.mStart # u.mEnd
               /\ From(u) = Until(r) /\ Until(u) = From(n)
               /\ IsCrossDay(u) <=> n.mStart < r.mEnd
  <2>1. PICK r \in R, n \in R : Gap(R, r, n) /\ u = CompleteRange(r, n)
    OBVIOUS
  <2>2. r \in Ranges /\ n \in Ranges /\ r.mEnd # n.mStart
    BY <1>1, <2>1 DEF Gap
  <2>3. QED
    BY <2>1, <2>2, CompletedIs
<1> HIDE DEF U
<1>3. ASSUME NEW u \in U, NEW q \in R
      PROVE  /\ u.mStart # q.mStart
             /\ u.mStart < q.mStart => ~IsCrossDay(u) /\ Until(u) <= From(q)
             /\ IsCrossDay(u) => Until(u) <= From(q)
             /\ q.mStart < u.mStart => ~IsCrossDay(q) /\ Until(q) <= From(u)
             /\ IsCrossDay(q) => Until(q) <= From(u)
  <2>1. PICK r \in R, n \in R :
               /\ Gap(R, r, n) /\ u = CompleteRange(r, n)
               /\ IsValid(u) /\ u.mStart = r.mEnd /\ u.mEnd = n.mStart /\ u.mStart # u.mEnd
               /\ From(u) = Until(r) /\ Until(u) = From(n)
               /\ IsCrossDay(u) <=> n.mStart < r.mEnd
    BY <1>2
  <2>2. u.mStart # q.mStart
    BY <2>1, GapIsNew
  <2>3. u.mStart < q.mStart => ~IsCrossDay(u) /\ Until(u) <= From(q)
    BY <2>1, GapBefore
  <2>4. q.mStart < u.mStart => ~IsCrossDay(q) /\ Until(q) <= From(u)
    BY <2>1, GapAfter
  <2>5. IsCrossDay(q) => Until(q) <= From(u)
    BY <2>1, GapAfter
  <2>6. ASSUME IsCrossDay(u) PROVE Until(u) <= From(q)
    <3>1. n.mStart < r.mEnd
      BY <2>1, <2>6
    <3>2. r.mEnd \in Nat /\ n.mStart \in Nat /\ q.mStart \in Nat /\ From(n) \in Nat /\ From(q) \in Nat
      BY <1>1, EndsTyped
    <3>3. ~(r.mEnd < n.mStart)
      BY ONLY <3>1, <3>2
    <3>4. IsWrap(R, r, n)
      BY <2>1, <3>3, GapIs
    <3>5. n.mStart <= q.mStart
      BY <3>4 DEF IsWrap
    <3>6. CASE n.mStart < q.mStart
      BY <1>1, <2>1, <3>2, <3>6, FromGrows
    <3>7. CASE n.mStart = q.mStart
      <4>1. n = q
        BY <3>7 DEF Spaced, Laid, Keyed
      <4>2. QED
        BY <2>1, <3>2, <4>1
    <3>8. QED
      BY ONLY <3>2, <3>5, <3>6, <3>7
  <2>7. QED
    BY <2>2, <2>3, <2>4, <2>5, <2>6
<1>4. ASSUME NEW u \in U, NEW v \in U
      PROVE  /\ u.mStart = v.mStart => u = v
             /\ u.mStart < v.mStart => ~IsCrossDay(u) /\ Until(u) <= From(v)
             /\ IsCrossDay(u) => Until(u) <= From(v)
  <2>1. PICK r \in R, n \in R :
               /\ Gap(R, r, n) /\ u = CompleteRange(r, n)
               /\ IsValid(u) /\ u.mStart = r.mEnd /\ u.mEnd = n.mStart /\ u.mStart # u.mEnd
               /\ From(u) = Until(r) /\ Until(u) = From(n)
               /\ IsCrossDay(u) <=> n.mStart < r.mEnd
    BY <1>2
  <2>2. PICK q \in R, m \in R :
               /\ Gap(R, q, m) /\ v = CompleteRange(q, m)
               /\ IsValid(v) /\ v.mStart = q.mEnd /\ v.mEnd = m.mStart /\ v.mStart # v.mEnd
               /\ From(v) = Until(q) /\ Until(v) = From(m)
               /\ IsCrossDay(v) <=> m.mStart < q.mEnd
    BY <1>2
  <2>3. u.mStart < v.mStart => ~IsCrossDay(u) /\ Until(u) <= From(v)
    BY <2>1, <2>2, GapAndGap
  <2>4. IsCrossDay(u) => Until(u) <= From(v)
    BY <2>1, <2>2, GapAndGap
  <2>5. ASSUME u.mStart = v.mStart PROVE u = v
    <3>1. r.mEnd = q.mEnd
      BY <2>1, <2>2, <2>5
    <3>2. ~(r.mStart < q.mStart)
      BY <2>1, <2>2, <3>1, GapsDiffer
    <3>3. ~(q.mStart < r.mStart)
      BY <2>1, <2>2, <3>1, GapsDiffer
    <3>4. r.mStart \in Nat /\ q.mStart \in Nat /\ n.mStart \in Nat /\ m.mStart \in Nat
      BY <1>1, EndsTyped
    <3>5. r.mStart = q.mStart
      BY ONLY <3>2, <3>3, <3>4
    <3>6. r = q
      BY <3>5 DEF Spaced, Laid, Keyed
    <3>7. n.mStart = m.mStart
      <4>1. /\ (IsLater(R, r, n) \/ IsWrap(R, r, n))
            /\ (IsLater(R, r, m) \/ IsWrap(R, r, m))
        BY <2>1, <2>2, <3>6 DEF Gap, IsNext
      <4>2. CASE IsLater(R, r, n)
        <5>1. r.mStart < n.mStart /\ ~(n.mStart <= r.mStart)
          BY <3>4, <4>2 DEF IsLater
        <5>2. IsLater(R, r, m)
          BY <4>1, <5>1 DEF IsWrap
        <5>3. n.mStart <= m.mStart /\ m.mStart <= n.mStart
          BY <4>2, <5>2 DEF IsLater
        <5>4. QED
          BY ONLY <3>4, <5>3
      <4>3. CASE IsWrap(R, r, n)
        <5>1. m.mStart <= r.mStart /\ n.mStart <= m.mStart
          BY <4>3 DEF IsWrap
        <5>2. ~(r.mStart < m.mStart)
          BY ONLY <3>4, <5>1
        <5>3. IsWrap(R, r, m)
          BY <4>1, <5>2 DEF IsLater
        <5>4. m.mStart <= n.mStart
          BY <5>3 DEF IsWrap
        <5>5. QED
          BY ONLY <3>4, <5>1, <5>4
      <4>4. QED
        BY <4>1, <4>2, <4>3
    <3>8. n = m
      BY <3>7 DEF Spaced, Laid, Keyed
    <3>9. QED
      BY <2>1, <2>2, <3>6, <3>8
  <2>6. QED
    BY <2>3, <2>4, <2>5
<1>5. ASSUME NEW r \in R, NEW q \in R
      PROVE  /\ r.mStart = q.mStart => r = q
             /\ r.mStart < q.mStart => ~IsCrossDay(r) /\ Until(r) <= From(q)
             /\ IsCrossDay(r) => Until(r) <= From(q)
             /\ IsValid(r) /\ r.mStart # r.mEnd
  BY DEF Spaced, Laid, Keyed
<1>6. Completed(R) = R \cup U /\ U \subseteq Ranges
  BY DEF Completed, U
<1>7. ASSUME NEW r \in Completed(R), NEW q \in Completed(R)
      PROVE  /\ r.mStart = q.mStart => r = q
             /\ r.mStart < q.mStart => ~IsCrossDay(r) /\ Until(r) <= From(q)
             /\ IsCrossDay(r) => Until(r) <= From(q)
  BY <1>3, <1>4, <1>5, <1>6
<1>8. \A r \in Completed(R) : IsValid(r) /\ r.mStart # r.mEnd
  BY <1>2, <1>5, <1>6
<1>9. QED
  BY <1>1, <1>6, <1>7, <1>8 DEF Laid, Keyed

(* Every time of the day is in one of the ranges or of the gaps.           *)
LEMMA CompletedCovers ==
  ASSUME NEW R, Spaced(R), R # {},
         \A r \in R : \E n \in R : IsNext(R, r, n) /\ (r.mEnd = n.mStart => From(n) <= Until(r))
  PROVE  Covers(Completed(R))
<1>1. R \subseteq Ranges /\ \A r \in R : IsValid(r) /\ r.mStart # r.mEnd
  BY DEF Spaced, Laid, Keyed
<1>2. SUFFICES ASSUME NEW t \in TimeOfDay
               PROVE  \E r \in Completed(R) : IsInRange(r, t)
  BY DEF Covers
<1> DEFINE w == 2 * t
<1>3. t \in Nat /\ w \in Nat
  BY DayAssumption DEF TimeOfDay
<1>4. ASSUME NEW r \in R
      PROVE  /\ r.mStart \in Nat /\ r.mEnd \in Nat /\ r.mStart \in Bound
             /\ From(r) \in Nat /\ Until(r) \in Nat
  BY <1>1, EndsTyped
<1>5. ASSUME NEW r \in R
      PROVE  /\ IsCrossDay(r) => (IsInRange(r, t) <=> From(r) <= w \/ w < Until(r))
             /\ ~IsCrossDay(r) => (IsInRange(r, t) <=> From(r) <= w /\ w < Until(r))
             /\ IsCrossDay(r) <=> r.mEnd < r.mStart
  <2>1. IsCrossDay(r) <=> r.mEnd < r.mStart
    BY DEF IsCrossDay
  <2>2. QED
    BY <1>1, <1>3, <2>1, InRange
<1>6. ASSUME NEW r \in R, NEW n \in R, IsNext(R, r, n), r.mEnd # n.mStart
      PROVE  LET u == CompleteRange(r, n)
             IN  /\ u \in Completed(R)
                 /\ n.mStart < r.mEnd => (IsInRange(u, t) <=> Until(r) <= w \/ w < From(n))
                 /\ ~(n.mStart < r.mEnd) => (IsInRange(u, t) <=> Until(r) <= w /\ w < From(n))
  <2> DEFINE u == CompleteRange(r, n)
  <2>1. Gap(R, r, n) /\ r \in Ranges /\ n \in Ranges
    BY <1>1, <1>6 DEF Gap
  <2>2. /\ u \in Ranges /\ IsValid(u) /\ From(u) = Until(r) /\ Until(u) = From(n)
        /\ IsCrossDay(u) <=> n.mStart < r.mEnd
    BY <1>6, <2>1, CompletedIs
  <2>3. u \in Completed(R)
    BY <2>1, <2>2 DEF Completed
  <2> HIDE DEF u
  <2>4. /\ IsCrossDay(u) => (IsInRange(u, t) <=> From(u) <= w \/ w < Until(u))
        /\ ~IsCrossDay(u) => (IsInRange(u, t) <=> From(u) <= w /\ w < Until(u))
    BY <1>3, <2>2, InRange
  <2>5. QED
    BY <2>2, <2>3, <2>4 DEF u
<1>7. R \subseteq Completed(R)
  BY DEF Completed
<1> HIDE DEF w
<1> DEFINE S == {r \in R : From(r) <= w}
(* Before all of them: in the last, or between it and the first.           *)
<1>8. CASE S = {}
  <2> DEFINE T == {r.mStart : r \in R}
  <2>1. T \subseteq Bound /\ T # {}
    BY <1>4
  <2>2. Max(T) \in T /\ \A y \in T : y <= Max(T)
    BY <2>1, Extremes
  <2>3. PICK r \in R : r.mStart = Max(T)
    BY <2>2
  <2>4. \A p \in R : p.mStart <= r.mStart
    BY <2>2, <2>3
  <2>5. PICK n \in R : IsNext(R, r, n) /\ (r.mEnd = n.mStart => From(n) <= Until(r))
    OBVIOUS
  <2>6. n.mStart <= r.mStart
    BY <2>4
  <2>7. ~(From(n) <= w)
    BY <1>8
  <2>8. CASE IsInRange(r, t)
    BY <1>7, <2>8
  <2>9. CASE ~IsInRange(r, t)
    <3>1. CASE IsCrossDay(r)
      <4>1. Until(r) <= w /\ r.mEnd < r.mStart
        BY <1>3, <1>4, <1>5, <2>9, <3>1
      <4>2. r.mEnd # n.mStart
        BY <1>3, <1>4, <2>5, <2>7, <4>1
      <4>3. ~(n.mStart < r.mEnd)
        <5>1. Until(r) <= From(n)
          BY <3>1 DEF Spaced, Laid
        <5>2. 2 * r.mEnd <= Until(r) /\ From(n) <= 2 * n.mStart + 1
          BY <1>1, EndsTyped
        <5>3. r.mEnd \in Nat /\ n.mStart \in Nat /\ Until(r) \in Nat /\ From(n) \in Nat
          BY <1>4
        <5>4. QED
          BY ONLY <5>1, <5>2, <5>3
      <4>4. w < From(n)
        BY <1>3, <1>4, <2>7
      <4>5. QED
        BY <1>6, <2>5, <4>1, <4>2, <4>3, <4>4
    <3>2. CASE ~IsCrossDay(r)
      <4>1. ~(r.mEnd < r.mStart) /\ r.mStart # r.mEnd
        BY <1>1, <1>5, <3>2
      <4>2. n.mStart < r.mEnd
        BY <1>4, <2>6, <4>1
      <4>3. r.mEnd # n.mStart
        BY <1>4, <4>2
      <4>4. w < From(n)
        BY <1>3, <1>4, <2>7
      <4>5. QED
        BY <1>6, <2>5, <4>2, <4>3, <4>4
    <3>3. QED
      BY <3>1, <3>2
  <2>10. QED
    BY <2>8, <2>9
(* In the last that has begun, or after it.                                *)
<1>9. CASE S # {}
  <2> DEFINE T == {r.mStart : r \in S}
  <2>1. T \subseteq Bound /\ T # {}
    BY <1>4, <1>9
  <2>2. Max(T) \in T /\ \A y \in T : y <= Max(T)
    BY <2>1, Extremes
  <2>3. PICK r \in S : r.mStart = Max(T)
    BY <2>2
  <2>4. \A p \in S : p.mStart <= r.mStart
    BY <2>2, <2>3
  <2>5. r \in R /\ From(r) <= w
    OBVIOUS
  <2>6. PICK n \in R : IsNext(R, r, n) /\ (r.mEnd = n.mStart => From(n) <= Until(r))
    BY <2>5
  <2>7. CASE IsInRange(r, t)
    BY <1>7, <2>5, <2>7
  <2>8. CASE ~IsInRange(r, t)
    <3>1. ~IsCrossDay(r) /\ Until(r) <= w
      BY <1>3, <1>4, <1>5, <2>5, <2>8
    <3>2. ~(r.mEnd < r.mStart) /\ r.mStart # r.mEnd
      BY <1>1, <1>5, <2>5, <3>1
    <3>3. CASE IsWrap(R, r, n)
      <4>1. n.mStart <= r.mStart
        BY <3>3, <2>5 DEF IsWrap
      <4>2. n.mStart < r.mEnd
        BY <1>4, <2>5, <3>2, <4>1
      <4>3. r.mEnd # n.mStart
        BY <1>4, <2>5, <4>2
      <4>4. QED
        BY <1>6, <2>5, <2>6, <3>1, <4>2, <4>3
    <3>4. CASE IsLater(R, r, n)
      <4>1. r.mStart < n.mStart
        BY <3>4 DEF IsLater
      <4>2. n \notin S
        <5>1. ~(n.mStart <= r.mStart)
          BY <1>4, <2>5, <4>1
        <5>2. QED
          BY <2>4, <5>1
      <4>3. ~(From(n) <= w)
        BY <4>2
      <4>4. w < From(n)
        BY <1>3, <1>4, <4>3
      <4>5. r.mEnd # n.mStart
        BY <1>3, <1>4, <2>5, <2>6, <3>1, <4>4
      <4>6. ~(n.mStart < r.mEnd)
        <5>1. Until(r) <= From(n)
          BY <2>5, <4>1 DEF Spaced, Laid
        <5>2. 2 * r.mEnd <= Until(r) /\ From(n) <= 2 * n.mStart + 1
          BY <1>1, <2>5, EndsTyped
        <5>3. r.mEnd \in Nat /\ n.mStart \in Nat /\ Until(r) \in Nat /\ From(n) \in Nat
          BY <1>4, <2>5
        <5>4. QED
          BY ONLY <5>1, <5>2, <5>3
      <4>7. QED
        BY <1>6, <2>5, <2>6, <3>1, <4>4, <4>5, <4>6
    <3>5. QED
      BY <2>6, <3>3, <3>4 DEF IsNext
  <2>9. QED
    BY <2>7, <2>8
<1>10. QED
  BY <1>8, <1>9

(* Complete inserts the ranges between the others.                         *)
LEMMA CompleteInserts ==
  ASSUME Added(mTimeRanges), Laid(mTimeRanges)
  PROVE  /\ Inserted(mTimeRanges, Unknowns) = Completed(mTimeRanges)
         /\ Spaced(mTimeRanges)
         /\ \A r \in mTimeRanges : \E n \in mTimeRanges :
              IsNext(mTimeRanges, r, n) /\ (r.mEnd = n.mStart => From(n) <= Until(r))
<1> DEFINE R == mTimeRanges
           after(r) == At(NextStart(r.mStart))
<1>1. Keyed(R) /\ R \subseteq Ranges /\ \A r, q \in R : Separate(r, q)
  BY DEF Added, Keyed
<1>2. Spaced(R)
  BY <1>1 DEF Spaced, Separate
<1>3. ASSUME NEW r \in R PROVE IsNext(R, r, after(r)) /\ after(r) \in R
  BY <1>1, NextIs DEF IsNext
<1>4. ASSUME NEW r \in R, NEW n \in R PROVE IsNeedComplete(r, n) <=> r.mEnd # n.mStart
  BY <1>1 DEF Separate, IsNeedComplete
<1>5. ASSUME NEW r \in R, NEW n \in R, r.mEnd = n.mStart PROVE From(n) <= Until(r)
  <2>1. ~(r.mIsEndOpen /\ n.mIsStartOpen)
    BY <1>1, <1>5 DEF Separate
  <2>2. /\ r.mEnd \in Nat /\ n.mStart \in Nat /\ From(n) \in Nat /\ Until(r) \in Nat
        /\ 2 * r.mEnd <= Until(r) /\ From(n) <= 2 * n.mStart + 1
        /\ ~n.mIsStartOpen => From(n) = 2 * n.mStart
        /\ ~r.mIsEndOpen => Until(r) = 2 * r.mEnd + 1
    BY <1>1, EndsTyped
  <2>3. From(n) = 2 * n.mStart \/ Until(r) = 2 * r.mEnd + 1
    BY <2>1, <2>2
  <2>4. QED
    BY ONLY <1>5, <2>2, <2>3
<1>6. ASSUME NEW r \in R, NEW n \in R, NEW m \in R, IsNext(R, r, n), IsNext(R, r, m)
      PROVE  n = m
  BY <1>1, <1>6, NextIsOne
<1>7. Unknowns = {u \in Ranges : \E r, n \in R : Gap(R, r, n) /\ u = CompleteRange(r, n)}
  <2>1. ASSUME NEW u \in Unknowns
        PROVE  u \in Ranges /\ \E r, n \in R : Gap(R, r, n) /\ u = CompleteRange(r, n)
    <3>1. PICK r \in R : IsNeedComplete(r, after(r)) /\ u = CompleteRange(r, after(r))
      BY DEF Unknowns, Neighbours
    <3>2. Gap(R, r, after(r)) /\ after(r) \in R
      BY <1>3, <1>4, <3>1 DEF Gap
    <3>3. u \in Ranges
      BY <1>1, <3>1, <3>2, CompletedIs DEF Gap
    <3>4. QED
      BY <3>1, <3>2, <3>3
  <2>2. ASSUME NEW r \in R, NEW n \in R, Gap(R, r, n) PROVE CompleteRange(r, n) \in Unknowns
    <3>1. n = after(r) /\ r.mEnd # n.mStart
      BY <1>3, <1>6, <2>2 DEF Gap
    <3>2. IsNeedComplete(r, n)
      BY <1>4, <3>1
    <3>3. <<r, n>> \in Neighbours
      BY <3>1 DEF Neighbours
    <3>4. QED
      BY <3>2, <3>3 DEF Unknowns
  <2>3. QED
    BY <2>1, <2>2
<1>8. \A u \in Unknowns : u.mStart \notin Starts(R)
  <2>1. SUFFICES ASSUME NEW u \in Unknowns, NEW q \in R PROVE q.mStart # u.mStart
    BY DEF Starts
  <2>2. PICK r \in R, n \in R : Gap(R, r, n) /\ u = CompleteRange(r, n)
    BY <1>7
  <2>3. u.mStart = r.mEnd
    BY <2>2 DEF CompleteRange
  <2>4. QED
    BY <1>2, <2>2, <2>3, GapIsNew
<1>9. Inserted(R, Unknowns) = R \cup Unknowns
  BY <1>8 DEF Inserted
<1>10. Inserted(R, Unknowns) = Completed(R)
  BY <1>7, <1>9 DEF Completed
<1>11. QED
  BY <1>2, <1>3, <1>5, <1>10

(* Every range ends where another one begins, and that is the next.        *)
Tiled(R) == \A r \in R : \E n \in R : n.mStart = r.mEnd /\ From(n) = Until(r)

(* With the gaps filled, each range ends where another begins.             *)
LEMMA CompletedTiled ==
  ASSUME NEW R, Spaced(R),
         \A r \in R : \E n \in R : IsNext(R, r, n) /\ (r.mEnd = n.mStart => From(n) <= Until(r))
  PROVE  Tiled(Completed(R))
<1>1. R \subseteq Ranges /\ R \subseteq Completed(R)
  BY DEF Spaced, Laid, Keyed, Completed
<1>2. ASSUME NEW r \in R
      PROVE  \E n \in Completed(R) : n.mStart = r.mEnd /\ From(n) = Until(r)
  <2>1. PICK n \in R : IsNext(R, r, n) /\ (r.mEnd = n.mStart => From(n) <= Until(r))
    OBVIOUS
  <2>2. CASE r.mEnd # n.mStart
    <3>1. Gap(R, r, n) /\ r \in Ranges /\ n \in Ranges
      BY <1>1, <2>1, <2>2 DEF Gap
    <3>2. PICK u : u = CompleteRange(r, n)
      OBVIOUS
    <3>3. u \in Ranges /\ u.mStart = r.mEnd /\ From(u) = Until(r)
      BY <2>2, <3>1, <3>2, CompletedIs
    <3>4. u \in Completed(R)
      BY <3>1, <3>2, <3>3 DEF Completed
    <3>5. QED
      BY <3>3, <3>4
  <2>3. CASE r.mEnd = n.mStart
    <3>1. /\ r.mStart \in Nat /\ r.mEnd \in Nat /\ n.mStart \in Nat
          /\ From(n) \in Nat /\ Until(r) \in Nat
      BY <1>1, EndsTyped
    <3>2. From(n) <= Until(r)
      BY <2>1, <2>3
    <3>3. Until(r) <= From(n)
      <4>1. CASE IsCrossDay(r)
        BY <4>1 DEF Spaced, Laid
      <4>2. CASE ~IsCrossDay(r)
        <5>1. ~(r.mEnd < r.mStart) /\ r.mStart # r.mEnd
          BY <4>2 DEF IsCrossDay, Spaced
        <5>2. r.mStart < n.mStart
          BY ONLY <2>3, <3>1, <5>1
        <5>3. QED
          BY <5>2 DEF Spaced, Laid
      <4>3. QED
        BY <4>1, <4>2
    <3>4. From(n) = Until(r)
      BY ONLY <3>1, <3>2, <3>3
    <3>5. QED
      BY <1>1, <2>3, <3>4
  <2>4. QED
    BY <2>2, <2>3
<1>3. ASSUME NEW u \in Ranges, NEW r \in R, NEW n \in R, Gap(R, r, n), u = CompleteRange(r, n)
      PROVE  \E m \in Completed(R) : m.mStart = u.mEnd /\ From(m) = Until(u)
  <2>1. r \in Ranges /\ n \in Ranges /\ r.mEnd # n.mStart
    BY <1>1, <1>3 DEF Gap
  <2>2. u.mEnd = n.mStart /\ Until(u) = From(n)
    BY <1>3, <2>1, CompletedIs
  <2>3. QED
    BY <1>1, <2>2
<1>4. ASSUME NEW x \in Completed(R)
      PROVE  \E n \in Completed(R) : n.mStart = x.mEnd /\ From(n) = Until(x)
  BY <1>2, <1>3 DEF Completed
<1>5. QED
  BY <1>4 DEF Tiled

(* A phase that is ready for use.                                          *)
Ready(R) == R # {} /\ Spaced(R) /\ Covers(R) /\ Tiled(R)

(* When Complete succeeds, the phase is ready for GetCurrent.              *)
LEMMA CompleteMakesReady ==
  ASSUME Added(mTimeRanges), mTimeRanges # {},
         ~(Cardinality(mTimeRanges) > 1 /\ \E p \in Neighbours : IsConflict(p))
  PROVE  Ready(Inserted(mTimeRanges, Unknowns))
<1>1. Laid(mTimeRanges)
  BY AcceptedIsLaid
<1>2. /\ Inserted(mTimeRanges, Unknowns) = Completed(mTimeRanges)
      /\ Spaced(mTimeRanges)
      /\ \A r \in mTimeRanges : \E n \in mTimeRanges :
              IsNext(mTimeRanges, r, n) /\ (r.mEnd = n.mStart => From(n) <= Until(r))
  BY <1>1, CompleteInserts
<1>3. PICK R : R = mTimeRanges
  OBVIOUS
<1>4. /\ Spaced(R) /\ R # {}
      /\ \A r \in R : \E n \in R : IsNext(R, r, n) /\ (r.mEnd = n.mStart => From(n) <= Until(r))
  BY <1>2, <1>3
<1>5. Spaced(Completed(R))
  BY <1>4, CompletedIsLaid DEF Spaced
<1>6. Covers(Completed(R))
  BY <1>4, CompletedCovers
<1>7. Tiled(Completed(R))
  BY <1>4, CompletedTiled
<1>8. Completed(R) # {}
  BY <1>4 DEF Completed
<1>9. QED
  BY <1>2, <1>3, <1>5, <1>6, <1>7, <1>8 DEF Ready

(* Whichever range was found last, that of t is found.                     *)
LEMMA CurrentIs ==
  ASSUME Ready(mTimeRanges), mCurrentIt \in Starts(mTimeRanges), NEW t \in TimeOfDay
  PROVE  Current(t) \in Starts(mTimeRanges) /\ IsInRange(At(Current(t)), t)
<1> DEFINE R == mTimeRanges
           starts == Starts(R)
           below == {s \in starts : s < mCurrentIt /\ IsInRange(At(s), t)}
           above == {s \in starts : s > mCurrentIt /\ IsInRange(At(s), t)}
<1>1. Keyed(R) /\ Laid(R) /\ R \subseteq Ranges /\ \A r \in R : IsValid(r)
  BY DEF Ready, Spaced, Laid, Keyed
<1>2. /\ starts \subseteq Bound /\ \A s \in starts : At(s) \in R /\ At(s).mStart = s
      /\ \A r \in R : r.mStart \in starts /\ At(r.mStart) = r
  BY <1>1, AtIs
<1>3. starts \subseteq Nat /\ t \in Nat
  <2>1. starts \subseteq Nat
    BY <1>2, Even
  <2>2. t \in Nat
    BY DayAssumption DEF TimeOfDay
  <2>3. QED
    BY <2>1, <2>2
<1>4. PICK c \in R : IsInRange(c, t)
  BY DEF Ready, Covers
<1>5. PICK m : m = mCurrentIt /\ m \in starts /\ m \in Nat
  BY <1>3
<1>6. /\ c.mStart \in Nat /\ c.mStart \in starts /\ From(c) \in Nat /\ Until(c) \in Nat
      /\ At(c.mStart) = c /\ 2 * c.mStart <= From(c)
  BY <1>1, <1>2, EndsTyped
<1>7. /\ IsCrossDay(c) => From(c) <= 2 * t \/ 2 * t < Until(c)
      /\ ~IsCrossDay(c) => From(c) <= 2 * t /\ 2 * t < Until(c)
  BY <1>1, <1>3, <1>4, InRange
<1>8. CASE IsInRange(At(mCurrentIt), t)
  BY <1>8 DEF Current
<1>9. CASE ~IsInRange(At(mCurrentIt), t)
  <2>1. c.mStart # m
    BY <1>4, <1>5, <1>6, <1>9
  <2>2. CASE m >= t
    <3>1. Current(t) = IF below = {} THEN Max(starts) ELSE Max(below)
      BY <1>5, <1>9, <2>2 DEF Current, GoesDown
    <3>2. CASE below # {}
      <4>1. Max(below) \in below
        BY <1>2, <3>2, Extremes
      <4>2. QED
        BY <3>1, <3>2, <4>1
    <3>3. CASE below = {}
      <4>1. ~(c.mStart < m)
        BY <1>4, <1>5, <1>6, <3>3
      <4>2. t < c.mStart /\ ~(From(c) <= 2 * t)
        BY ONLY <1>3, <1>5, <1>6, <2>1, <2>2, <4>1
      <4>3. IsCrossDay(c)
        BY <1>7, <4>2
      <4>4. ASSUME NEW s \in starts PROVE ~(c.mStart < s)
        BY <1>1, <1>2, <4>3 DEF Laid
      <4>5. Max(starts) \in starts /\ c.mStart <= Max(starts)
        BY <1>2, <1>6, Extremes
      <4>6. PICK x : x = Max(starts)
        OBVIOUS
      <4>7. x \in Nat /\ c.mStart <= x /\ ~(c.mStart < x)
        BY <1>3, <4>4, <4>5, <4>6
      <4>8. x = c.mStart
        BY ONLY <1>6, <4>7
      <4>9. QED
        BY <1>4, <1>6, <3>1, <3>3, <4>6, <4>8
    <3>4. QED
      BY <3>2, <3>3
  <2>3. CASE ~(m >= t)
    <3>1. Current(t) = IF above = {} THEN Min(starts) ELSE Min(above)
      BY <1>5, <1>9, <2>3 DEF Current, GoesDown
    <3>2. above # {}
      <4>1. SUFFICES ASSUME above = {} PROVE FALSE
        OBVIOUS
      <4>2. ~(c.mStart > m)
        BY <1>4, <1>5, <1>6, <4>1
      <4>3. c.mStart < m
        BY ONLY <1>5, <1>6, <2>1, <4>2
      <4>4. PICK a : a = At(m) /\ a \in R /\ a.mStart = m /\ a \in Ranges
        BY <1>1, <1>2, <1>5
      <4>5. ~IsCrossDay(c) /\ Until(c) <= From(a)
        BY <1>1, <4>3, <4>4 DEF Laid
      <4>6. 2 * t < Until(c) /\ From(a) <= 2 * m + 1 /\ From(a) \in Nat
        BY <1>7, <4>4, <4>5, EndsTyped
      <4>7. QED
        BY ONLY <1>3, <1>5, <1>6, <2>3, <4>5, <4>6
    <3>3. Min(above) \in above
      BY <1>2, <3>2, Extremes
    <3>4. QED
      BY <3>1, <3>2, <3>3
  <2>4. QED
    BY <2>2, <2>3
<1>10. QED
  BY <1>8, <1>9
-----------------------------------------------------------------------------
(* TimeRangeScheduler.  Times and times of the day.                        *)
LEMMA TimeParts ==
  ASSUME NEW time \in Nat
  PROVE  /\ time % Day \in Nat /\ time % Day < Day /\ time % Day \in TimeOfDay
         /\ time \div Day \in Nat /\ time = Day * (time \div Day) + (time % Day)
<1>1. PICK D : D = Day /\ D \in Nat /\ D > 0
  BY DayAssumption
<1>2. /\ time % D \in 0..(D - 1)
      /\ time = D * (time \div D) + (time % D) /\ time \div D \in Nat
  BY ONLY time \in Nat, <1>1, SMT
<1>3. time % D \in Nat /\ time % D < D
  BY ONLY <1>1, <1>2
<1>4. QED
  BY <1>1, <1>2, <1>3 DEF TimeOfDay

(* The time of day is the remainder of the time.                           *)
LEMMA TimeIs ==
  ASSUME NEW q \in Nat, NEW y \in Nat, y < Day
  PROVE  (Day * q + y) % Day = y
<1>1. PICK D : D = Day /\ D \in Nat /\ D > 0
  BY DayAssumption
<1>2. PICK x : x = D * q + y /\ x \in Nat
  BY <1>1
<1>3. PICK p, z : p = x \div D /\ z = x % D
  OBVIOUS
<1>4. p \in Nat /\ z \in Nat /\ z < D /\ x = D * p + z
  BY <1>1, <1>2, <1>3, TimeParts
<1>5. PICK e : e = p - q /\ e \in Int
  BY <1>4
<1>6. D * e = y - z
  <2>1. D * (p - q) = y - z
    BY ONLY q \in Nat, y \in Nat, <1>1, <1>2, <1>4, SMT
  <2>2. QED
    BY <1>5, <2>1
<1>7. D * e < D /\ -D < D * e
  BY ONLY y \in Nat, y < Day, <1>1, <1>4, <1>6
<1>8. e < 1
  BY ONLY <1>1, <1>5, <1>7, SMT
<1>9. -1 < e
  BY ONLY <1>1, <1>5, <1>7, SMT
<1>10. e = 0
  BY ONLY <1>5, <1>8, <1>9
<1>11. y - z = 0
  BY ONLY <1>1, <1>6, <1>10, SMT
<1>12. z = y
  BY ONLY y \in Nat, <1>4, <1>11
<1>13. QED
  BY <1>1, <1>2, <1>3, <1>12

(* The time of day some milliseconds later, on the same day or the next.   *)
LEMMA TimeLater ==
  ASSUME NEW time \in Nat, NEW j \in Nat, (time % Day) + j < 2 * Day
  PROVE  /\ (time % Day) + j < Day => (time + j) % Day = (time % Day) + j
         /\ Day <= (time % Day) + j => (time + j) % Day = (time % Day) + j - Day
<1>1. PICK q, d : q = time \div Day /\ d = time % Day
  OBVIOUS
<1>2. q \in Nat /\ d \in Nat /\ d < Day /\ time = Day * q + d /\ Day \in Nat
  BY <1>1, TimeParts, DayAssumption
<1>3. ASSUME d + j < Day PROVE (time + j) % Day = d + j
  <2>1. d + j \in Nat /\ time + j = Day * q + (d + j)
    BY ONLY j \in Nat, <1>2, SMT
  <2>2. QED
    BY <1>2, <1>3, <2>1, TimeIs
<1>4. ASSUME Day <= d + j PROVE (time + j) % Day = d + j - Day
  <2>1. d + j - Day \in Nat /\ d + j - Day < Day /\ q + 1 \in Nat
    BY ONLY j \in Nat, <1>1, <1>2, <1>4, (time % Day) + j < 2 * Day
  <2>2. time + j = Day * (q + 1) + (d + j - Day)
    BY ONLY j \in Nat, <1>2, SMT
  <2>3. QED
    BY <2>1, <2>2, TimeIs
<1>5. QED
  BY <1>1, <1>3, <1>4

(* A range that lasts more than a millisecond from d on, and that has d or *)
(* begins then, or a millisecond later, is the one until it ends.          *)
LEMMA UntilItEnds ==
  ASSUME NEW r \in Ranges, IsValid(r), NEW time \in Nat, NEW d, d = time % Day,
         computeInterval(r.mEnd, d) > 1,
         \/ IsInRange(r, d)
         \/ r.mStart = d \/ r.mStart = d + 1
         \/ r.mStart = 0 /\ d = Day - 1,
         NEW x \in (time + 1)..(time + computeInterval(r.mEnd, d) - 1)
  PROVE  IsInRange(r, x % Day) \/ x % Day = r.mStart
<1> DEFINE s == r.mStart
           e == r.mEnd
           f == From(r)
           u == Until(r)
<1>1. PICK D : D = Day /\ D \in Nat
  BY DayAssumption
<1>2. /\ s \in Nat /\ e \in Nat /\ f \in Nat /\ u \in Nat /\ s <= D /\ e <= D
      /\ 2 * s <= f /\ f <= 2 * s + 1 /\ 2 * e <= u /\ u <= 2 * e + 1
  BY <1>1, EndsTyped
<1>3. d \in Nat /\ d < D
  BY <1>1, TimeParts
<1>4. PICK k : k = computeInterval(e, d)
  OBVIOUS
<1>5. k = (IF e < d THEN e + D - d ELSE e - d) /\ k > 1
  BY <1>1, <1>4 DEF computeInterval
<1>6. k \in Nat
  BY ONLY <1>1, <1>2, <1>3, <1>5
<1>7. PICK j : j = x - time /\ j \in Nat /\ j >= 1 /\ j < k /\ x = time + j
  <2>1. x \in (time + 1)..(time + k - 1)
    BY <1>4
  <2>2. x - time \in Nat /\ x - time >= 1 /\ x - time < k /\ x = time + (x - time)
    BY ONLY <2>1, <1>6, time \in Nat
  <2>3. QED
    BY <2>2
<1>8. PICK y : y = x % Day
  OBVIOUS
<1>9. /\ d + j < D => y = d + j
      /\ D <= d + j => y = d + j - D
  <2>1. d + j < 2 * D
    BY ONLY <1>1, <1>2, <1>3, <1>5, <1>7
  <2>2. QED
    BY <1>1, <1>3, <1>7, <1>8, <2>1, TimeLater
<1>10. y \in Nat
  BY ONLY <1>1, <1>3, <1>7, <1>9
<1>11. ASSUME NEW t \in Nat
       PROVE  IsInRange(r, t) <=> \/ e < s /\ (f <= 2 * t \/ 2 * t < u)
                                  \/ ~(e < s) /\ f <= 2 * t /\ 2 * t < u
  BY InRange DEF IsCrossDay
<1>12. \/ e < s /\ (f <= 2 * d \/ 2 * d < u)
       \/ ~(e < s) /\ f <= 2 * d /\ 2 * d < u
       \/ s = d \/ s = d + 1
       \/ s = 0 /\ d = D - 1
  BY <1>1, <1>3, <1>11
<1> HIDE DEF s, e, f, u
<1>13. \/ e < s /\ (f <= 2 * y \/ 2 * y < u)
       \/ ~(e < s) /\ f <= 2 * y /\ 2 * y < u
       \/ y = s
  <2>1. CASE e < d
    <3>1. k = e + D - d
      BY <1>5, <2>1
    <3>2. CASE d + j < D
      <4>1. y = d + j
        BY <1>9, <3>2
      <4>2. QED
        BY ONLY <1>1, <1>2, <1>3, <1>7, <1>12, <2>1, <3>1, <3>2, <4>1
    <3>3. CASE D <= d + j
      <4>1. y = d + j - D
        BY <1>9, <3>3
      <4>2. QED
        BY ONLY <1>1, <1>2, <1>3, <1>7, <1>12, <2>1, <3>1, <3>3, <4>1
    <3>4. QED
      BY ONLY <1>1, <1>3, <1>7, <3>2, <3>3
  <2>2. CASE ~(e < d)
    <3>1. k = e - d
      BY <1>5, <2>2
    <3>2. d + j < D
      BY ONLY <1>1, <1>2, <1>3, <1>7, <3>1
    <3>3. y = d + j
      BY <1>9, <3>2
    <3>4. QED
      BY ONLY <1>1, <1>2, <1>3, <1>5, <1>7, <1>12, <2>2, <3>1, <3>2, <3>3
  <2>3. QED
    BY <2>1, <2>2
<1>14. QED
  BY <1>8, <1>10, <1>11, <1>13 DEF s

(* The end that is waited for.                                             *)
LEMMA EndIs ==
  ASSUME NEW s, NEW e \in Nat, e = At(s).mEnd, e <= Day, NEW time \in Nat,
         computeInterval(e, time % Day) > 1
  PROVE  /\ EndAfter(s, time) = time + computeInterval(e, time % Day)
         /\ EndAfter(s, time) \in Nat /\ EndAfter(s, time) > time
         /\ (EndAfter(s, time) % Day) = IF e = Day THEN 0 ELSE e
<1>1. PICK D : D = Day /\ D \in Nat /\ D > 0
  BY DayAssumption
<1>2. PICK q, d, k, z : /\ q = time \div Day /\ d = time % Day
                        /\ k = computeInterval(e, time % Day) /\ z = D * q
  OBVIOUS
<1>3. q \in Nat /\ d \in Nat /\ d < D /\ time = z + d
  BY <1>1, <1>2, TimeParts
<1>4. z \in Nat
  BY ONLY <1>1, <1>2, <1>3, SMT
<1>5. k = (IF e < d THEN e + D - d ELSE e - d) /\ k > 1
  BY <1>1, <1>2 DEF computeInterval
<1>6. PICK N : N = EndAfter(s, time)
  OBVIOUS
<1>7. N = IF z + e < time THEN z + e + D ELSE z + e
  BY <1>1, <1>2, <1>6 DEF EndAfter
<1>8. N = time + k /\ N \in Nat /\ N > time
  BY ONLY e \in Nat, <1>1, <1>3, <1>4, <1>5, <1>7
<1>9. \/ N = D * q + e \/ N = D * (q + 1) + e
  <2>1. D * (q + 1) = z + D
    BY ONLY <1>1, <1>2, <1>3, SMT
  <2>2. N = z + e \/ N = z + D + e
    BY ONLY e \in Nat, <1>1, <1>4, <1>7
  <2>3. QED
    BY <1>2, <2>1, <2>2
<1>10. PICK p \in Nat : N = D * p + e
  BY <1>3, <1>9
<1>11. CASE e = Day
  <2>1. N = D * (p + 1) + 0 /\ p + 1 \in Nat
    BY ONLY <1>1, <1>10, <1>11, SMT
  <2>2. QED
    BY <1>1, <1>2, <1>6, <1>8, <1>11, <2>1, TimeIs
<1>12. CASE e # Day
  <2>1. e < Day
    BY <1>1, <1>12
  <2>2. QED
    BY <1>1, <1>2, <1>6, <1>8, <1>10, <1>12, <2>1, TimeIs
<1>13. QED
  BY <1>11, <1>12

-----------------------------------------------------------------------------
(* The range that a check goes on with.                                    *)
Lasts(s, t) == computeInterval(At(s).mEnd, t) > 1

(* What starts at s can be done n times with a function.                   *)
IsIteration(f, g, s, n) == f[0] = s /\ \A k \in 1..n : f[k] = g[f[k - 1]]

(* A function can be applied n times in turn.                              *)
LEMMA Iterates ==
  ASSUME NEW S, NEW g \in [S -> S], NEW s \in S, NEW n \in Nat
  PROVE  \E f \in [0..n -> S] : IsIteration(f, g, s, n)
<1> DEFINE Made(m) == \E f \in [0..m -> S] : f[0] = s /\ \A k \in 1..m : f[k] = g[f[k - 1]]
           Bad == {m \in Nat : ~Made(m)}
<1>1. Made(0)
  <2> DEFINE f == [k \in 0..0 |-> s]
  <2>1. f \in [0..0 -> S] /\ 0 \in 0..0
    OBVIOUS
  <2>2. f[0] = s
    BY <2>1
  <2>3. 1..0 = {}
    OBVIOUS
  <2> HIDE DEF f
  <2>4. QED
    BY <2>1, <2>2, <2>3
<1>2. ASSUME NEW m \in Nat, Made(m) PROVE Made(m + 1)
  <2>1. PICK f \in [0..m -> S] : f[0] = s /\ \A k \in 1..m : f[k] = g[f[k - 1]]
    BY <1>2
  <2> DEFINE h == [k \in 0..(m + 1) |-> IF k = m + 1 THEN g[f[m]] ELSE f[k]]
  <2>2. /\ 0 \in 0..m /\ m \in 0..m
        /\ \A k \in 0..(m + 1) : k = m + 1 \/ k \in 0..m
        /\ \A k \in 0..m : k \in 0..(m + 1) /\ k # m + 1
        /\ \A k \in 1..(m + 1) : k = m + 1 \/ k \in 1..m
        /\ \A k \in 1..m : k - 1 \in 0..m /\ k \in 0..m
        /\ m + 1 \in 0..(m + 1) /\ (m + 1) - 1 = m
    OBVIOUS
  <2>3. g[f[m]] \in S /\ \A k \in 0..m : f[k] \in S
    BY <2>2
  <2>4. h \in [0..(m + 1) -> S] /\ h[m + 1] = g[f[m]] /\ \A k \in 0..m : h[k] = f[k]
    BY <2>2, <2>3
  <2> HIDE DEF h
  <2>5. h[0] = s
    BY <2>1, <2>2, <2>4
  <2>6. ASSUME NEW k \in 1..(m + 1) PROVE h[k] = g[h[k - 1]]
    <3>1. CASE k = m + 1
      BY <2>2, <2>4, <3>1
    <3>2. CASE k \in 1..m
      <4>1. h[k] = f[k] /\ h[k - 1] = f[k - 1] /\ f[k] = g[f[k - 1]]
        BY <2>1, <2>2, <2>4, <3>2
      <4>2. QED
        BY <4>1
    <3>3. QED
      BY <2>2, <3>1, <3>2
  <2>7. QED
    BY <2>4, <2>5, <2>6
<1>3. Bad = {}
  <2> HIDE DEF Made
  <2>1. SUFFICES ASSUME Bad # {} PROVE FALSE
    OBVIOUS
  <2>2. PICK m \in Bad : \A k \in Bad : m <= k
    BY <2>1, LeastMember
  <2>3. m \in Nat /\ ~Made(m) /\ m # 0
    BY <1>1
  <2>4. m - 1 \in Nat /\ ~(m <= m - 1) /\ m = (m - 1) + 1
    BY ONLY <2>3
  <2>5. Made(m - 1)
    BY <2>2, <2>4
  <2>6. Made((m - 1) + 1)
    BY <1>2, <2>4, <2>5
  <2>7. QED
    BY <2>3, <2>4, <2>6
<1>4. Made(n)
  BY <1>3
<1>5. QED
  BY <1>4 DEF IsIteration

(* The search from start on, as long as no range lasts.                    *)
LEMMA SearchIs ==
  ASSUME Keyed(mTimeRanges), NEW start \in Starts(mTimeRanges), NEW t
  PROVE  \E n \in Nat, f \in [0..Cardinality(mTimeRanges) -> Starts(mTimeRanges)] :
           /\ n = Cardinality(mTimeRanges) /\ f[0] = start
           /\ \A k \in 1..n : f[k] = IF Lasts(f[k - 1], t) THEN f[k - 1] ELSE NextStart(f[k - 1])
           /\ LastingFrom(start, t) = IF Lasts(f[n], t) THEN f[n] ELSE looping
<1> DEFINE starts == Starts(mTimeRanges)
           After(s) == IF Lasts(s, t) THEN s ELSE NextStart(s)
           g == [s \in starts |-> After(s)]
           n == Cardinality(mTimeRanges)
           Again(h) == [k \in 0..n |-> IF k = 0 THEN start ELSE
                          IF computeInterval(At(h[k - 1]).mEnd, t) > 1
                            THEN h[k - 1] ELSE NextStart(h[k - 1])]
<1>0. PICK F : /\ F = CHOOSE h : h = Again(h)
               /\ LastingFrom(start, t) = IF computeInterval(At(F[n]).mEnd, t) > 1 THEN F[n] ELSE looping
  BY DEF LastingFrom
<1>1. n \in Nat /\ n = Cardinality(mTimeRanges)
  BY KeyedFinite
<1> HIDE DEF n
<1>2. ASSUME NEW s \in starts PROVE After(s) \in starts
  <2>1. NextStart(s) \in starts
    <3>1. At(s) \in mTimeRanges /\ At(s).mStart = s
      BY AtIs
    <3>2. QED
      BY <3>1, NextIs
  <2>2. QED
    BY <2>1
<1>3. g \in [starts -> starts] /\ \A s \in starts : g[s] = After(s)
  BY <1>2
<1> HIDE DEF g
<1>4. PICK f \in [0..n -> starts] : f[0] = start /\ \A k \in 1..n : f[k] = g[f[k - 1]]
  <2>1. PICK f \in [0..n -> starts] : IsIteration(f, g, start, n)
    BY <1>1, <1>3, Iterates
  <2>2. QED
    BY <2>1 DEF IsIteration
<1>5. \A k \in 1..n : f[k] = After(f[k - 1])
  <2>1. ASSUME NEW k \in 1..n PROVE f[k - 1] \in starts
    <3>1. k - 1 \in 0..n
      BY <1>1
    <3>2. QED
      BY <1>4, <3>1
  <2>2. QED
    BY <1>3, <1>4, <2>1
<1>6. /\ \A k \in 0..n : k = 0 \/ k \in 1..n
      /\ \A k \in 1..n : k \in 0..n /\ k # 0 /\ k - 1 \in 0..n /\ k - 1 < k
      /\ 0 \in 0..n /\ n \in 0..n /\ \A k \in 0..n : k \in Nat
  BY <1>1
<1>8. F = [k \in 0..n |-> IF k = 0 THEN start ELSE After(F[k - 1])]
  <2>1. f = [k \in 0..n |-> IF k = 0 THEN start ELSE After(f[k - 1])]
    <3>1. ASSUME NEW k \in 0..n PROVE f[k] = IF k = 0 THEN start ELSE After(f[k - 1])
      BY <1>4, <1>5, <1>6
    <3> HIDE DEF After
    <3>2. QED
      BY <3>1
  <2>2. f = Again(f)
    BY <2>1 DEF Lasts
  <2> HIDE DEF Again
  <2>3. F = Again(F)
    BY <1>0, <2>2
  <2> USE DEF Again
  <2>4. QED
    BY <2>3 DEF Lasts
<1> HIDE DEF After
<1>9. F[0] = start /\ \A k \in 1..n : F[k] = After(F[k - 1])
  BY <1>6, <1>8
<1>10. \A k \in 0..n : F[k] = f[k]
  <2> DEFINE Bad == {k \in 0..n : F[k] # f[k]}
  <2>1. SUFFICES ASSUME Bad # {} PROVE FALSE
    OBVIOUS
  <2>2. Bad \subseteq Nat
    BY <1>6
  <2>3. PICK m \in Bad : \A k \in Bad : m <= k
    BY <2>1, <2>2, LeastMember
  <2>4. m \in 1..n
    BY <1>4, <1>6, <1>9
  <2>5. m - 1 \in 0..n /\ ~(m <= m - 1)
    BY <1>1, <2>4
  <2>6. F[m - 1] = f[m - 1]
    BY <2>3, <2>5
  <2>7. F[m] = f[m]
    BY <1>5, <1>9, <2>4, <2>6
  <2>8. QED
    BY <2>7
<1>11. LastingFrom(start, t) = IF Lasts(f[n], t) THEN f[n] ELSE looping
  <2>1. F[n] = f[n]
    BY <1>6, <1>10
  <2>2. QED
    BY <1>0, <2>1 DEF Lasts
<1>12. QED
  BY <1>1, <1>4, <1>5, <1>11 DEF After

(* Once it has found a range it stays there.                               *)
LEMMA SearchStays ==
  ASSUME Keyed(mTimeRanges), NEW n \in Nat, NEW f \in [0..n -> Starts(mTimeRanges)], NEW t,
         \A k \in 1..n : f[k] = IF Lasts(f[k - 1], t) THEN f[k - 1] ELSE NextStart(f[k - 1]),
         NEW i \in 0..n, Lasts(f[i], t)
  PROVE  f[n] = f[i]
<1> DEFINE Bad == {k \in 0..n : i <= k /\ f[k] # f[i]}
<1>1. Bad = {}
  <2>1. SUFFICES ASSUME Bad # {} PROVE FALSE
    OBVIOUS
  <2>2. Bad \subseteq Nat
    OBVIOUS
  <2>3. PICK m \in Bad : \A k \in Bad : m <= k
    BY <2>1, <2>2, LeastMember
  <2>4. m \in 1..n /\ m - 1 \in 0..n /\ i <= m - 1 /\ ~(m <= m - 1)
    <3>1. m # i /\ m \in 0..n /\ i <= m
      OBVIOUS
    <3>2. QED
      BY ONLY <3>1, i \in 0..n, n \in Nat
  <2>5. f[m - 1] = f[i]
    BY <2>3, <2>4
  <2>6. f[m] = f[i]
    BY <2>4, <2>5
  <2>7. QED
    BY <2>6
<1>2. n \in 0..n /\ i <= n
  OBVIOUS
<1>3. QED
  BY <1>1, <1>2

(* The range after the one that starts at s starts where that one ends.    *)
LEMMA EndStarts ==
  ASSUME Ready(mTimeRanges), NEW s \in Starts(mTimeRanges)
  PROVE  /\ At(s) \in mTimeRanges /\ At(s) \in Ranges /\ IsValid(At(s)) /\ At(s).mStart = s
         /\ At(s).mEnd \in Starts(mTimeRanges) /\ At(s).mEnd # s
         /\ NextStart(s) = At(s).mEnd
         /\ s \in Bound /\ s \in Nat /\ s <= Day
         /\ At(s).mEnd \in Bound /\ At(s).mEnd \in Nat /\ At(s).mEnd <= Day
         /\ From(At(At(s).mEnd)) = Until(At(s))
<1> DEFINE R == mTimeRanges
<1>1. Keyed(R) /\ Laid(R) /\ R \subseteq Ranges
      /\ \A r \in R : IsValid(r) /\ r.mStart # r.mEnd
  BY DEF Ready, Spaced, Laid, Keyed
<1>2. PICK r : r = At(s) /\ r \in R /\ r \in Ranges /\ r.mStart = s
  BY <1>1, AtIs
<1>3. PICK n \in R : n.mStart = r.mEnd /\ From(n) = Until(r)
  BY <1>2 DEF Ready, Tiled
<1>4. /\ r.mStart \in Nat /\ r.mEnd \in Nat /\ r.mStart <= Day /\ r.mEnd <= Day
      /\ r.mStart \in Bound /\ r.mEnd \in Bound
      /\ Until(r) \in Nat /\ 2 * r.mEnd <= Until(r)
  BY <1>2, EndsTyped
<1>5. ASSUME NEW p \in R, Until(r) <= From(p) PROVE n.mStart <= p.mStart
  <2>1. p.mStart \in Nat /\ From(p) \in Nat /\ From(p) <= 2 * p.mStart + 1
    BY <1>1, EndsTyped
  <2>2. QED
    BY ONLY <1>3, <1>4, <1>5, <2>1
<1>6. ASSUME IsCrossDay(r) PROVE IsNext(R, r, n)
  <2>1. ASSUME NEW p \in R PROVE p.mStart <= r.mStart /\ n.mStart <= p.mStart
    <3>1. p.mStart \in Nat
      BY <1>1, EndsTyped
    <3>2. ~(r.mStart < p.mStart) /\ Until(r) <= From(p)
      BY <1>1, <1>2, <1>6 DEF Laid
    <3>3. p.mStart <= r.mStart
      BY ONLY <1>4, <3>1, <3>2
    <3>4. QED
      BY <1>5, <3>2, <3>3
  <2>2. QED
    BY <2>1 DEF IsNext, IsWrap
<1>7. ASSUME ~IsCrossDay(r) PROVE IsNext(R, r, n)
  <2>1. ~(r.mEnd < r.mStart) /\ r.mStart # r.mEnd
    BY <1>1, <1>2, <1>7 DEF IsCrossDay
  <2>2. r.mStart < n.mStart
    BY ONLY <1>3, <1>4, <2>1
  <2>3. ASSUME NEW p \in R, r.mStart < p.mStart PROVE n.mStart <= p.mStart
    <3>1. Until(r) <= From(p)
      BY <1>1, <1>2, <2>3 DEF Laid
    <3>2. QED
      BY <1>5, <3>1
  <2>4. QED
    BY <2>2, <2>3 DEF IsNext, IsLater
<1>8. IsNext(R, r, n)
  BY <1>6, <1>7
<1>9. NextStart(s) \in Starts(R) /\ IsNext(R, r, At(NextStart(s)))
  BY <1>1, <1>2, NextIs
<1>10. At(NextStart(s)) = n
  BY <1>1, <1>2, <1>8, <1>9, NextIsOne
<1>11. At(NextStart(s)).mStart = NextStart(s)
  BY <1>1, <1>9, AtIs
<1>12. NextStart(s) = r.mEnd
  BY <1>3, <1>10, <1>11
<1>13. QED
  BY <1>1, <1>2, <1>3, <1>4, <1>9, <1>10, <1>12

(* When a range does not last a moment longer: at its end or just before.  *)
LEMMA NotLasting ==
  ASSUME NEW s, NEW d \in TimeOfDay, At(s).mEnd \in Nat, At(s).mEnd <= Day
  PROVE  /\ ~Lasts(s, d) => \/ At(s).mEnd = d \/ At(s).mEnd = d + 1
                            \/ At(s).mEnd = 0 /\ d = Day - 1
         /\ d = Day - 1 /\ At(s).mEnd \in {0, Day} => ~Lasts(s, d)
<1>1. PICK e, D : e = At(s).mEnd /\ D = Day
  OBVIOUS
<1>2. e \in Nat /\ D \in Nat /\ d \in Nat /\ d < D /\ e <= D
  BY <1>1, DayAssumption DEF TimeOfDay
<1>3. Lasts(s, d) <=> (IF e < d THEN e + D - d ELSE e - d) > 1
  BY <1>1 DEF Lasts, computeInterval
<1>4. (IF e < d THEN e + D - d ELSE e - d) > 1 \/ e = d \/ e = d + 1 \/ (e = 0 /\ d = D - 1)
  BY ONLY <1>2
<1>5. d = D - 1 /\ e \in {0, D} => ~((IF e < d THEN e + D - d ELSE e - d) > 1)
  BY ONLY <1>2
<1>6. QED
  BY <1>1, <1>3, <1>4, <1>5

(* It is just before midnight and every range ends at midnight.            *)
OnlyMidnight(d) == d = Day - 1 /\ \A r \in mTimeRanges : r.mEnd \in {0, Day}

(* What the search of FindNextCheckTime finds from the range that has d.   *)
LEMMA FoundIs ==
  ASSUME Ready(mTimeRanges), NEW c \in Starts(mTimeRanges), NEW d \in TimeOfDay
  PROVE  /\ Lasts(c, d) => LastingFrom(c, d) = c
         /\ ~Lasts(c, d) /\ Lasts(At(c).mEnd, d) => LastingFrom(c, d) = At(c).mEnd
         /\ ~Lasts(c, d) /\ ~Lasts(At(c).mEnd, d) =>
              \/ /\ LastingFrom(c, d) = 0 /\ 0 \in Starts(mTimeRanges)
                 /\ Lasts(0, d) /\ d = Day - 1
              \/ LastingFrom(c, d) = looping /\ OnlyMidnight(d)
<1> DEFINE R == mTimeRanges
           starts == Starts(R)
           e == At(c).mEnd
<1>1. Keyed(R) /\ Laid(R) /\ R \subseteq Ranges
  BY DEF Ready, Spaced, Laid, Keyed
<1>2. PICK n \in Nat, f \in [0..Cardinality(R) -> starts] :
        /\ n = Cardinality(R) /\ f[0] = c
        /\ \A k \in 1..n : f[k] = IF Lasts(f[k - 1], d) THEN f[k - 1] ELSE NextStart(f[k - 1])
        /\ LastingFrom(c, d) = IF Lasts(f[n], d) THEN f[n] ELSE looping
  BY <1>1, SearchIs
<1>3. f \in [0..n -> starts]
  BY <1>2
<1>4. n >= 2
  <2>1. At(c) \in R /\ At(e) \in R /\ At(c) # At(e)
    <3>1. e \in starts /\ e # c /\ At(c).mStart = c
      BY EndStarts
    <3>2. At(e).mStart = e /\ At(e) \in R
      BY <3>1, EndStarts
    <3>3. QED
      BY <3>1, <3>2, EndStarts
  <2>2. IsFiniteSet(R)
    BY <1>1, KeyedFinite
  <2>3. n # 0
    BY <1>2, <2>1, <2>2, FS_EmptySet
  <2>4. n # 1
    <3>1. SUFFICES ASSUME n = 1 PROVE FALSE
      OBVIOUS
    <3>2. \E x : R = {x}
      BY <1>2, <2>2, <3>1, FS_Singleton
    <3>3. QED
      BY <2>1, <3>2
  <2>5. QED
    BY ONLY <1>2, <2>3, <2>4
<1>5. /\ 0 \in 0..n /\ 1 \in 0..n /\ 2 \in 0..n /\ n \in 0..n /\ 1 \in 1..n /\ 2 \in 1..n
      /\ 1 - 1 = 0 /\ 2 - 1 = 1
  BY ONLY <1>2, <1>4
<1>6. ASSUME NEW i \in 0..n, Lasts(f[i], d) PROVE LastingFrom(c, d) = f[i]
  <2>1. f[n] = f[i]
    BY <1>1, <1>2, <1>3, <1>6, SearchStays
  <2>2. QED
    BY <1>2, <1>6, <2>1
<1>7. CASE Lasts(c, d)
  BY <1>2, <1>5, <1>6, <1>7
<1>8. CASE ~Lasts(c, d)
  <2>1. e \in starts /\ e # c /\ NextStart(c) = e /\ e \in Nat /\ e <= Day /\ e \in Bound
    BY EndStarts
  <2>2. f[1] = e
    BY <1>2, <1>5, <1>8, <2>1
  <2>3. CASE Lasts(e, d)
    BY <1>5, <1>6, <1>8, <2>2, <2>3
  <2>4. CASE ~Lasts(e, d)
    <3> DEFINE z == At(e).mEnd
    <3>1. /\ z \in starts /\ z # e /\ NextStart(e) = z /\ z \in Nat /\ z <= Day /\ z \in Bound
      BY <2>1, EndStarts
    <3>2. f[2] = z
      BY <1>2, <1>5, <2>2, <2>4, <3>1
    <3>3. e = d \/ e = d + 1 \/ (e = 0 /\ d = Day - 1)
      BY <1>8, <2>1, NotLasting
    <3>4. z = d \/ z = d + 1 \/ (z = 0 /\ d = Day - 1)
      BY <2>4, <3>1, NotLasting
    <3>5. d = Day - 1 /\ ((e = 0 /\ z = Day) \/ (e = Day /\ z = 0))
      <4> HIDE DEF e, z
      <4>1. /\ e < z => e + 2 <= z
            /\ z < e => z + 2 <= e
            /\ e < Day => e + 2 <= Day
            /\ z < Day => z + 2 <= Day
        BY <2>1, <3>1, Even
      <4>2. d \in Nat /\ d < Day /\ Day \in Nat
        BY DayAssumption DEF TimeOfDay
      <4>3. QED
        BY ONLY <2>1, <3>1, <3>3, <3>4, <4>1, <4>2
    <3>6. 0 \in starts /\ Day \in starts
      BY <2>1, <3>1, <3>5
    <3>7. CASE Lasts(0, d)
      <4>1. e # 0
        BY <2>4, <3>7
      <4>2. z = 0
        BY <3>5, <4>1
      <4>3. LastingFrom(c, d) = 0
        BY <1>5, <1>6, <3>2, <3>7, <4>2
      <4>4. QED
        BY <1>8, <2>4, <3>5, <3>6, <3>7, <4>3
    <3>8. CASE ~Lasts(0, d)
      <4>1. PICK a, b : a = At(0) /\ b = At(Day)
        OBVIOUS
      <4>2. /\ a \in R /\ a \in Ranges /\ a.mStart = 0
            /\ a.mEnd \in Nat /\ a.mEnd <= Day /\ a.mEnd # 0 /\ a.mEnd \in Bound
        BY <3>6, <4>1, EndStarts
      <4>3. /\ b \in R /\ b \in Ranges /\ b.mStart = Day
            /\ b.mEnd \in Nat /\ b.mEnd <= Day /\ b.mEnd # Day
        BY <3>6, <4>1, EndStarts
      <4>4. a.mEnd = Day
        <5>1. a.mEnd = d \/ a.mEnd = d + 1 \/ a.mEnd = 0
          BY <3>8, <4>1, <4>2, NotLasting
        <5>2. a.mEnd < Day => a.mEnd + 2 <= Day
          BY <4>2, Even
        <5>3. Day \in Nat /\ d = Day - 1
          BY <3>5, DayAssumption
        <5>4. QED
          BY ONLY <4>2, <5>1, <5>2, <5>3
      <4>5. /\ From(a) \in Nat /\ From(a) <= 1 /\ Until(a) \in Nat /\ 2 * Day <= Until(a)
            /\ Until(b) \in Nat /\ 2 * b.mEnd <= Until(b)
        <5>1. /\ From(a) \in Nat /\ From(a) <= 2 * a.mStart + 1
              /\ Until(a) \in Nat /\ 2 * a.mEnd <= Until(a)
          BY <4>2, EndsTyped
        <5>2. From(a) <= 1 /\ 2 * Day <= Until(a)
          BY <4>2, <4>4, <5>1
        <5>3. QED
          BY <4>3, <5>1, <5>2, EndsTyped
      <4>6. b.mEnd = 0
        <5>1. IsCrossDay(b)
          <6>1. b.mEnd < Day
            BY ONLY <4>3, DayAssumption
          <6>2. QED
            BY <4>3, <6>1 DEF IsCrossDay
        <5>2. Until(b) <= From(a)
          BY <1>1, <4>2, <4>3, <5>1 DEF Laid
        <5>3. QED
          BY ONLY <4>3, <4>5, <5>2
      <4>7. ASSUME NEW r \in R PROVE r.mEnd \in {0, Day}
        <5>1. r \in Ranges
          BY <1>1
        <5>2. /\ r.mStart \in Nat /\ r.mStart <= Day
              /\ From(r) \in Nat /\ From(r) <= 2 * r.mStart + 1
          BY <5>1, EndsTyped
        <5>3. CASE r.mStart = 0
          BY <1>1, <4>2, <4>4, <5>3 DEF Keyed
        <5>4. CASE r.mStart # 0
          <6>1. a.mStart < r.mStart
            BY <4>2, <5>2, <5>4
          <6>2. Until(a) <= From(r)
            BY <1>1, <4>2, <6>1 DEF Laid
          <6>3. r.mStart = Day
            BY ONLY <4>5, <5>2, <6>2, DayAssumption
          <6>4. QED
            BY <1>1, <4>3, <4>6, <6>3 DEF Keyed
        <5>5. QED
          BY <5>3, <5>4
      <4>8. f[n] \in starts
        BY <1>3, <1>5
      <4>9. ~Lasts(f[n], d)
        <5>1. /\ At(f[n]) \in R /\ At(f[n]).mEnd \in Nat /\ At(f[n]).mEnd <= Day
          BY <4>8, EndStarts
        <5>2. At(f[n]).mEnd \in {0, Day}
          BY <4>7, <5>1
        <5>3. QED
          BY <3>5, <5>1, <5>2, NotLasting
      <4>10. QED
        BY <1>2, <1>8, <2>4, <3>5, <4>7, <4>9 DEF OnlyMidnight
    <3>9. QED
      BY <3>7, <3>8
  <2>5. QED
    BY <2>3, <2>4
<1>9. QED
  BY <1>7, <1>8

(* So the scheduler has a range until it ends, or there is none but those  *)
(* that end at midnight.                                                   *)
LEMMA NextCheck ==
  ASSUME Ready(mTimeRanges), NEW c \in Starts(mTimeRanges), NEW time \in Nat,
         IsInRange(At(c), time % Day), NEW s, s = LastingFrom(c, time % Day)
  PROVE  \/ s = looping /\ OnlyMidnight(time % Day)
         \/ /\ s \in Starts(mTimeRanges)
            /\ EndAfter(s, time) \in Nat /\ EndAfter(s, time) > time
            /\ (EndAfter(s, time) % Day) = IF At(s).mEnd = Day THEN 0 ELSE At(s).mEnd
            /\ \A x \in (time + 1)..(EndAfter(s, time) - 1) :
                 IsInRange(At(s), x % Day) \/ x % Day = s
<1>1. PICK d : d = time % Day
  OBVIOUS
<1>2. d \in TimeOfDay
  BY <1>1, TimeParts
<1>3. CASE s = looping /\ OnlyMidnight(d)
  BY <1>1, <1>3
<1>4. CASE ~(s = looping /\ OnlyMidnight(d))
  <2>1. /\ s \in Starts(mTimeRanges) /\ Lasts(s, d)
        /\ IsInRange(At(s), d) \/ s = d \/ s = d + 1 \/ (s = 0 /\ d = Day - 1)
    <3>1. CASE Lasts(c, d)
      <4>1. s = c
        BY <1>1, <1>2, <3>1, FoundIs
      <4>2. QED
        BY <1>1, <3>1, <4>1
    <3>2. CASE ~Lasts(c, d) /\ Lasts(At(c).mEnd, d)
      <4>1. s = At(c).mEnd /\ s \in Starts(mTimeRanges) /\ At(c).mEnd \in Nat /\ At(c).mEnd <= Day
        BY <1>1, <1>2, <3>2, EndStarts, FoundIs
      <4>2. s = d \/ s = d + 1 \/ (s = 0 /\ d = Day - 1)
        BY <1>2, <3>2, <4>1, NotLasting
      <4>3. QED
        BY <1>1, <3>2, <4>1, <4>2
    <3>3. CASE ~Lasts(c, d) /\ ~Lasts(At(c).mEnd, d)
      BY <1>1, <1>2, <1>4, <3>3, FoundIs
    <3>4. QED
      BY <3>1, <3>2, <3>3
  <2>2. PICK r, e : r = At(s) /\ e = At(s).mEnd
    OBVIOUS
  <2>3. r \in Ranges /\ IsValid(r) /\ r.mStart = s /\ e \in Nat /\ e <= Day /\ r.mEnd = e
    BY <2>1, <2>2, EndStarts
  <2>4. computeInterval(e, d) > 1
    BY <2>1, <2>2 DEF Lasts
  <2>5. /\ EndAfter(s, time) = time + computeInterval(e, d)
        /\ EndAfter(s, time) \in Nat /\ EndAfter(s, time) > time
        /\ (EndAfter(s, time) % Day) = IF e = Day THEN 0 ELSE e
    BY <1>1, <2>2, <2>3, <2>4, EndIs
  <2>6. ASSUME NEW x \in (time + 1)..(EndAfter(s, time) - 1)
        PROVE  IsInRange(r, x % Day) \/ x % Day = s
    <3>1. x \in (time + 1)..(time + computeInterval(r.mEnd, d) - 1)
      <4>1. PICK m, k : m = EndAfter(s, time) /\ k = computeInterval(e, d)
        OBVIOUS
      <4>2. m = time + k
        BY <2>5, <4>1
      <4>3. x \in (time + 1)..(time + k - 1)
        <5>1. x \in (time + 1)..(m - 1)
          BY <4>1
        <5>2. k \in Int
          BY ONLY <1>1, <1>2, <2>3, <4>1, DayAssumption DEF computeInterval, TimeOfDay
        <5>3. time \in Nat
          OBVIOUS
        <5>4. QED
          BY ONLY <4>2, <5>1, <5>2, <5>3
      <4>4. QED
        BY <2>3, <4>1, <4>3
    <3>2. computeInterval(r.mEnd, d) > 1
      BY <2>3, <2>4
    <3>3. \/ IsInRange(r, d) \/ r.mStart = d \/ r.mStart = d + 1
          \/ r.mStart = 0 /\ d = Day - 1
      BY <2>1, <2>2, <2>3
    <3>4. IsInRange(r, x % Day) \/ x % Day = r.mStart
      BY <1>1, <2>3, <3>1, <3>2, <3>3, UntilItEnds
    <3>5. QED
      BY <2>3, <3>4
  <2>7. QED
    BY <2>1, <2>2, <2>5, <2>6
<1>5. QED
  BY <1>3, <1>4

-----------------------------------------------------------------------------
(* The invariant.                                                          *)
PhaseInv ==
  /\ phase \in {"building", "complete", "failed"}
  /\ phase = "complete" => Ready(mTimeRanges) /\ mCurrentIt \in Starts(mTimeRanges)
  /\ phase # "complete" => Added(mTimeRanges) /\ mCurrentRange = never
  /\ phase = "failed" => \E r, q \in mTimeRanges : r # q /\
       \E t \in TimeOfDay : IsInRange(r, t) /\ IsInRange(q, t)

SchedulerInv ==
  /\ now \in Nat
  /\ mCurrentRange \in Starts(mTimeRanges) \cup {never, looping}
  /\ mCurrentRange \in {never, looping} => mNextCheckTime = never
  /\ mCurrentRange \notin {never, looping} =>
       /\ mNextCheckTime \in Nat /\ now < mNextCheckTime
       /\ (mNextCheckTime % Day) =
            IF At(mCurrentRange).mEnd = Day THEN 0 ELSE At(mCurrentRange).mEnd
       /\ \A t \in (now + 1)..(mNextCheckTime - 1) :
            IsInRange(At(mCurrentRange), t % Day) \/ t % Day = mCurrentRange
  /\ mCurrentRange = looping => OnlyMidnight(now % Day)

RangesInv == PhaseInv /\ SchedulerInv

(* Ranges that could be added still can when others are left out.          *)
LEMMA AddedLess ==
  ASSUME NEW R, Added(R), NEW S, S \subseteq R
  PROVE  Added(S)
BY DEF Added, Keyed

(* The ranges with one more that AddRange accepts.                         *)
LEMMA AddedMore ==
  ASSUME NEW R, Added(R), NEW r \in AllRanges, \A q \in R \cup {r} : Separate(r, q)
  PROVE  Added(Inserted(R, {r}))
<1>1. CASE r.mStart \in Starts(R)
  BY <1>1 DEF Inserted
<1>2. CASE r.mStart \notin Starts(R)
  <2>1. Inserted(R, {r}) = R \cup {r}
    BY <1>2 DEF Inserted
  <2>2. \A q \in R : q.mStart # r.mStart
    BY <1>2 DEF Starts
  <2>3. Keyed(R \cup {r})
    BY <2>2, AddedTyped DEF Added, Keyed
  <2>4. \A q \in R : Separate(q, r) /\ Separate(r, q) /\ Separate(r, r)
    BY DEF Added, Separate
  <2>5. \A p, q \in R \cup {r} : Separate(p, q)
    BY <2>4 DEF Added
  <2>6. R \cup {r} \subseteq AllRanges
    BY DEF Added
  <2>7. QED
    BY <2>1, <2>3, <2>5, <2>6 DEF Added
<1>3. QED
  BY <1>1, <1>2

(* The invariant holds at the start,                                       *)
LEMMA RangesStart == RangesInit => RangesInv
<1>1. never # looping
  BY DEF never, looping
<1>2. Added({})
  BY DEF Added, Keyed
<1>3. RangesInit => PhaseInv
  BY <1>2 DEF RangesInit, PhaseInv
<1>4. RangesInit => SchedulerInv
  BY <1>1 DEF RangesInit, SchedulerInv
<1>5. QED
  BY <1>3, <1>4 DEF RangesInv

(* While ranges are added there is no scheduler.                           *)
LEMMA NoSchedulerYet ==
  ASSUME SchedulerInv, mCurrentRange = never, UNCHANGED schedulerVars
  PROVE  SchedulerInv'
<1>1. mCurrentRange' = never /\ mNextCheckTime' = never /\ now' \in Nat
  BY DEF SchedulerInv, schedulerVars
<1>2. never # looping
  BY DEF never, looping
<1>3. QED
  BY <1>1, <1>2 DEF SchedulerInv

(* and is kept by what builds a phase,                                     *)
LEMMA BuildingKeeps ==
  ASSUME RangesInv,
         \/ \E r \in AllRanges : AddRange(r)
         \/ \E start \in Bound : RemoveRange(start)
         \/ Clear
  PROVE  RangesInv'
<1>1. /\ phase' = "building" /\ Added(mTimeRanges') /\ mCurrentRange = never
      /\ UNCHANGED schedulerVars
  <2>1. ASSUME NEW r \in AllRanges, AddRange(r)
        PROVE  /\ phase' = "building" /\ Added(mTimeRanges') /\ mCurrentRange = never
               /\ UNCHANGED schedulerVars
    <3>1. phase = "building" /\ Added(mTimeRanges) /\ mCurrentRange = never
      BY <2>1 DEF AddRange, RangesInv, PhaseInv
    <3>2. Added(Inserted(mTimeRanges, {r}))
      BY <2>1, <3>1, AddedMore DEF AddRange
    <3>3. QED
      BY <2>1, <3>1, <3>2 DEF AddRange
  <2>2. ASSUME NEW s \in Bound, RemoveRange(s)
        PROVE  /\ phase' = "building" /\ Added(mTimeRanges') /\ mCurrentRange = never
               /\ UNCHANGED schedulerVars
    <3>1. phase = "building" /\ Added(mTimeRanges) /\ mCurrentRange = never
      BY <2>2 DEF RemoveRange, RangesInv, PhaseInv
    <3>2. Added(mTimeRanges \ {At(s)})
      BY <3>1, AddedLess
    <3>3. QED
      BY <2>2, <3>1, <3>2 DEF RemoveRange
  <2>3. ASSUME Clear
        PROVE  /\ phase' = "building" /\ Added(mTimeRanges') /\ mCurrentRange = never
               /\ UNCHANGED schedulerVars
    <3>1. Added({})
      BY DEF Added, Keyed
    <3>2. QED
      BY <2>3, <3>1 DEF Clear
  <2>4. QED
    BY <2>1, <2>2, <2>3
<1>2. SchedulerInv'
  BY <1>1, NoSchedulerYet DEF RangesInv
<1>3. mCurrentRange' = never
  BY <1>1 DEF schedulerVars
<1>4. PhaseInv'
  BY <1>1, <1>3 DEF PhaseInv
<1>5. QED
  BY <1>2, <1>4 DEF RangesInv

(* Complete refuses ranges only if they have a time in common.             *)
LEMMA RefusedOverlap ==
  ASSUME Added(mTimeRanges), Cardinality(mTimeRanges) > 1, \E p \in Neighbours : IsConflict(p)
  PROVE  \E r, q \in mTimeRanges : r # q /\
           \E t \in TimeOfDay : IsInRange(r, t) /\ IsInRange(q, t)
<1> DEFINE R == mTimeRanges
           after(r) == At(NextStart(r.mStart))
<1>1. Keyed(R) /\ R \subseteq AllRanges /\ R \subseteq Ranges /\ \A r \in R : r.mStart # r.mEnd
  BY DEF Added, Keyed, Separate
<1>2. PICK r \in R : IsConflict(<<r, after(r)>>)
  BY DEF Neighbours
<1>3. PICK q \in R : q = after(r) /\ IsNext(R, r, q)
  BY <1>1, NextIs DEF IsNext
<1>4. HasIntersection(r, q)
  BY <1>1, <1>2, <1>3 DEF IsConflict, IsValid
<1>5. r # q
  <2>1. SUFFICES ASSUME r = q PROVE FALSE
    OBVIOUS
  <2>2. r.mStart \in Nat
    BY <1>1, EndsTyped
  <2>3. ~(r.mStart < r.mStart)
    BY ONLY <2>2
  <2>4. IsWrap(R, r, r)
    BY <1>3, <2>1, <2>3 DEF IsNext, IsLater
  <2>5. ASSUME NEW p \in R PROVE p = r
    <3>1. p.mStart \in Nat /\ p.mStart <= r.mStart /\ r.mStart <= p.mStart
      BY <1>1, <2>4, EndsTyped DEF IsWrap
    <3>2. p.mStart = r.mStart
      BY ONLY <2>2, <3>1
    <3>3. QED
      BY <1>1, <3>2 DEF Keyed
  <2>6. R = {r}
    BY <2>5
  <2>7. Cardinality(R) = 1
    BY <2>6, FS_Singleton
  <2>8. QED
    BY <2>7
<1>6. r.mStart # q.mStart
  BY <1>1, <1>3, <1>5 DEF Keyed
<1>7. \E t \in TimeOfDay : IsInRange(r, t) /\ IsInRange(q, t)
  BY <1>1, <1>3, <1>4, <1>6, CommonTime
<1>8. QED
  BY <1>3, <1>5, <1>7

(* by Complete,                                                            *)
LEMMA CompleteKeeps == ASSUME RangesInv, Complete PROVE RangesInv'
<1>1. /\ phase = "building" /\ mTimeRanges # {} /\ Added(mTimeRanges) /\ mCurrentRange = never
      /\ UNCHANGED schedulerVars
  BY DEF RangesInv, PhaseInv, Complete
<1>2. SchedulerInv' /\ mCurrentRange' = never
  BY <1>1, NoSchedulerYet DEF RangesInv, schedulerVars
<1>3. CASE Cardinality(mTimeRanges) > 1 /\ \E p \in Neighbours : IsConflict(p)
  <2>1. phase' = "failed" /\ mTimeRanges' = mTimeRanges
    BY <1>3 DEF Complete
  <2>2. \E r, q \in mTimeRanges : r # q /\
           \E t \in TimeOfDay : IsInRange(r, t) /\ IsInRange(q, t)
    BY <1>1, <1>3, RefusedOverlap
  <2>3. PhaseInv'
    BY <1>1, <1>2, <2>1, <2>2 DEF PhaseInv
  <2>4. QED
    BY <1>2, <2>3 DEF RangesInv
<1>4. CASE ~(Cardinality(mTimeRanges) > 1 /\ \E p \in Neighbours : IsConflict(p))
  <2>1. /\ phase' = "complete" /\ mTimeRanges' = Inserted(mTimeRanges, Unknowns)
        /\ mCurrentIt' = Min(Starts(mTimeRanges'))
    BY <1>4 DEF Complete
  <2>2. PICK R : R = mTimeRanges'
    OBVIOUS
  <2>3. Ready(R)
    BY <1>1, <1>4, <2>1, <2>2, CompleteMakesReady
  <2>4. Starts(R) \subseteq Bound /\ Starts(R) # {}
    BY <2>3 DEF Ready, Spaced, Laid, Keyed, Ranges, Starts
  <2>5. Min(Starts(R)) \in Starts(R)
    BY <2>4, Extremes
  <2>6. PhaseInv'
    BY <1>2, <2>1, <2>2, <2>3, <2>5 DEF PhaseInv
  <2>7. QED
    BY <1>2, <2>6 DEF RangesInv
<1>5. QED
  BY <1>3, <1>4

(* Ranges do not change while the map does not.                            *)
LEMMA AtSame ==
  ASSUME mTimeRanges' = mTimeRanges, NEW s
  PROVE  (At(s)') = At(s)
BY DEF At

(* What a check finds.                                                     *)
LEMMA FindKeeps ==
  ASSUME Ready(mTimeRanges), mCurrentIt \in Starts(mTimeRanges), NEW time \in Nat,
         phase = "complete", UNCHANGED <<phase, mTimeRanges>>,
         now' = time, FindNextCheckTime(time)
  PROVE  RangesInv'
<1>1. PICK c, s : /\ c = Current(time % Day) /\ s = LastingFrom(c, time % Day)
                  /\ c \in Starts(mTimeRanges) /\ IsInRange(At(c), time % Day)
  BY TimeParts, CurrentIs
<1>2. mCurrentIt' = c /\ mTimeRanges' = mTimeRanges /\ phase' = "complete"
  BY <1>1 DEF FindNextCheckTime
<1>3. mCurrentRange' = s
  <2>1. mCurrentRange' = LastingFrom(mCurrentIt', time % Day)
    BY DEF FindNextCheckTime
  <2>2. QED
    BY <1>1, <1>2, <2>1
<1>4. mNextCheckTime' = IF s = looping THEN never ELSE EndAfter(s, time)
  <2>1. mNextCheckTime' = IF mCurrentRange' = looping THEN never ELSE EndAfter(mCurrentRange', time)
    BY DEF FindNextCheckTime
  <2>2. QED
    BY <1>3, <2>1
<1>5. \/ s = looping /\ OnlyMidnight(time % Day)
      \/ /\ s \in Starts(mTimeRanges)
         /\ EndAfter(s, time) \in Nat /\ EndAfter(s, time) > time
         /\ (EndAfter(s, time) % Day) = IF At(s).mEnd = Day THEN 0 ELSE At(s).mEnd
         /\ \A x \in (time + 1)..(EndAfter(s, time) - 1) :
              IsInRange(At(s), x % Day) \/ x % Day = s
  BY <1>1, NextCheck
<1>6. PhaseInv'
  BY <1>1, <1>2 DEF PhaseInv
<1>7. PICK m : m = EndAfter(s, time)
  OBVIOUS
<1>8. PICK a : a = At(s)
  OBVIOUS
<1>9. (At(s)') = a
  BY <1>2, <1>8, AtSame
<1>10. CASE s = looping /\ OnlyMidnight(time % Day)
  <2>1. never # looping
    BY DEF never, looping
  <2>2. mCurrentRange' = looping /\ mNextCheckTime' = never /\ now' \in Nat
    BY <1>3, <1>4, <1>10
  <2>3. OnlyMidnight(now % Day)'
    BY <1>2, <1>10 DEF OnlyMidnight
  <2>4. SchedulerInv'
    BY <2>1, <2>2, <2>3 DEF SchedulerInv
  <2>5. QED
    BY <1>6, <2>4 DEF RangesInv
<1>11. CASE ~(s = looping /\ OnlyMidnight(time % Day))
  <2>1. /\ s \in Starts(mTimeRanges) /\ m \in Nat /\ m > time
        /\ (m % Day) = IF a.mEnd = Day THEN 0 ELSE a.mEnd
        /\ \A x \in (time + 1)..(m - 1) : IsInRange(a, x % Day) \/ x % Day = s
    BY <1>5, <1>7, <1>8, <1>11
  <2>2. s \in Nat /\ s \notin {never, looping}
    <3>1. s \in Nat
      BY <2>1, EndStarts
    <3>2. QED
      BY <3>1 DEF never, looping
  <2>3. mNextCheckTime' = m /\ now' = time /\ mCurrentRange' = s
    BY <1>3, <1>4, <1>7, <2>2
  <2>4. (At(mCurrentRange)') = a
    BY <1>2, <1>8, <2>3 DEF At
  <2>5. mCurrentRange' \in Starts(mTimeRanges)' /\ time < m
    BY <1>2, <2>1, <2>3
  <2>6. SchedulerInv'
    BY <2>1, <2>2, <2>3, <2>4, <2>5 DEF SchedulerInv
  <2>7. QED
    BY <1>6, <2>6 DEF RangesInv
<1>12. QED
  BY <1>10, <1>11

(* The invariant is kept by GetCurrent,                                    *)
LEMMA GetCurrentKeeps ==
  ASSUME RangesInv, NEW t \in TimeOfDay, GetCurrent(t)
  PROVE  RangesInv'
<1>1. /\ phase = "complete" /\ phase' = phase /\ mTimeRanges' = mTimeRanges
      /\ UNCHANGED schedulerVars /\ mCurrentIt' = Current(t)
      /\ Ready(mTimeRanges) /\ mCurrentIt \in Starts(mTimeRanges)
  BY DEF GetCurrent, RangesInv, PhaseInv
<1>2. Current(t) \in Starts(mTimeRanges)
  BY <1>1, CurrentIs
<1>3. PhaseInv'
  BY <1>1, <1>2 DEF PhaseInv
<1>4. SchedulerInv'
  BY <1>1 DEF RangesInv, SchedulerInv, schedulerVars, At, OnlyMidnight
<1>5. QED
  BY <1>3, <1>4 DEF RangesInv

(* by the scheduler,                                                       *)
LEMMA CheckKeeps ==
  ASSUME RangesInv, NEW time \in Nat, Construct(time) \/ Check(time)
  PROVE  RangesInv'
<1>1. CASE Construct(time)
  <2>1. phase = "complete" /\ Ready(mTimeRanges) /\ mCurrentIt \in Starts(mTimeRanges)
    BY <1>1 DEF Construct, RangesInv, PhaseInv
  <2>2. UNCHANGED <<phase, mTimeRanges>> /\ now' = time /\ FindNextCheckTime(time)
    BY <1>1 DEF Construct
  <2>3. QED
    BY <2>1, <2>2, FindKeeps
<1>2. CASE Check(time)
  <2>1. /\ mNextCheckTime # never /\ time > now
        /\ now' = time /\ UNCHANGED <<phase, mTimeRanges>>
    BY <1>2 DEF Check
  <2>2. mCurrentRange \notin {never, looping}
    BY <2>1 DEF RangesInv, SchedulerInv
  <2>3. phase = "complete" /\ Ready(mTimeRanges) /\ mCurrentIt \in Starts(mTimeRanges)
    BY <2>2 DEF RangesInv, PhaseInv
  <2>4. CASE time >= mNextCheckTime
    <3>1. FindNextCheckTime(time)
      BY <1>2, <2>4 DEF Check
    <3>2. QED
      BY <2>1, <2>3, <3>1, FindKeeps
  <2>5. CASE ~(time >= mNextCheckTime)
    <3>1. UNCHANGED <<mCurrentIt, mNextCheckTime, mCurrentRange>>
      BY <1>2, <2>5 DEF Check
    <3>2. PhaseInv'
      BY <2>1, <2>3, <3>1 DEF PhaseInv
    <3>3. PICK m, s, a : m = mNextCheckTime /\ s = mCurrentRange /\ a = At(mCurrentRange)
      OBVIOUS
    <3>4. /\ m \in Nat /\ now \in Nat
          /\ (m % Day) = IF a.mEnd = Day THEN 0 ELSE a.mEnd
          /\ \A x \in (now + 1)..(m - 1) : IsInRange(a, x % Day) \/ x % Day = s
          /\ s \in Starts(mTimeRanges)
      BY <2>2, <3>3 DEF RangesInv, SchedulerInv
    <3>5. time < m
      BY <2>5, <3>3, <3>4
    <3>6. ASSUME NEW x \in (time + 1)..(m - 1) PROVE x \in (now + 1)..(m - 1)
      BY <2>1, <3>4
    <3>7. \A x \in (time + 1)..(m - 1) : IsInRange(a, x % Day) \/ x % Day = s
      BY <3>4, <3>6
    <3>8. mCurrentRange' = s /\ mNextCheckTime' = m /\ now' = time
      BY <2>1, <3>1, <3>3
    <3>9. (At(mCurrentRange)') = a
      BY <2>1, <3>3, <3>8 DEF At
    <3>10. s \notin {never, looping} /\ mCurrentRange' \in Starts(mTimeRanges)'
      BY <2>1, <2>2, <3>3, <3>4, <3>8
    <3>11. SchedulerInv'
      BY <3>4, <3>5, <3>7, <3>8, <3>9, <3>10 DEF SchedulerInv
    <3>12. QED
      BY <3>2, <3>11 DEF RangesInv
  <2>6. QED
    BY <2>4, <2>5
<1>3. QED
  BY <1>1, <1>2

(* and so by every step.                                                   *)
LEMMA RangesStep == RangesInv /\ [RangesNext]_rangeVars => RangesInv'
<1> SUFFICES ASSUME RangesInv, [RangesNext]_rangeVars PROVE RangesInv'
  OBVIOUS
<1>1. CASE \/ \E r \in AllRanges : AddRange(r)
           \/ \E start \in Bound : RemoveRange(start)
           \/ Clear
  BY <1>1, BuildingKeeps
<1>2. CASE Complete
  BY <1>2, CompleteKeeps
<1>3. ASSUME NEW t \in TimeOfDay, GetCurrent(t) PROVE RangesInv'
  BY <1>3, GetCurrentKeeps
<1>4. ASSUME NEW time \in 0..MaxTime, Construct(time) \/ Check(time) PROVE RangesInv'
  <2>1. time \in Nat
    BY MaxTimeAssumption
  <2>2. QED
    BY <1>4, <2>1, CheckKeeps
<1>5. CASE UNCHANGED rangeVars
  <2>1. /\ phase' = phase /\ mTimeRanges' = mTimeRanges /\ mCurrentIt' = mCurrentIt
        /\ UNCHANGED schedulerVars
    BY <1>5 DEF rangeVars
  <2>2. PhaseInv'
    BY <2>1 DEF RangesInv, PhaseInv, schedulerVars
  <2>3. SchedulerInv'
    BY <2>1 DEF RangesInv, SchedulerInv, schedulerVars, At, OnlyMidnight
  <2>4. QED
    BY <2>2, <2>3 DEF RangesInv
<1>6. QED
  BY <1>1, <1>2, <1>3, <1>4, <1>5 DEF RangesNext

(* The phase and its scheduler always satisfy the invariant.               *)
THEOREM RangesInvariant == RangesSpec => []RangesInv
BY RangesStart, RangesStep, PTL DEF RangesSpec

(* In a ready phase one range has each time of the day.                    *)
LEMMA ReadyPartitions ==
  ASSUME Ready(mTimeRanges), NEW t \in TimeOfDay
  PROVE  Cardinality({r \in mTimeRanges : IsInRange(r, t)}) = 1
<1>1. PICK c \in mTimeRanges : IsInRange(c, t)
  BY DEF Ready, Covers
<1>2. t \in Nat
  BY DayAssumption DEF TimeOfDay
<1>3. \A r \in mTimeRanges : IsInRange(r, t) => r = c
  BY <1>1, <1>2, LaidApart DEF Ready, Spaced
<1>4. {r \in mTimeRanges : IsInRange(r, t)} = {c}
  BY <1>1, <1>3
<1>5. QED
  BY <1>4, FS_Singleton

(* The invariant says so after Complete,                                   *)
LEMMA InvPartitions == RangesInv => CompletePartitions
<1> SUFFICES ASSUME RangesInv PROVE CompletePartitions
  OBVIOUS
<1> DEFINE at(t) == {r \in mTimeRanges : IsInRange(r, t)}
<1>1. ASSUME phase = "complete" PROVE \A t \in TimeOfDay : Cardinality(at(t)) = 1
  BY <1>1, ReadyPartitions DEF RangesInv, PhaseInv
<1>2. ASSUME phase = "failed" PROVE \E t \in TimeOfDay : Cardinality(at(t)) > 1
  <2>1. PICK r \in mTimeRanges, q \in mTimeRanges, t \in TimeOfDay :
          r # q /\ IsInRange(r, t) /\ IsInRange(q, t)
    BY <1>2 DEF RangesInv, PhaseInv
  <2>2. Keyed(mTimeRanges)
    BY <1>2 DEF RangesInv, PhaseInv, Added
  <2>3. PICK A : A = at(t)
    OBVIOUS
  <2>4. IsFiniteSet(mTimeRanges) /\ A \in SUBSET mTimeRanges /\ r \in A /\ q \in A
    BY <2>1, <2>2, <2>3, KeyedFinite
  <2>5. IsFiniteSet(A) /\ Cardinality(A) \in Nat
    BY <2>4, FS_Subset, FS_CardinalityType
  <2>6. Cardinality(A) # 0
    BY <2>4, <2>5, FS_EmptySet
  <2>7. Cardinality(A) # 1
    <3>1. SUFFICES ASSUME Cardinality(A) = 1 PROVE FALSE
      OBVIOUS
    <3>2. \E x : A = {x}
      BY <2>5, <3>1, FS_Singleton
    <3>3. QED
      BY <2>1, <2>4, <3>2
  <2>8. Cardinality(A) > 1
    BY ONLY <2>5, <2>6, <2>7
  <2>9. QED
    BY <2>3, <2>8
<1>3. QED
  BY <1>1, <1>2 DEF CompletePartitions

(* Complete refuses the ranges only if two have a time in common, and      *)
(* otherwise every time of the day is in exactly one.                      *)
THEOREM CompleteMakesPartition == RangesSpec => []CompletePartitions
BY RangesInvariant, InvPartitions, PTL

(* says that GetCurrent finds that range,                                  *)
LEMMA InvFinds == RangesInv => FindsCurrent
BY CurrentIs DEF RangesInv, PhaseInv, FindsCurrent

(* Whichever range was found last, GetCurrent finds the one that has t.    *)
THEOREM GetCurrentFinds == RangesSpec => []FindsCurrent
BY RangesInvariant, InvFinds, PTL

(* and says when the scheduler checks next.                                *)
LEMMA InvChecks == RangesInv => ChecksAtEnd
<1> SUFFICES ASSUME RangesInv PROVE ChecksAtEnd
  OBVIOUS
<1>1. mCurrentRange = looping => OnlyMidnight(now % Day)
  BY DEF RangesInv, SchedulerInv
<1>2. mCurrentRange \notin {never, looping} =>
       now < mNextCheckTime /\ \A t \in (now + 1)..(mNextCheckTime - 1) :
         IsInRange(At(mCurrentRange), t % Day) \/ t % Day = mCurrentRange
  BY DEF RangesInv, SchedulerInv
<1>3. QED
  BY <1>1, <1>2 DEF ChecksAtEnd, OnlyMidnight

(* After a check, however late, the scheduler has the range the time is in *)
(* until it checks again.                                                  *)
THEOREM SchedulerChecksAtEnd == RangesSpec => []ChecksAtEnd
BY RangesInvariant, InvChecks, PTL

(* A check in time reports the next range.                                 *)
LEMMA ReportIs ==
  ASSUME RangesInv, RangesNext, mNextCheckTime # never, now' = mNextCheckTime, now # now',
         Day \notin Starts(mTimeRanges)
  PROVE  mCurrentRange' = NextStart(mCurrentRange)
<1>1. mCurrentRange \notin {never, looping}
  BY DEF RangesInv, SchedulerInv
<1>2. phase = "complete" /\ Ready(mTimeRanges) /\ mCurrentIt \in Starts(mTimeRanges)
  BY <1>1 DEF RangesInv, PhaseInv
<1>3. PICK time \in Nat : Check(time)
  <2>1. ~UNCHANGED schedulerVars
    BY DEF schedulerVars
  <2>2. \A r \in AllRanges : ~AddRange(r)
    BY <2>1 DEF AddRange
  <2>3. \A s \in Bound : ~RemoveRange(s)
    BY <2>1 DEF RemoveRange
  <2>4. ~Complete /\ ~Clear
    BY <2>1 DEF Complete, Clear
  <2>5. \A t \in TimeOfDay : ~GetCurrent(t)
    BY <2>1 DEF GetCurrent
  <2>6. \A t \in 0..MaxTime : ~Construct(t)
    BY <1>1 DEF Construct
  <2>7. PICK t \in 0..MaxTime : Check(t)
    BY <2>2, <2>3, <2>4, <2>5, <2>6 DEF RangesNext
  <2>8. t \in Nat
    BY MaxTimeAssumption
  <2>9. QED
    BY <2>7, <2>8
<1>4. PICK s, r, n, e : /\ s = mCurrentRange /\ r = At(s) /\ e = At(s).mEnd /\ n = At(e)
  OBVIOUS
<1>5. /\ time = mNextCheckTime /\ FindNextCheckTime(time)
  <2>1. now' = time
    BY <1>3 DEF Check
  <2>2. time = mNextCheckTime /\ time >= mNextCheckTime
    BY <2>1
  <2>3. QED
    BY <1>3, <2>2 DEF Check
<1>6. s \in Starts(mTimeRanges) /\ (time % Day) = IF e = Day THEN 0 ELSE e
  BY <1>1, <1>4, <1>5 DEF RangesInv, SchedulerInv
<1>7. /\ r \in mTimeRanges /\ r \in Ranges /\ IsValid(r) /\ r.mStart = s /\ r.mEnd = e
      /\ e \in Starts(mTimeRanges) /\ e # s /\ NextStart(s) = e
      /\ s \in Nat /\ e \in Nat /\ e <= Day /\ e \in Bound
      /\ From(n) = Until(r)
  BY <1>2, <1>4, <1>6, EndStarts
<1>8. /\ n \in mTimeRanges /\ n \in Ranges /\ IsValid(n) /\ n.mStart = e /\ n.mEnd # e
      /\ n.mEnd \in Starts(mTimeRanges) /\ n.mEnd \in Nat /\ n.mEnd \in Bound /\ n.mEnd <= Day
  BY <1>2, <1>4, <1>7, EndStarts
<1>9. e # Day /\ time % Day = e /\ e \in TimeOfDay
  BY <1>5, <1>6, <1>7, TimeParts
(* The next range lasts.                                                   *)
<1>10. Lasts(e, e)
  <2>1. PICK z, D : z = n.mEnd /\ D = Day
    OBVIOUS
  <2>2. /\ z < e => z + 2 <= e
        /\ e < z => e + 2 <= z
        /\ e < D => e + 2 <= D
    BY <1>7, <1>8, <2>1, Even
  <2>3. z \in Nat /\ e \in Nat /\ D \in Nat /\ z # e /\ e < D
    <3>1. D \in Nat
      BY <2>1, DayAssumption
    <3>2. e < D
      BY ONLY <1>7, <1>9, <2>1, <3>1
    <3>3. QED
      BY <1>7, <1>8, <2>1, <3>1, <3>2
  <2>4. (IF z < e THEN z + D - e ELSE z - e) > 1
    BY ONLY <2>2, <2>3
  <2>5. QED
    BY <1>4, <2>1, <2>4 DEF Lasts, computeInterval
<1>11. ~Lasts(s, e)
  <2>1. computeInterval(e, e) = 0
    BY <1>7 DEF computeInterval
  <2>2. QED
    BY <1>4, <2>1 DEF Lasts
(* The time it ends is in it or in the next.                               *)
<1>12. PICK c : /\ c = Current(e) /\ c \in Starts(mTimeRanges) /\ IsInRange(At(c), e)
  BY <1>2, <1>9, CurrentIs
<1>13. c = s \/ c = e
  <2>1. Laid(mTimeRanges)
    BY <1>2 DEF Ready, Spaced
  <2>2. IsInRange(r, e) \/ IsInRange(n, e)
    <3>1. /\ From(r) \in Nat /\ From(r) <= 2 * s + 1 /\ Until(r) \in Nat
      BY <1>7, EndsTyped
    <3>2. Until(n) \in Nat /\ 2 * n.mEnd <= Until(n)
      BY <1>8, EndsTyped
    <3>3. (IsCrossDay(r) <=> e < s) /\ (IsCrossDay(n) <=> n.mEnd < e)
      BY <1>7, <1>8 DEF IsCrossDay
    <3>4. CASE 2 * e < Until(r)
      <4>1. e < s \/ From(r) <= 2 * e
        BY ONLY <1>7, <3>1
      <4>2. QED
        BY <1>7, <3>3, <3>4, <4>1, InRange
    <3>5. CASE ~(2 * e < Until(r))
      <4>1. From(n) <= 2 * e
        BY <1>7, <3>1, <3>5
      <4>2. n.mEnd < e \/ 2 * e < Until(n)
        BY ONLY <1>7, <1>8, <3>2
      <4>3. QED
        BY <1>7, <1>8, <3>3, <4>1, <4>2, InRange
    <3>6. QED
      BY <3>4, <3>5
  <2>3. At(c) \in mTimeRanges /\ At(c).mStart = c
    BY <1>2, <1>12, EndStarts
  <2>4. At(c) = r \/ At(c) = n
    BY <1>7, <1>8, <1>12, <2>1, <2>2, <2>3, LaidApart
  <2>5. QED
    BY <1>7, <1>8, <2>3, <2>4
<1>14. LastingFrom(c, e) = e
  <2>1. CASE c = e
    BY <1>2, <1>9, <1>10, <1>12, <2>1, FoundIs
  <2>2. CASE c = s
    BY <1>2, <1>4, <1>9, <1>10, <1>11, <1>12, <2>2, FoundIs
  <2>3. QED
    BY <1>13, <2>1, <2>2
<1>15. mCurrentRange' = LastingFrom(c, e)
  BY <1>5, <1>9, <1>12 DEF FindNextCheckTime
<1>16. QED
  BY <1>4, <1>7, <1>14, <1>15

(* A check that comes at the time the last one set reports the range after *)
(* the one that was reported (TimeRangeScheduler.cpp), unless a phase has  *)
(* a range that starts at 24:00.                                           *)
THEOREM SchedulerReports == RangesSpec => ReportsChange
<1> DEFINE Report == mNextCheckTime # never /\ now' = mNextCheckTime /\ now # now'
                     /\ Day \notin Starts(mTimeRanges)
                     => mCurrentRange' = NextStart(mCurrentRange)
<1>1. RangesInv /\ [RangesNext]_rangeVars => [Report]_rangeVars
  <2>1. SUFFICES ASSUME RangesInv, RangesNext,
                        mNextCheckTime # never, now' = mNextCheckTime, now # now',
                        Day \notin Starts(mTimeRanges)
                 PROVE  mCurrentRange' = NextStart(mCurrentRange)
    OBVIOUS
  <2>2. QED
    BY <2>1, ReportIs
<1>2. RangesSpec => []RangesInv
  BY RangesInvariant
<1>3. QED
  BY <1>1, <1>2, PTL DEF RangesSpec, ReportsChange

-----------------------------------------------------------------------------
(***************************************************************************)
(* The rings of the timer engine.                                          *)
(***************************************************************************)

(* Multiples and remainders.                                               *)

(* Nothing lies strictly between two neighbouring multiples.               *)
LEMMA MultiplesApart ==
  ASSUME NEW D \in Nat, D > 0, NEW a \in Int, NEW b \in Int, a < b
  PROVE  D * a + D <= D * b
<1>1. PICK c : c = b - a - 1 /\ c \in Nat
  <2>1. b - a - 1 \in Nat
    BY ONLY a \in Int, b \in Int, a < b
  <2>2. QED
    BY ONLY <2>1
<1>2. D * c >= 0
  BY ONLY D \in Nat, <1>1, SMT
<1>3. D * b = D * a + D + D * c
  <2>1. b = a + 1 + c
    BY ONLY a \in Int, b \in Int, <1>1
  <2>2. D * (a + 1 + c) = D * a + D + D * c
    BY ONLY D \in Nat, a \in Int, <1>1, SMT
  <2>3. QED
    BY ONLY <2>1, <2>2
<1>4. D * a \in Int /\ D * b \in Int /\ D * c \in Int
  BY ONLY D \in Nat, a \in Int, b \in Int, <1>1, SMT
<1>5. QED
  BY ONLY D \in Nat, <1>2, <1>3, <1>4

(* Two multiples that begin a stretch with the same number are the same.   *)
LEMMA SameMultiple ==
  ASSUME NEW D \in Nat, D > 0, NEW a \in Int, NEW b \in Int, NEW x \in Int,
         D * a <= x, x < D * a + D, D * b <= x, x < D * b + D
  PROVE  a = b
<1>1. D * a \in Int /\ D * b \in Int
  BY SMT
<1>2. ~(a < b)
  BY ONLY D \in Nat, D > 0, a \in Int, b \in Int, x \in Int, x < D * a + D, D * b <= x,
          <1>1, MultiplesApart
<1>3. ~(b < a)
  BY ONLY D \in Nat, D > 0, a \in Int, b \in Int, x \in Int, x < D * b + D, D * a <= x,
          <1>1, MultiplesApart
<1>4. QED
  BY ONLY a \in Int, b \in Int, <1>2, <1>3

(* Quotient and remainder.                                                 *)
LEMMA Division ==
  ASSUME NEW x \in Nat, NEW D \in Nat, D > 0
  PROVE  /\ x \div D \in Nat /\ x % D \in Nat /\ x % D < D
         /\ x = D * (x \div D) + (x % D)
         /\ D * (x \div D) <= x /\ x < D * (x \div D) + D
         /\ D * (x \div D) \in Nat
<1>1. /\ x % D \in 0..(D - 1)
      /\ x = D * (x \div D) + (x % D) /\ x \div D \in Nat
  BY ONLY x \in Nat, D \in Nat, D > 0, SMT
<1>2. PICK q, y, m : q = x \div D /\ y = x % D /\ m = D * q
  OBVIOUS
<1>3. m \in Nat
  BY ONLY D \in Nat, <1>1, <1>2, SMT
<1>4. x = m + y /\ y \in 0..(D - 1)
  BY ONLY <1>1, <1>2
<1>5. m <= x /\ x < m + D /\ y \in Nat /\ y < D
  BY ONLY x \in Nat, D \in Nat, <1>3, <1>4
<1>6. QED
  BY ONLY <1>1, <1>2, <1>3, <1>4, <1>5

(* And what they are of a number that is known to lie after a multiple.    *)
LEMMA DivisionIs ==
  ASSUME NEW x \in Nat, NEW D \in Nat, D > 0, NEW q \in Int, D * q <= x, x < D * q + D
  PROVE  x \div D = q /\ x % D = x - D * q
<1>1. PICK p, y : p = x \div D /\ y = x % D
  OBVIOUS
<1>2. /\ p \in Nat /\ y \in Nat /\ x = D * p + y /\ D * p <= x /\ x < D * p + D
      /\ D * p \in Nat
  BY ONLY x \in Nat, D \in Nat, D > 0, <1>1, Division
<1>3. p = q
  BY ONLY x \in Nat, D \in Nat, D > 0, q \in Int, D * q <= x, x < D * q + D, <1>2, SameMultiple
<1>4. y = x - D * p
  BY ONLY x \in Nat, <1>2
<1>5. QED
  BY ONLY <1>1, <1>3, <1>4

(* A multiple is divided by either factor.                                 *)
LEMMA FactorIs ==
  ASSUME NEW a \in Nat, NEW D \in Nat, D > 0
  PROVE  (D * a) \div D = a
<1>1. D * a \in Nat /\ D * a <= D * a /\ D * a < D * a + D
  <2>1. D * a \in Nat
    BY SMT
  <2>2. QED
    BY ONLY D \in Nat, D > 0, <2>1
<1>2. QED
  BY <1>1, DivisionIs

-----------------------------------------------------------------------------
(* The rings.  Ring 0 stands for the ticks: its turn is the current tick.  *)
Turn(r) == IF r = 0 THEN TickLength ELSE mTimeDuration[r]
Begin(r) == IF r = 0 THEN GetCurrentTime ELSE mStartTime[r]
End(r) == Begin(r) + Turn(r)

(* A slot of a ring takes as long as a turn of the ring before.            *)
LEMMA Turns ==
  /\ \A r \in 0..RingCount : Turn(r) \in Nat /\ Turn(r) > 0
  /\ \A r \in Ring : /\ mCapterCount[r] \in Nat /\ mCapterCount[r] > 0
                     /\ r - 1 \in 0..RingCount /\ r \in 0..RingCount
                     /\ Turn(r) = mTimeDuration[r]
                     /\ Turn(r) = mCapterCount[r] * Turn(r - 1)
                     /\ Turn(r) = Turn(r - 1) * mCapterCount[r]
                     /\ unitDuration(r) = Turn(r - 1)
<1>1. RingCount \in Nat /\ RingCount > 0 /\ 1 \in Ring
  BY RingsAssumption DEF Ring
<1>2. ASSUME NEW r \in Ring
      PROVE  /\ mCapterCount[r] \in Nat /\ mCapterCount[r] > 0
             /\ r - 1 \in 0..RingCount /\ r \in 0..RingCount /\ r # 0
             /\ Turn(r) = mTimeDuration[r] /\ Turn(r) \in Nat
             /\ Turn(r) = mCapterCount[r] * Turn(r - 1)
  <2>1. r \in 1..RingCount
    BY DEF Ring
  <2>2. r - 1 \in 0..RingCount /\ r \in 0..RingCount /\ r # 0 /\ (r - 1 = 0 <=> r = 1)
    BY <1>1, <2>1
  <2>3. mCapterCount[r] \in Nat \ {0} /\ mTimeDuration[r] \in Nat
    BY <2>1, RingsAssumption
  <2>4. mCapterCount[r] > 0
    BY ONLY <2>3
  <2>5. Turn(r) = mTimeDuration[r]
    BY <2>2 DEF Turn
  <2>6. Turn(r - 1) = IF r = 1 THEN TickLength ELSE mTimeDuration[r - 1]
    BY <2>2 DEF Turn
  <2>7. mTimeDuration[r] = mCapterCount[r] * (IF r = 1 THEN TickLength ELSE mTimeDuration[r - 1])
    BY <2>1, RingsAssumption
  <2>8. QED
    BY <2>2, <2>3, <2>4, <2>5, <2>6, <2>7
<1>3. Turn(0) \in Nat /\ Turn(0) > 0
  BY RingsAssumption DEF Turn
<1>4. \A r \in 0..RingCount : Turn(r) \in Nat /\ Turn(r) > 0
  <2> DEFINE Bad == {r \in 0..RingCount : ~(Turn(r) \in Nat /\ Turn(r) > 0)}
  <2>1. SUFFICES ASSUME Bad # {} PROVE FALSE
    OBVIOUS
  <2>2. Bad \subseteq Nat
    BY <1>1
  <2>3. PICK m \in Bad : \A k \in Bad : m <= k
    BY <2>1, <2>2, LeastMember
  <2>4. m \in 0..RingCount /\ m # 0 /\ ~(Turn(m) \in Nat /\ Turn(m) > 0)
    BY <1>3
  <2>5. m \in Ring /\ m - 1 \in 0..RingCount /\ ~(m <= m - 1)
    BY <1>1, <2>4 DEF Ring
  <2>6. Turn(m - 1) \in Nat /\ Turn(m - 1) > 0
    BY <2>3, <2>5
  <2>7. PICK c, d : c = mCapterCount[m] /\ d = Turn(m - 1)
    OBVIOUS
  <2>8. c \in Nat /\ c > 0 /\ d \in Nat /\ d > 0 /\ Turn(m) = c * d
    BY <1>2, <2>5, <2>6, <2>7
  <2>9. c * d \in Nat /\ c * d > 0
    BY ONLY <2>8, SMT
  <2>10. QED
    BY <2>4, <2>8, <2>9
<1>5. ASSUME NEW r \in Ring
      PROVE  Turn(r) = Turn(r - 1) * mCapterCount[r] /\ unitDuration(r) = Turn(r - 1)
  <2>1. PICK c, d : c = mCapterCount[r] /\ d = Turn(r - 1)
    OBVIOUS
  <2>2. c \in Nat /\ c > 0 /\ d \in Nat /\ Turn(r) = c * d /\ mTimeDuration[r] = c * d
    BY <1>2, <1>4, <2>1
  <2>3. c * d = d * c
    BY ONLY <2>2, SMT
  <2>4. (c * d) \div c = d
    BY ONLY <2>2, FactorIs
  <2>5. QED
    BY <2>1, <2>2, <2>3, <2>4 DEF unitDuration
<1>6. QED
  BY <1>2, <1>4, <1>5

(* Slots are numbered by the turns of the ring before since the turn began.*)
LEMMA SlotIs ==
  ASSUME NEW r \in Ring, NEW time \in Nat
  PROVE  /\ slotIndex(r, time) \in Chapter(r) /\ slotIndex(r, time) \in Nat
         /\ slotIndex(r, time) < mCapterCount[r]
         /\ \A m \in Int : Turn(r) * m <= time /\ time < Turn(r) * m + Turn(r) =>
              LET slot == Turn(r) * m + Turn(r - 1) * slotIndex(r, time)
              IN  slot <= time /\ time < slot + Turn(r - 1)
<1>1. PICK D, u, c, s, x : /\ D = Turn(r) /\ u = Turn(r - 1) /\ c = mCapterCount[r]
                           /\ x = time % D /\ s = x \div u
  OBVIOUS
<1>2. /\ D \in Nat /\ D > 0 /\ u \in Nat /\ u > 0 /\ c \in Nat /\ c > 0 /\ D = u * c
      /\ slotIndex(r, time) = s
  BY <1>1, Turns DEF slotIndex
<1>3. x \in Nat /\ x < D
  BY ONLY time \in Nat, <1>1, <1>2, Division
<1>4. s \in Nat /\ u * s \in Nat /\ u * s <= x /\ x < u * s + u
  <2>1. /\ x \div u \in Nat /\ u * (x \div u) \in Nat
        /\ u * (x \div u) <= x /\ x < u * (x \div u) + u
    BY ONLY <1>2, <1>3, Division
  <2>2. QED
    BY <1>1, <2>1
<1>5. s < c
  <2>1. SUFFICES ASSUME ~(s < c) PROVE FALSE
    OBVIOUS
  <2>2. u * c <= u * s
    <3>1. c = s \/ c < s
      BY ONLY <1>2, <1>4, <2>1
    <3>2. u * c \in Nat
      BY ONLY <1>2, SMT
    <3>3. c < s => u * c + u <= u * s
      BY ONLY <1>2, <1>4, MultiplesApart
    <3>4. QED
      BY ONLY <1>2, <1>4, <3>1, <3>2, <3>3
  <2>3. QED
    BY ONLY <1>2, <1>3, <1>4, <2>2
<1>6. ASSUME NEW m \in Int, D * m <= time, time < D * m + D
      PROVE  D * m + u * s <= time /\ time < (D * m + u * s) + u
  <2>1. x = time - D * m
    BY ONLY time \in Nat, m \in Int, D * m <= time, time < D * m + D, <1>1, <1>2, DivisionIs
  <2>2. PICK y : y = D * m /\ y \in Int
    BY ONLY m \in Int, <1>2, SMT
  <2>3. PICK z : z = u * s /\ z \in Nat
    BY ONLY <1>4
  <2>4. x = time - y /\ z <= x /\ x < z + u
    BY ONLY <1>4, <2>1, <2>2, <2>3
  <2>5. y + z <= time /\ time < (y + z) + u
    BY ONLY time \in Nat, <1>2, <1>3, <2>2, <2>3, <2>4
  <2>6. QED
    BY ONLY <2>2, <2>3, <2>5
<1>7. slotIndex(r, time) \in Chapter(r)
  <2>1. s \in 0..(c - 1)
    BY ONLY <1>2, <1>4, <1>5
  <2>2. QED
    BY <1>1, <1>2, <2>1 DEF Chapter
<1>8. QED
  BY <1>1, <1>2, <1>4, <1>5, <1>6, <1>7

-----------------------------------------------------------------------------
(* The invariant of the rings: a turn begins at a multiple of its length,  *)
(* and the slot under the hand is the turn of the ring before.             *)
WheelInv ==
  /\ mCurrentHand \in [Ring -> Nat] /\ mStartTime \in [Ring -> Nat]
  /\ \A r \in Ring : mCurrentHand[r] < mCapterCount[r]
  /\ \A r \in Ring : Begin(r - 1) = Begin(r) + Turn(r - 1) * mCurrentHand[r]
  /\ \A r \in 0..RingCount : \E m \in Nat : Begin(r) = Turn(r) * m

(* GetCurrentTime counts slots of ring 1, which take a tick.               *)
LEMMA CurrentTimeIs ==
  ASSUME NEW h \in Nat
  PROVE  (h * mTimeDuration[1]) \div mCapterCount[1] = Turn(0) * h
<1>1. 1 \in Ring /\ 1 - 1 = 0
  BY RingsAssumption DEF Ring
<1>2. PICK c, d : c = mCapterCount[1] /\ d = Turn(0)
  OBVIOUS
<1>3. c \in Nat /\ c > 0 /\ d \in Nat /\ mTimeDuration[1] = c * d
  BY <1>1, <1>2, Turns
<1>4. h * (c * d) = c * (d * h) /\ d * h \in Nat
  BY ONLY h \in Nat, <1>3, SMT
<1>5. (c * (d * h)) \div c = d * h
  BY ONLY <1>3, <1>4, FactorIs
<1>6. QED
  BY <1>2, <1>3, <1>4, <1>5

(* A function that does not descend from one number to the next.           *)
LEMMA Ascends ==
  ASSUME NEW n \in Nat, NEW f \in [0..n -> Int], \A k \in 1..n : f[k - 1] <= f[k]
  PROVE  \A i, j \in 0..n : i <= j => f[i] <= f[j]
<1>1. SUFFICES ASSUME NEW i \in 0..n PROVE \A j \in 0..n : i <= j => f[i] <= f[j]
  OBVIOUS
<1> DEFINE Bad == {j \in 0..n : i <= j /\ ~(f[i] <= f[j])}
<1>2. SUFFICES ASSUME Bad # {} PROVE FALSE
  OBVIOUS
<1>3. Bad \subseteq Nat
  OBVIOUS
<1>4. PICK m \in Bad : \A k \in Bad : m <= k
  BY <1>2, <1>3, LeastMember
<1>5. m \in 0..n /\ i <= m /\ ~(f[i] <= f[m])
  OBVIOUS
<1>6. f[i] \in Int /\ f[m] \in Int
  BY <1>5
<1>7. m # i
  BY <1>5, <1>6
<1>8. m \in 1..n /\ m - 1 \in 0..n /\ i <= m - 1 /\ ~(m <= m - 1)
  BY ONLY n \in Nat, i \in 0..n, <1>5, <1>7
<1>9. f[i] <= f[m - 1] /\ f[m - 1] \in Int /\ f[m - 1] <= f[m]
  BY <1>4, <1>8
<1>10. QED
  BY ONLY <1>5, <1>6, <1>9

(* One ring and the one before.                                            *)
LEMMA RingBefore ==
  ASSUME WheelInv, NEW r \in Ring
  PROVE  /\ Begin(r) \in Nat /\ Begin(r - 1) \in Nat /\ End(r) \in Nat /\ End(r - 1) \in Nat
         /\ Begin(r) <= Begin(r - 1) /\ End(r - 1) <= End(r)
         /\ End(r - 1) = Begin(r) + Turn(r - 1) * mCurrentHand[r] + Turn(r - 1)
         /\ AtEnd(r) => End(r - 1) = End(r)
<1>1. PICK b, a, D, u, c, h : /\ b = Begin(r) /\ a = Begin(r - 1) /\ D = Turn(r)
                              /\ u = Turn(r - 1) /\ c = mCapterCount[r] /\ h = mCurrentHand[r]
  OBVIOUS
<1>2. /\ D \in Nat /\ u \in Nat /\ u > 0 /\ c \in Nat /\ D = u * c
      /\ h \in Nat /\ h < c /\ a = b + u * h
  BY <1>1, Turns DEF WheelInv
<1>3. b \in Nat
  <2>1. r # 0
    BY RingsAssumption DEF Ring
  <2>2. QED
    BY <1>1, <2>1 DEF WheelInv, Begin
<1>4. PICK z : z = u * h /\ z \in Nat
  BY ONLY <1>2, SMT
<1>5. z + u <= D
  BY ONLY <1>2, <1>4, MultiplesApart
<1>6. h = c - 1 => z + u = D
  BY ONLY <1>2, <1>4, SMT
<1>7. /\ a \in Nat /\ b <= a /\ b + D \in Nat /\ a + u \in Nat /\ a + u <= b + D
      /\ a + u = (b + z) + u /\ (h = c - 1 => a + u = b + D)
  BY ONLY <1>2, <1>3, <1>4, <1>5, <1>6
<1>8. QED
  BY <1>1, <1>3, <1>4, <1>7 DEF End, AtEnd

(* The current turns of the rings lie within one another.                  *)
LEMMA Nested ==
  ASSUME WheelInv
  PROVE  /\ \A r \in 0..RingCount : Begin(r) \in Nat /\ End(r) \in Nat
         /\ \A i, j \in 0..RingCount : i <= j => Begin(j) <= Begin(i) /\ End(i) <= End(j)
<1>1. RingCount \in Nat /\ RingCount > 0 /\ Ring = 1..RingCount
  BY RingsAssumption DEF Ring
<1>2. ASSUME NEW r \in 0..RingCount PROVE Begin(r) \in Nat /\ End(r) \in Nat
  <2>1. CASE r = 0
    <3>1. 1 \in Ring /\ 1 - 1 = r
      BY <1>1, <2>1
    <3>2. QED
      BY <3>1, RingBefore
  <2>2. CASE r # 0
    <3>1. r \in Ring
      BY <1>1, <2>2
    <3>2. QED
      BY <3>1, RingBefore
  <2>3. QED
    BY <2>1, <2>2
<1> DEFINE f == [k \in 0..RingCount |-> 0 - Begin(k)]
           g == [k \in 0..RingCount |-> End(k)]
<1>3. f \in [0..RingCount -> Int] /\ g \in [0..RingCount -> Int]
  BY <1>2
<1>4. ASSUME NEW k \in 1..RingCount PROVE f[k - 1] <= f[k] /\ g[k - 1] <= g[k]
  <2>1. k \in Ring /\ k - 1 \in 0..RingCount /\ k \in 0..RingCount
    BY <1>1
  <2>2. /\ Begin(k) \in Nat /\ Begin(k - 1) \in Nat
        /\ Begin(k) <= Begin(k - 1) /\ End(k - 1) <= End(k)
    BY <2>1, RingBefore
  <2>3. f[k - 1] = 0 - Begin(k - 1) /\ f[k] = 0 - Begin(k)
        /\ g[k - 1] = End(k - 1) /\ g[k] = End(k)
    BY <2>1
  <2>4. 0 - Begin(k - 1) <= 0 - Begin(k)
    BY ONLY <2>2
  <2>5. QED
    BY <2>2, <2>3, <2>4
<1>5. \A i, j \in 0..RingCount : i <= j => f[i] <= f[j] /\ g[i] <= g[j]
  <2> HIDE DEF f, g
  <2>1. \A i, j \in 0..RingCount : i <= j => f[i] <= f[j]
    BY <1>1, <1>3, <1>4, Ascends
  <2>2. \A i, j \in 0..RingCount : i <= j => g[i] <= g[j]
    BY <1>1, <1>3, <1>4, Ascends
  <2>3. QED
    BY <2>1, <2>2
<1>6. ASSUME NEW i \in 0..RingCount, NEW j \in 0..RingCount, i <= j
      PROVE  Begin(j) <= Begin(i) /\ End(i) <= End(j)
  <2>1. 0 - Begin(i) <= 0 - Begin(j) /\ End(i) <= End(j)
    BY <1>5, <1>6
  <2>2. Begin(i) \in Nat /\ Begin(j) \in Nat
    BY <1>2
  <2>3. QED
    BY ONLY <2>1, <2>2
<1>7. QED
  BY <1>2, <1>6

(* When a ring ticks, the turns of the rings before end together.          *)
LEMMA EndTogether ==
  ASSUME WheelInv, NEW q \in Ring, Ticks(q), NEW p \in 0..(q - 1)
  PROVE  End(p) = End(0)
<1>1. RingCount \in Nat /\ q \in 1..RingCount /\ Ring = 1..RingCount
  BY RingsAssumption DEF Ring
<1> DEFINE Bad == {k \in 0..(q - 1) : End(k) # End(0)}
<1>2. SUFFICES ASSUME Bad # {} PROVE FALSE
  OBVIOUS
<1>3. Bad \subseteq Nat
  BY <1>1
<1>4. PICK m \in Bad : \A k \in Bad : m <= k
  BY <1>2, <1>3, LeastMember
<1>5. m \in 0..(q - 1) /\ End(m) # End(0)
  OBVIOUS
<1>6. m # 0
  BY <1>5
<1>7. m \in 1..(q - 1) /\ m \in Ring /\ m - 1 \in 0..(q - 1) /\ ~(m <= m - 1)
  BY ONLY <1>1, <1>5, <1>6
<1>8. End(m - 1) = End(0)
  BY <1>4, <1>7
<1>9. AtEnd(m)
  BY <1>7 DEF Ticks
<1>10. End(m - 1) = End(m)
  BY <1>7, <1>9, RingBefore
<1>11. QED
  BY <1>5, <1>8, <1>10

(* The rings fit when the engine starts.                                   *)
LEMMA WheelStart ==
  ASSUME NEW nowTime \in Nat,
         mCurrentHand = [r \in Ring |-> slotIndex(r, nowTime)],
         mStartTime = [r \in Ring |-> (nowTime \div mTimeDuration[r]) * mTimeDuration[r]]
  PROVE  WheelInv
<1>1. RingCount \in Nat /\ RingCount > 0 /\ Ring = 1..RingCount /\ 1 \in Ring /\ 1 - 1 = 0
  BY RingsAssumption DEF Ring
<1>2. ASSUME NEW r \in Ring
      PROVE  /\ mCurrentHand[r] \in Nat /\ mCurrentHand[r] < mCapterCount[r]
             /\ mCurrentHand[r] = slotIndex(r, nowTime)
             /\ Begin(r) = Turn(r) * (nowTime \div Turn(r)) /\ Begin(r) = mStartTime[r]
             /\ Begin(r) \in Nat
  <2>1. r # 0
    BY <1>1
  <2>2. Turn(r) \in Nat /\ Turn(r) > 0 /\ Turn(r) = mTimeDuration[r]
    BY Turns
  <2>3. nowTime \div Turn(r) \in Nat /\ Turn(r) * (nowTime \div Turn(r)) \in Nat
    BY <2>2, Division
  <2>4. (nowTime \div Turn(r)) * Turn(r) = Turn(r) * (nowTime \div Turn(r))
    BY ONLY <2>2, <2>3, SMT
  <2>5. Begin(r) = mStartTime[r] /\ mStartTime[r] = (nowTime \div Turn(r)) * Turn(r)
    BY <2>1, <2>2 DEF Begin
  <2>6. mCurrentHand[r] = slotIndex(r, nowTime)
    OBVIOUS
  <2>7. QED
    BY <2>3, <2>4, <2>5, <2>6, SlotIs
<1>3. mCurrentHand \in [Ring -> Nat] /\ mStartTime \in [Ring -> Nat]
  <2>1. \A r \in Ring : slotIndex(r, nowTime) \in Nat
    BY SlotIs
  <2>2. \A r \in Ring : (nowTime \div mTimeDuration[r]) * mTimeDuration[r] \in Nat
    BY <1>2
  <2>3. QED
    BY <2>1, <2>2
<1>4. Begin(0) = Begin(1) + Turn(0) * mCurrentHand[1]
  <2>1. (mCurrentHand[1] * mTimeDuration[1]) \div mCapterCount[1] = Turn(0) * mCurrentHand[1]
    BY <1>1, <1>2, CurrentTimeIs
  <2>2. Begin(1) = mStartTime[1]
    BY <1>1, <1>2
  <2>3. QED
    BY <2>1, <2>2 DEF Begin, GetCurrentTime
<1>5. ASSUME NEW r \in Ring
      PROVE  /\ Begin(r) + Turn(r - 1) * mCurrentHand[r] = Turn(r - 1) * (nowTime \div Turn(r - 1))
             /\ nowTime \div Turn(r - 1) \in Nat
  <2>1. PICK b, D, u, c, h, m, k :
          /\ b = Begin(r) /\ D = Turn(r) /\ u = Turn(r - 1) /\ c = mCapterCount[r]
          /\ h = mCurrentHand[r] /\ m = nowTime \div Turn(r) /\ k = nowTime \div Turn(r - 1)
    OBVIOUS
  <2>2. /\ D \in Nat /\ D > 0 /\ u \in Nat /\ u > 0 /\ c \in Nat /\ D = u * c
        /\ h \in Nat /\ b = D * m /\ h = slotIndex(r, nowTime)
    BY <1>2, <2>1, Turns
  <2>3. m \in Nat /\ D * m <= nowTime /\ nowTime < D * m + D
    BY ONLY nowTime \in Nat, <2>1, <2>2, Division
  <2>4. k \in Nat /\ u * k <= nowTime /\ nowTime < u * k + u
    BY ONLY nowTime \in Nat, <2>1, <2>2, Division
  <2>5. D * m + u * h <= nowTime /\ nowTime < (D * m + u * h) + u
    <3>1. m \in Int
      BY ONLY <2>3
    <3>2. QED
      BY <2>1, <2>2, <2>3, <3>1, SlotIs
  <2>6. PICK i : i = c * m + h /\ i \in Int
    BY ONLY <2>2, <2>3, SMT
  <2>7. u * i = D * m + u * h
    <3>1. u * (c * m + h) = (u * c) * m + u * h
      BY ONLY <2>2, <2>3, SMT
    <3>2. QED
      BY ONLY <2>2, <2>6, <3>1
  <2>8. u * i <= nowTime /\ nowTime < u * i + u
    BY ONLY <2>5, <2>7
  <2>9. i = k
    BY ONLY nowTime \in Nat, <2>2, <2>4, <2>6, <2>8, SameMultiple
  <2>10. b + u * h = u * k /\ k \in Nat
    BY ONLY <2>2, <2>4, <2>7, <2>9
  <2>11. QED
    BY <2>1, <2>10
<1>6. ASSUME NEW r \in Ring PROVE Begin(r - 1) = Begin(r) + Turn(r - 1) * mCurrentHand[r]
  <2>1. CASE r = 1
    BY <1>1, <1>4, <2>1
  <2>2. CASE r # 1
    <3>1. r - 1 \in Ring
      BY <1>1, <2>2
    <3>2. QED
      BY <1>2, <1>5, <3>1
  <2>3. QED
    BY <2>1, <2>2
<1>7. ASSUME NEW r \in 0..RingCount PROVE \E m \in Nat : Begin(r) = Turn(r) * m
  <2>1. CASE r = 0
    <3>1. Begin(0) = Turn(0) * (nowTime \div Turn(0)) /\ nowTime \div Turn(0) \in Nat
      BY <1>1, <1>4, <1>5
    <3>2. QED
      BY <2>1, <3>1
  <2>2. CASE r # 0
    <3>1. r \in Ring
      BY <1>1, <2>2
    <3>2. Turn(r) \in Nat /\ Turn(r) > 0
      BY <3>1, Turns
    <3>3. nowTime \div Turn(r) \in Nat
      BY <3>2, Division
    <3>4. QED
      BY <1>2, <3>1, <3>3
  <2>3. QED
    BY <2>1, <2>2
<1>8. QED
  BY <1>2, <1>3, <1>6, <1>7 DEF WheelInv

(* A ring ticks when the ring before ticks and is at its end.              *)
LEMMA TicksNext ==
  ASSUME NEW r \in Ring
  PROVE  Ticks(1) /\ (Ticks(r + 1) <=> Ticks(r) /\ AtEnd(r))
<1>1. /\ r \in Nat /\ 1..(1 - 1) = {} /\ r \in 1..((r + 1) - 1)
      /\ \A q \in 1..((r + 1) - 1) : q = r \/ q \in 1..(r - 1)
      /\ \A q \in 1..(r - 1) : q \in 1..((r + 1) - 1)
  BY RingsAssumption DEF Ring
<1>2. QED
  BY <1>1 DEF Ticks

(* Tick leads to the next tick and the turns that begin with it.           *)
BeginAfter(r) == IF Ticks(r + 1) THEN End(r) ELSE Begin(r)
HandNow(r) == IF Ticks(r) THEN HandAfter(r) ELSE mCurrentHand[r]

LEMMA TickTurns ==
  ASSUME WheelInv, NEW r \in Ring
  PROVE  /\ BeginAfter(r) \in Nat /\ HandNow(r) \in Nat /\ HandNow(r) < mCapterCount[r]
         /\ BeginAfter(r - 1) = BeginAfter(r) + Turn(r - 1) * HandNow(r)
<1>1. PICK b, a, D, u, c, h : /\ b = Begin(r) /\ a = Begin(r - 1) /\ D = Turn(r)
                              /\ u = Turn(r - 1) /\ c = mCapterCount[r] /\ h = mCurrentHand[r]
  OBVIOUS
<1>2. /\ D \in Nat /\ u \in Nat /\ u > 0 /\ c \in Nat /\ c > 0
      /\ h \in Nat /\ h < c /\ a = b + u * h /\ a \in Nat /\ b \in Nat
      /\ a + u = (b + u * h) + u /\ a + u \in Nat /\ b + D \in Nat
      /\ AtEnd(r) => a + u = b + D
      /\ AtEnd(r) <=> h = c - 1
      /\ End(r) = b + D /\ End(r - 1) = a + u
  BY <1>1, Turns, RingBefore DEF WheelInv, AtEnd, End
<1>3. (r - 1) + 1 = r
  BY RingsAssumption DEF Ring
<1>4. CASE ~Ticks(r)
  <2>1. BeginAfter(r) = b /\ BeginAfter(r - 1) = a /\ HandNow(r) = h
    BY <1>1, <1>3, <1>4, TicksNext DEF BeginAfter, HandNow
  <2>2. QED
    BY <1>1, <1>2, <2>1
<1>5. CASE Ticks(r) /\ AtEnd(r)
  <2>1. BeginAfter(r) = b + D /\ BeginAfter(r - 1) = a + u /\ HandNow(r) = 0
    BY <1>2, <1>3, <1>5, TicksNext DEF BeginAfter, HandNow, HandAfter
  <2>2. u * 0 = 0 /\ (b + D) + 0 = b + D
    BY ONLY <1>2, SMT
  <2>3. a + u = (b + D) + u * 0
    BY <1>2, <1>5, <2>2
  <2>4. QED
    BY <1>1, <1>2, <2>1, <2>3
<1>6. CASE Ticks(r) /\ ~AtEnd(r)
  <2>1. BeginAfter(r) = b /\ BeginAfter(r - 1) = a + u /\ HandNow(r) = h + 1
    BY <1>1, <1>2, <1>3, <1>6, TicksNext DEF BeginAfter, HandNow, HandAfter
  <2>2. u * (h + 1) = u * h + u /\ u * h \in Nat
    BY ONLY <1>2, SMT
  <2>3. a + u = b + u * (h + 1)
    BY ONLY <1>2, <2>2
  <2>4. h + 1 \in Nat /\ h + 1 < c
    BY <1>2, <1>6
  <2>5. QED
    BY <1>1, <1>2, <2>1, <2>3, <2>4
<1>7. QED
  BY <1>4, <1>5, <1>6

LEMMA TickWheel ==
  ASSUME WheelInv, Tick
  PROVE  /\ \A r \in Ring : mCurrentHand'[r] = HandNow(r)
         /\ \A r \in 0..RingCount : (Begin(r)') = BeginAfter(r)
         /\ GetCurrentTime' = End(0)
         /\ WheelInv'
<1>1. RingCount \in Nat /\ RingCount > 0 /\ Ring = 1..RingCount /\ 1 \in Ring /\ 1 - 1 = 0
  BY RingsAssumption DEF Ring
<1>2. /\ mCurrentHand' = [r \in Ring |-> HandNow(r)]
      /\ mStartTime' = [r \in Ring |-> IF Ticks(r) /\ AtEnd(r) THEN EndTime(r) ELSE mStartTime[r]]
  BY DEF Tick, HandNow
<1>3. ASSUME NEW r \in Ring PROVE mStartTime'[r] = BeginAfter(r)
  <2>1. Begin(r) = mStartTime[r] /\ End(r) = EndTime(r)
    BY <1>1 DEF Begin, End, EndTime, Turn
  <2>2. QED
    BY <1>2, <2>1, TicksNext DEF BeginAfter
<1>4. /\ \A r \in Ring : HandNow(r) \in Nat
      /\ \A r \in Ring : BeginAfter(r) \in Nat
  BY TickTurns
<1>5. mCurrentHand' \in [Ring -> Nat] /\ mStartTime' \in [Ring -> Nat]
  <2>1. \A r \in Ring : (IF Ticks(r) /\ AtEnd(r) THEN EndTime(r) ELSE mStartTime[r]) \in Nat
    BY <1>2, <1>3, <1>4
  <2>2. QED
    BY <1>2, <1>4, <2>1
<1>6. ASSUME NEW r \in Ring PROVE (Begin(r)') = BeginAfter(r)
  <2>1. r # 0
    BY <1>1
  <2>2. (Begin(r)') = mStartTime'[r]
    BY <2>1 DEF Begin
  <2>3. QED
    BY <1>3, <2>2
<1>7. (Begin(0)') = BeginAfter(0) /\ GetCurrentTime' = BeginAfter(0)
  <2>1. /\ mCurrentHand'[1] = HandNow(1) /\ HandNow(1) \in Nat
        /\ mStartTime'[1] = BeginAfter(1)
        /\ BeginAfter(0) = BeginAfter(1) + Turn(0) * HandNow(1)
    BY <1>1, <1>2, <1>3, TickTurns
  <2>2. (HandNow(1) * mTimeDuration[1]) \div mCapterCount[1] = Turn(0) * HandNow(1)
    BY <2>1, CurrentTimeIs
  <2>3. GetCurrentTime' =
          mStartTime'[1] + ((mCurrentHand'[1] * mTimeDuration[1]) \div mCapterCount[1])
    BY DEF GetCurrentTime
  <2>4. GetCurrentTime' = BeginAfter(0)
    BY <2>1, <2>2, <2>3
  <2>5. (Begin(0)') = GetCurrentTime'
    BY DEF Begin
  <2>6. QED
    BY <2>4, <2>5
<1>8. ASSUME NEW r \in 0..RingCount PROVE (Begin(r)') = BeginAfter(r)
  <2>1. r = 0 \/ r \in Ring
    BY <1>1
  <2>2. QED
    BY <1>6, <1>7, <2>1
<1>9. BeginAfter(0) = End(0)
  BY <1>1, TicksNext DEF BeginAfter
<1>10. \A r \in Ring : mCurrentHand'[r] = HandNow(r)
  BY <1>2
<1>11. WheelInv'
  <2>1. \A r \in Ring : mCurrentHand'[r] < mCapterCount[r]
    BY <1>10, TickTurns
  <2>2. ASSUME NEW r \in Ring
        PROVE  (Begin(r - 1)') = (Begin(r)') + Turn(r - 1) * mCurrentHand'[r]
    <3>1. r - 1 \in 0..RingCount /\ r \in 0..RingCount
      BY <1>1
    <3>2. QED
      BY <1>8, <1>10, <3>1, TickTurns
  <2>3. ASSUME NEW r \in 0..RingCount PROVE \E m \in Nat : (Begin(r)') = Turn(r) * m
    <3>1. PICK m \in Nat : Begin(r) = Turn(r) * m
      BY DEF WheelInv
    <3>2. Turn(r) \in Nat
      BY Turns
    <3>3. Begin(r) + Turn(r) = Turn(r) * (m + 1)
      BY ONLY m \in Nat, <3>1, <3>2, SMT
    <3>4. BeginAfter(r) = Turn(r) * m \/ BeginAfter(r) = Turn(r) * (m + 1)
      BY <3>1, <3>3 DEF BeginAfter, End
    <3>5. m + 1 \in Nat
      OBVIOUS
    <3>6. QED
      BY <1>8, <3>4, <3>5
  <2>4. \A r \in Ring : (Turn(r - 1)') = Turn(r - 1)
    BY DEF Turn
  <2>5. QED
    BY <1>5, <2>1, <2>2, <2>3 DEF WheelInv, Turn
<1>12. QED
  BY <1>7, <1>8, <1>9, <1>10, <1>11

(* CanInsert means: from the end of the turn of the ring before to the end *)
(* of the own turn.  Times before the current turn may be accepted, too.   *)
LEMMA CanInsertIs ==
  ASSUME WheelInv, NEW r \in Ring, NEW time \in Nat, Begin(r) <= time
  PROVE  CanInsert(r, time) <=> End(r - 1) <= time /\ time < End(r)
<1>1. PICK b, D, u, h, s : /\ b = Begin(r) /\ D = Turn(r) /\ u = Turn(r - 1)
                           /\ h = mCurrentHand[r] /\ s = slotIndex(r, time)
  OBVIOUS
<1>2. /\ D \in Nat /\ D > 0 /\ u \in Nat /\ u > 0 /\ h \in Nat /\ s \in Nat /\ b \in Nat
      /\ End(r - 1) = (b + u * h) + u /\ End(r) = b + D /\ b <= time
  BY <1>1, Turns, SlotIs, RingBefore DEF WheelInv, End
<1>3. time < End(r) => b + u * s <= time /\ time < (b + u * s) + u
  <2>1. SUFFICES ASSUME time < End(r) PROVE b + u * s <= time /\ time < (b + u * s) + u
    OBVIOUS
  <2>2. PICK m \in Nat : b = D * m
    <3>1. r \in 0..RingCount
      BY RingsAssumption DEF Ring
    <3>2. QED
      BY <1>1, <3>1 DEF WheelInv
  <2>3. D * m <= time /\ time < D * m + D /\ m \in Int
    BY <1>2, <2>1, <2>2
  <2>4. QED
    BY <1>1, <2>2, <2>3, SlotIs
<1>4. s > h /\ time < End(r) => End(r - 1) <= time
  <2>1. SUFFICES ASSUME s > h, time < End(r) PROVE End(r - 1) <= time
    OBVIOUS
  <2>2. u * h + u <= u * s /\ u * h \in Nat /\ u * s \in Nat
    <3>1. u * h \in Nat /\ u * s \in Nat
      BY ONLY <1>2, SMT
    <3>2. QED
      BY ONLY <1>2, <2>1, <3>1, MultiplesApart
  <2>3. QED
    BY ONLY time \in Nat, <1>2, <1>3, <2>1, <2>2
<1>5. End(r - 1) <= time /\ time < End(r) => s > h
  <2>1. SUFFICES ASSUME End(r - 1) <= time, time < End(r), ~(s > h) PROVE FALSE
    OBVIOUS
  <2>2. u * s <= u * h /\ u * h \in Nat /\ u * s \in Nat
    <3>1. u * h \in Nat /\ u * s \in Nat
      BY ONLY <1>2, SMT
    <3>2. s = h \/ s < h
      BY ONLY <1>2, <2>1
    <3>3. s < h => u * s + u <= u * h
      BY ONLY <1>2, MultiplesApart
    <3>4. QED
      BY ONLY <1>2, <3>1, <3>2, <3>3
  <2>3. QED
    BY ONLY time \in Nat, <1>2, <1>3, <2>1, <2>2
<1>6. CanInsert(r, time) <=> time < End(r) /\ s > h
  <2>1. End(r) = EndTime(r)
    <3>1. r # 0
      BY RingsAssumption DEF Ring
    <3>2. QED
      BY <3>1 DEF End, EndTime, Begin, Turn
  <2>2. QED
    BY <1>1, <2>1 DEF CanInsert
<1>7. QED
  BY <1>4, <1>5, <1>6

(* So the rings leave no gap between the next tick and the end of the last *)
(* ring's turn.                                                            *)
LEMMA WheelHasRings == WheelInv => EveryTimeHasARing
<1> SUFFICES ASSUME WheelInv PROVE EveryTimeHasARing
  OBVIOUS
<1>1. RingCount \in Nat /\ RingCount > 0 /\ Ring = 1..RingCount /\ 0 \in 0..RingCount
      /\ RingCount \in 0..RingCount
  BY RingsAssumption DEF Ring
<1>2. Begin(0) = GetCurrentTime /\ End(0) = GetCurrentTime + TickLength
      /\ End(RingCount) = EndTime(RingCount)
  BY <1>1 DEF Begin, End, EndTime, Turn
<1>3. Begin(0) \in Nat /\ End(0) \in Nat /\ End(RingCount) \in Nat
  BY <1>1, Nested
<1>4. ASSUME NEW time \in Nat, Begin(0) <= time
      PROVE  (\E r \in Ring : CanInsert(r, time)) <=> End(0) <= time /\ time < End(RingCount)
  <2>1. ASSUME NEW r \in Ring
        PROVE  CanInsert(r, time) <=> End(r - 1) <= time /\ time < End(r)
    <3>1. r \in 0..RingCount /\ 0 <= r
      BY <1>1
    <3>2. Begin(r) <= Begin(0) /\ Begin(r) \in Nat
      BY <1>1, <3>1, Nested
    <3>3. Begin(r) <= time
      BY ONLY time \in Nat, Begin(0) <= time, <1>3, <3>2
    <3>4. QED
      BY <3>3, CanInsertIs
  <2>2. ASSUME NEW r \in Ring, CanInsert(r, time)
        PROVE  End(0) <= time /\ time < End(RingCount)
    <3>1. r - 1 \in 0..RingCount /\ r \in 0..RingCount /\ 0 <= r - 1 /\ r <= RingCount
      BY <1>1
    <3>2. End(0) <= End(r - 1) /\ End(r) <= End(RingCount)
          /\ End(r - 1) \in Nat /\ End(r) \in Nat
      BY <1>1, <3>1, Nested
    <3>3. End(r - 1) <= time /\ time < End(r)
      BY <2>1, <2>2
    <3>4. QED
      BY ONLY time \in Nat, <1>3, <3>2, <3>3
  <2>3. ASSUME End(0) <= time, time < End(RingCount)
        PROVE  \E r \in Ring : CanInsert(r, time)
    <3> DEFINE Open == {r \in Ring : time < End(r)}
    <3>1. Open \subseteq Nat /\ RingCount \in Open
      BY <1>1, <2>3
    <3>2. PICK r \in Open : \A k \in Open : r <= k
      BY <3>1, LeastMember
    <3>3. End(r - 1) <= time
      <4>1. CASE r = 1
        BY <2>3, <4>1
      <4>2. CASE r # 1
        <5>1. r - 1 \in Ring /\ ~(r <= r - 1) /\ r - 1 \in 0..RingCount
          BY <1>1, <4>2
        <5>2. ~(time < End(r - 1)) /\ End(r - 1) \in Nat
          BY <3>2, <5>1, Nested
        <5>3. QED
          BY ONLY time \in Nat, <5>2
      <4>3. QED
        BY <4>1, <4>2
    <3>4. QED
      BY <2>1, <3>3
  <2>4. QED
    BY <2>2, <2>3
<1>5. ASSUME NEW time \in GetCurrentTime..(EndTime(RingCount) + TickLength)
      PROVE  (\E r \in Ring : CanInsert(r, time))
               <=> time \in (GetCurrentTime + TickLength)..(EndTime(RingCount) - 1)
  <2>1. GetCurrentTime \in Nat /\ EndTime(RingCount) \in Nat /\ TickLength \in Nat
    BY <1>2, <1>3, RingsAssumption
  <2>2. time \in Nat /\ GetCurrentTime <= time
    BY <2>1
  <2>3. time \in (GetCurrentTime + TickLength)..(EndTime(RingCount) - 1) <=>
          GetCurrentTime + TickLength <= time /\ time < EndTime(RingCount)
    BY ONLY <2>1, <2>2
  <2>4. QED
    BY <1>2, <1>4, <2>2, <2>3
<1>6. QED
  BY <1>5 DEF EveryTimeHasARing

-----------------------------------------------------------------------------
(* The timers.  One that waits lies in one slot, which is still to come; a *)
(* late one may be in slot 0 of ring 1 for the next tick.                  *)
Lies(t, r, s) == \A q \in Ring : \A i \in Chapter(q) : t \in mRing[q][i] <=> q = r /\ i = s
Nowhere(t) == \A q \in Ring : \A i \in Chapter(q) : t \notin mRing[q][i]
SlotBegin(r, s) == Begin(r) + Turn(r - 1) * s
Waits(t, r, s) ==
  /\ s > mCurrentHand[r] \/ (r = 1 /\ s = 0 /\ AtEnd(1) /\ t \notin ahead)
  /\ r # 1 \/ t \in ahead => mExpireTime[t] < SlotBegin(r, s) + Turn(r - 1)
  /\ t \in ahead => SlotBegin(r, s) <= mExpireTime[t]

(* The largest member of a bounded set.                                    *)
LEMMA GreatestMember ==
  ASSUME NEW n \in Nat, NEW T, T \subseteq 0..n, T # {}
  PROVE  \E m \in T : \A k \in T : k <= m
<1> DEFINE U == {n - k : k \in T}
<1>1. U \subseteq Nat /\ U # {}
  <2>1. \A k \in T : n - k \in Nat
    OBVIOUS
  <2>2. QED
    BY <2>1
<1>2. PICK u \in U : \A k \in U : u <= k
  BY <1>1, LeastMember
<1>3. PICK m \in T : u = n - m
  OBVIOUS
<1>4. ASSUME NEW k \in T PROVE k <= m
  <2>1. n - m <= n - k
    BY <1>2, <1>3
  <2>2. k \in 0..n /\ m \in 0..n
    OBVIOUS
  <2>3. QED
    BY ONLY n \in Nat, <2>1, <2>2
<1>5. QED
  BY <1>4

(* A turn that is under way begins and ends with a multiple of its length. *)
LEMMA TurnMultiple ==
  ASSUME WheelInv, NEW r \in 0..RingCount
  PROVE  /\ \E m \in Int : Begin(r) = Turn(r) * m
         /\ \E m \in Int : End(r) = Turn(r) * m
<1>1. PICK m \in Nat : Begin(r) = Turn(r) * m
  BY DEF WheelInv
<1>2. Turn(r) \in Nat
  BY Turns
<1>3. Begin(r) + Turn(r) = Turn(r) * (m + 1) /\ m \in Int /\ m + 1 \in Int
  BY ONLY m \in Nat, <1>1, <1>2, SMT
<1>4. QED
  BY <1>1, <1>3 DEF End

(* The slot of a time that is in the turn that begins at b, or before.     *)
LEMMA SlotOf ==
  ASSUME NEW r \in Ring, NEW time \in Nat, NEW b \in Nat, \E m \in Int : b = Turn(r) * m,
         time < b + Turn(r)
  PROVE  /\ b <= time => b + Turn(r - 1) * slotIndex(r, time) <= time
         /\ time < (b + Turn(r - 1) * slotIndex(r, time)) + Turn(r - 1)
<1>1. PICK m \in Int : b = Turn(r) * m
  OBVIOUS
<1>2. PICK u, s, z : u = Turn(r - 1) /\ s = slotIndex(r, time) /\ z = u * s
  OBVIOUS
<1>3. u \in Nat /\ u > 0 /\ s \in Nat
  BY <1>2, Turns, SlotIs
<1>4. z \in Nat
  BY ONLY <1>2, <1>3, SMT
<1>5. b <= time => b + z <= time /\ time < (b + z) + u
  BY <1>1, <1>2, SlotIs
<1>6. ~(b <= time) => time < (b + z) + u
  BY ONLY time \in Nat, b \in Nat, <1>3, <1>4
<1>7. QED
  BY <1>2, <1>5, <1>6

(* What Tick does to the timer t, which lies in slot s of ring q.          *)
Falls(q, s) == Ticks(q) /\ s = HandAfter(q)

LEMMA GivenIs ==
  ASSUME WheelInv, NEW t \in Timer, NEW q \in Ring, NEW s \in Chapter(q), Lies(t, q, s),
         NEW r \in Ring
  PROVE  t \in Given(r) <=> /\ r < q /\ Falls(q, s)
                            /\ \A p \in r..(q - 1) : Takes(p, t)
                            /\ \A p \in (r + 1)..(q - 1) : UnderHand(p, t)
<1>1. RingCount \in Nat /\ Ring = 1..RingCount
  BY RingsAssumption DEF Ring
<1>2. ASSUME NEW k \in Ring, Ticks(k) PROVE HandAfter(k) \in Chapter(k)
  <2>1. HandAfter(k) \in Nat /\ HandAfter(k) < mCapterCount[k] /\ mCapterCount[k] \in Nat
    BY <1>2, TickTurns, Turns DEF HandNow
  <2>2. QED
    BY <2>1 DEF Chapter
<1>3. ASSUME NEW k \in (r + 1)..RingCount, Ticks(k), t \in mRing[k][HandAfter(k)]
      PROVE  k = q /\ HandAfter(q) = s
  <2>1. k \in Ring
    BY <1>1
  <2>2. QED
    BY <1>2, <1>3, <2>1 DEF Lies
<1>4. t \in Given(r) => /\ q \in (r + 1)..RingCount /\ Falls(q, s)
                        /\ \A p \in r..(q - 1) : Takes(p, t)
                        /\ \A p \in (r + 1)..(q - 1) : UnderHand(p, t)
  BY <1>3 DEF Given, Falls
<1>5. q \in (r + 1)..RingCount <=> r < q
  BY <1>1
<1>6. Falls(q, s) => t \in mRing[q][HandAfter(q)] /\ Ticks(q)
  BY DEF Falls, Lies
<1>7. QED
  BY <1>4, <1>5, <1>6 DEF Given

LEMMA AfterTick ==
  ASSUME Tick, WheelInv, NEW t \in Timer
  PROVE  /\ \A r \in Ring : \A i \in Chapter(r) :
              t \in mRing'[r][i] <=>
                /\ t \in mRing[r][i] \/ (t \in Given(r) /\ slotIndex(r, mExpireTime[t]) = i)
                /\ ~Falls(r, i)
         /\ t \in triggered' <=> \/ t \in mRing[1][HandAfter(1)]
                                 \/ t \in Given(1) /\ UnderHand(1, t)
<1>1. ASSUME NEW r \in Ring, NEW i \in Chapter(r) PROVE mRing'[r][i] = SlotAfter(r, i)
  BY DEF Tick
<1>2. triggered' = Filled(1, HandAfter(1))
  BY DEF Tick
<1>3. ASSUME NEW r \in Ring, NEW i
      PROVE  t \in Filled(r, i) <=>
               t \in mRing[r][i] \/ (t \in Given(r) /\ slotIndex(r, mExpireTime[t]) = i)
  BY DEF Filled
<1>4. ASSUME NEW r \in Ring, NEW i
      PROVE  t \in SlotAfter(r, i) <=> t \in Filled(r, i) /\ ~Falls(r, i)
  BY DEF SlotAfter, Falls
<1>5. 1 \in Ring
  BY RingsAssumption DEF Ring
<1>6. t \in triggered' <=> t \in mRing[1][HandAfter(1)] \/ (t \in Given(1) /\ UnderHand(1, t))
  BY <1>2, <1>3, <1>5 DEF UnderHand
<1>7. ASSUME NEW r \in Ring, NEW i \in Chapter(r)
      PROVE  t \in mRing'[r][i] <=>
               /\ t \in mRing[r][i] \/ (t \in Given(r) /\ slotIndex(r, mExpireTime[t]) = i)
               /\ ~Falls(r, i)
  BY <1>1, <1>3, <1>4
<1>8. QED
  BY <1>6, <1>7

(* Until the hand comes to it, it stays.                                   *)
LEMMA StaysInSlot ==
  ASSUME WheelInv, Tick, NEW t \in Timer, mExpireTime[t] \in Nat,
         NEW q \in Ring, NEW s \in Chapter(q), Lies(t, q, s), Waits(t, q, s), ~Falls(q, s)
  PROVE  t \notin triggered' /\ Lies(t, q, s)' /\ Waits(t, q, s)'
<1>1. RingCount \in Nat /\ Ring = 1..RingCount /\ 1 \in Ring
  BY RingsAssumption DEF Ring
<1>2. \A r \in Ring : t \notin Given(r)
  BY GivenIs
<1>3. Lies(t, q, s)'
  <2>1. \A r \in Ring : \A i \in Chapter(r) : t \in mRing'[r][i] <=> r = q /\ i = s
    BY <1>2, AfterTick DEF Lies
  <2>2. QED
    BY <2>1 DEF Lies, Chapter, Ring
<1>4. t \notin triggered'
  <2>1. HandAfter(1) \in Chapter(1) /\ Ticks(1)
    <3>1. Ticks(1)
      BY <1>1, TicksNext
    <3>2. HandAfter(1) \in Nat /\ HandAfter(1) < mCapterCount[1] /\ mCapterCount[1] \in Nat
      BY <1>1, <3>1, TickTurns, Turns DEF HandNow
    <3>3. QED
      BY <3>1, <3>2 DEF Chapter
  <2>2. t \notin mRing[1][HandAfter(1)]
    <3>1. SUFFICES ASSUME t \in mRing[1][HandAfter(1)] PROVE FALSE
      OBVIOUS
    <3>2. 1 = q /\ HandAfter(1) = s
      BY <1>1, <2>1, <3>1 DEF Lies
    <3>3. QED
      BY <2>1, <3>2 DEF Falls
  <2>3. QED
    BY <1>1, <1>2, <2>2, AfterTick
<1>5. s > mCurrentHand'[q] /\ (Begin(q)') = Begin(q)
  <2>1. mCurrentHand'[q] = HandNow(q) /\ (Begin(q)') = BeginAfter(q)
    BY <1>1, TickWheel
  <2>2. s \in Nat /\ s < mCapterCount[q] /\ mCapterCount[q] \in Nat
        /\ mCurrentHand[q] \in Nat
    BY Turns DEF Chapter, WheelInv
  <2>3. CASE ~Ticks(q)
    <3>1. HandNow(q) = mCurrentHand[q] /\ BeginAfter(q) = Begin(q)
      BY <2>3, TicksNext DEF HandNow, BeginAfter
    <3>2. s > mCurrentHand[q]
      BY <1>1, <2>3, TicksNext DEF Waits
    <3>3. QED
      BY <2>1, <3>1, <3>2
  <2>4. CASE Ticks(q) /\ AtEnd(q)
    <3>1. s = 0
      BY <2>2, <2>4 DEF Waits, AtEnd
    <3>2. QED
      BY <2>4, <3>1 DEF Falls, HandAfter
  <2>5. CASE Ticks(q) /\ ~AtEnd(q)
    <3>1. HandNow(q) = mCurrentHand[q] + 1 /\ BeginAfter(q) = Begin(q)
      BY <2>5, TicksNext DEF HandNow, HandAfter, BeginAfter
    <3>2. s # mCurrentHand[q] + 1
      BY <2>5 DEF Falls, HandAfter
    <3>3. s > mCurrentHand[q]
      BY <2>5 DEF Waits
    <3>4. s > mCurrentHand[q] + 1
      BY ONLY <2>2, <3>2, <3>3
    <3>5. QED
      BY <2>1, <3>1, <3>4
  <2>6. QED
    BY <2>3, <2>4, <2>5
<1>6. mExpireTime' = mExpireTime /\ ahead' = ahead
  BY DEF Tick, timerVars
<1>7. (SlotBegin(q, s)') = SlotBegin(q, s)
  BY <1>5 DEF SlotBegin, Turn
<1>8. Waits(t, q, s)'
  BY <1>5, <1>6, <1>7 DEF Waits, Turn
<1>9. QED
  BY <1>3, <1>4, <1>8

(* When the hand comes to it, its time is in the turn that begins with the *)
(* tick for the ring before.                                               *)
LEMMA FallingTime ==
  ASSUME WheelInv, NEW t \in Timer, mExpireTime[t] \in Nat,
         NEW q \in Ring, NEW s \in Chapter(q), Waits(t, q, s), Falls(q, s)
  PROVE  /\ q # 1 \/ t \in ahead => mExpireTime[t] < End(0) + Turn(q - 1)
         /\ t \in ahead => End(0) <= mExpireTime[t]
<1>1. q \in 1..RingCount /\ RingCount \in Nat /\ q - 1 \in 0..(q - 1)
  BY RingsAssumption DEF Ring
<1>2. End(q - 1) = End(0)
  BY <1>1, EndTogether DEF Falls
<1>3. CASE s > mCurrentHand[q]
  <2>1. PICK b, u, h : b = Begin(q) /\ u = Turn(q - 1) /\ h = mCurrentHand[q]
    OBVIOUS
  <2>2. /\ b \in Nat /\ u \in Nat /\ h \in Nat /\ h < mCapterCount[q]
        /\ mCapterCount[q] \in Nat /\ End(q - 1) = (b + u * h) + u
    BY <2>1, Turns, RingBefore DEF WheelInv
  <2>3. s \in Nat /\ s < mCapterCount[q]
    BY <2>2 DEF Chapter
  <2>4. ~AtEnd(q)
    BY <1>3, <2>1, <2>2, <2>3 DEF AtEnd
  <2>5. s = h + 1
    BY <2>1, <2>4 DEF Falls, HandAfter
  <2>6. u * s = u * h + u
    BY ONLY <2>2, <2>5, SMT
  <2>7. u * h \in Nat /\ u * s \in Nat
    BY ONLY <2>2, <2>3, SMT
  <2>8. SlotBegin(q, s) = End(0)
    <3>1. b + u * s = (b + u * h) + u
      BY ONLY <2>2, <2>6, <2>7
    <3>2. QED
      BY <1>2, <2>1, <2>2, <3>1 DEF SlotBegin
  <2>9. QED
    BY <2>8 DEF Waits
<1>4. CASE q = 1 /\ t \notin ahead
  BY <1>4
<1>5. QED
  BY <1>3, <1>4 DEF Waits

(* From the last slot that it falls out of, it goes off.                   *)
LEMMA FallsOut ==
  ASSUME WheelInv, Tick, NEW t \in Timer, mExpireTime[t] \in Nat,
         NEW s \in Chapter(1), Lies(t, 1, s), Waits(t, 1, s), Falls(1, s)
  PROVE  /\ t \in triggered' /\ Nowhere(t)'
         /\ t \in ahead => /\ GetCurrentTime' <= mExpireTime[t]
                           /\ mExpireTime[t] < GetCurrentTime' + TickLength
<1>1. RingCount \in Nat /\ Ring = 1..RingCount /\ 1 \in Ring /\ 1 - 1 = 0
  BY RingsAssumption DEF Ring
<1>2. \A r \in Ring : t \notin Given(r)
  <2>1. \A r \in Ring : ~(r < 1)
    BY <1>1
  <2>2. QED
    BY <1>1, <2>1, GivenIs
<1>3. t \in triggered'
  <2>1. t \in mRing[1][HandAfter(1)]
    BY <1>1 DEF Lies, Falls
  <2>2. QED
    BY <2>1, AfterTick
<1>4. Nowhere(t)'
  <2>1. \A r \in Ring : \A i \in Chapter(r) : t \notin mRing'[r][i]
    BY <1>1, <1>2, AfterTick DEF Lies
  <2>2. QED
    BY <2>1 DEF Nowhere, Chapter, Ring
<1>5. t \in ahead => /\ GetCurrentTime' <= mExpireTime[t]
                     /\ mExpireTime[t] < GetCurrentTime' + TickLength
  <2>1. GetCurrentTime' = End(0) /\ Turn(0) = TickLength
    BY TickWheel DEF Turn
  <2>2. QED
    BY <1>1, <2>1, FallingTime
<1>6. QED
  BY <1>3, <1>4, <1>5

(* Every ring that it reaches takes it.                                    *)
LEMMA EachTakes ==
  ASSUME WheelInv, NEW t \in Timer, mExpireTime[t] \in Nat,
         NEW q \in Ring, NEW s \in Chapter(q), Waits(t, q, s), Falls(q, s),
         NEW p \in 1..(q - 1), \A k \in (p + 1)..(q - 1) : UnderHand(k, t)
  PROVE  Takes(p, t) /\ End(p) = End(0)
<1>1. RingCount \in Nat /\ q \in 1..RingCount /\ Ring = 1..RingCount
  BY RingsAssumption DEF Ring
<1>2. PICK e, E : e = mExpireTime[t] /\ E = End(0) /\ E \in Nat /\ e \in Nat
  <2>1. 0 \in 0..RingCount
    BY <1>1
  <2>2. End(0) \in Nat
    BY <2>1, Nested
  <2>3. QED
    BY <2>2
<1>3. ASSUME NEW k \in 1..(q - 1)
      PROVE  /\ k \in Ring /\ End(k) = E /\ Ticks(k) /\ AtEnd(k) /\ HandAfter(k) = 0
             /\ Turn(k) \in Nat /\ Turn(k) > 0 /\ \E m \in Int : E = Turn(k) * m
             /\ Takes(k, t) <=> e < E + Turn(k)
  <2>1. k \in Ring /\ k \in 0..(q - 1) /\ k \in 0..RingCount /\ k # 0
        /\ \A j \in 1..(k - 1) : j \in 1..(q - 1)
    BY <1>1
  <2>2. End(k) = E
    BY <1>2, <2>1, EndTogether DEF Falls
  <2>3. Ticks(k) /\ AtEnd(k)
    BY <2>1 DEF Falls, Ticks
  <2>4. EndTime(k) = End(k) /\ Turn(k) = mTimeDuration[k]
    BY <2>1 DEF End, EndTime, Begin, Turn
  <2>5. QED
    BY <1>2, <2>1, <2>2, <2>3, <2>4, Turns, TurnMultiple DEF HandAfter, Takes
<1> DEFINE Bad == {k \in 1..(q - 1) : (\A j \in (k + 1)..(q - 1) : UnderHand(j, t)) /\ ~Takes(k, t)}
<1>4. Bad = {}
  <2>1. SUFFICES ASSUME Bad # {} PROVE FALSE
    OBVIOUS
  <2>2. Bad \subseteq 0..q /\ q \in Nat
    BY <1>1
  <2>3. PICK m \in Bad : \A k \in Bad : k <= m
    BY <2>1, <2>2, GreatestMember
  <2>4. /\ m \in 1..(q - 1) /\ ~Takes(m, t)
        /\ \A j \in (m + 1)..(q - 1) : UnderHand(j, t)
    OBVIOUS
  <2>5. CASE m = q - 1
    <3>1. q # 1
      BY <1>1, <2>4
    <3>2. e < E + Turn(q - 1)
      BY <1>2, <3>1, FallingTime
    <3>3. QED
      BY <1>3, <2>4, <2>5, <3>2
  <2>6. CASE m # q - 1
    <3>1. PICK n : n = m + 1
      OBVIOUS
    <3>2. /\ n \in 1..(q - 1) /\ n \in (m + 1)..(q - 1) /\ n - 1 = m /\ ~(n <= m)
          /\ \A j \in (n + 1)..(q - 1) : j \in (m + 1)..(q - 1)
      BY ONLY <1>1, <2>4, <2>6, <3>1
    <3>3. Takes(n, t)
      BY <2>3, <2>4, <3>2
    <3>4. e < E + Turn(n)
      BY <1>3, <3>2, <3>3
    <3>5. slotIndex(n, e) = 0
      BY <1>2, <1>3, <2>4, <3>2 DEF UnderHand
    <3>6. e < (E + Turn(m) * 0) + Turn(m)
      BY <1>2, <1>3, <3>2, <3>4, <3>5, SlotOf
    <3>7. Turn(m) \in Nat /\ (Takes(m, t) <=> e < E + Turn(m))
      BY <1>3, <2>4
    <3>8. Turn(m) * 0 = 0
      BY ONLY <3>7, SMT
    <3>9. e < E + Turn(m)
      BY ONLY <1>2, <3>6, <3>7, <3>8
    <3>10. QED
      BY <2>4, <3>7, <3>9
  <2>7. QED
    BY <2>5, <2>6
<1>5. QED
  BY <1>2, <1>3, <1>4

(* It comes to rest in the first ring where its slot is not under the hand,*)
(* or goes off.                                                            *)
LEMMA FallsDown ==
  ASSUME WheelInv, Tick, NEW t \in Timer, mExpireTime[t] \in Nat,
         NEW q \in Ring, q # 1, NEW s \in Chapter(q), Lies(t, q, s), Waits(t, q, s), Falls(q, s)
  PROVE  \/ /\ t \in triggered' /\ Nowhere(t)'
            /\ t \in ahead => /\ GetCurrentTime' <= mExpireTime[t]
                              /\ mExpireTime[t] < GetCurrentTime' + TickLength
         \/ /\ t \notin triggered'
            /\ \E r \in Ring : \E i \in Chapter(r) : Lies(t, r, i)' /\ Waits(t, r, i)'
<1>1. RingCount \in Nat /\ q \in 1..RingCount /\ Ring = 1..RingCount /\ 1 \in Ring
      /\ 1 \in 1..(q - 1) /\ 1 - 1 = 0
  BY RingsAssumption DEF Ring
<1>2. PICK e, E : e = mExpireTime[t] /\ E = End(0) /\ E \in Nat /\ e \in Nat
  <2>1. 0 \in 0..RingCount
    BY <1>1
  <2>2. End(0) \in Nat
    BY <2>1, Nested
  <2>3. QED
    BY <2>2
<1>3. ASSUME NEW r \in Ring
      PROVE  t \in Given(r) <=> r < q /\ \A p \in (r + 1)..(q - 1) : UnderHand(p, t)
  <2>1. ASSUME r < q, \A p \in (r + 1)..(q - 1) : UnderHand(p, t)
        PROVE  \A p \in r..(q - 1) : Takes(p, t)
    <3>1. ASSUME NEW p \in r..(q - 1) PROVE Takes(p, t)
      <4>1. p \in 1..(q - 1) /\ \A k \in (p + 1)..(q - 1) : k \in (r + 1)..(q - 1)
        BY <1>1
      <4>2. QED
        BY <2>1, <4>1, EachTakes
    <3>2. QED
      BY <3>1
  <2>2. QED
    BY <2>1, GivenIs
<1>4. ASSUME NEW k \in 1..(q - 1)
      PROVE  k \in Ring /\ Ticks(k) /\ AtEnd(k) /\ HandAfter(k) = 0 /\ HandNow(k) = 0
             /\ k < q /\ Ticks(k + 1)
  <2>1. k \in Ring /\ k < q /\ \A j \in 1..(k - 1) : j \in 1..(q - 1)
    BY <1>1
  <2>2. Ticks(k) /\ AtEnd(k)
    BY <2>1 DEF Falls, Ticks
  <2>3. QED
    BY <2>1, <2>2, TicksNext DEF HandAfter, HandNow
<1>5. ASSUME NEW r \in Ring, NEW i \in Chapter(r), t \in mRing'[r][i]
      PROVE  r \in 1..(q - 1) /\ t \in Given(r) /\ slotIndex(r, e) = i /\ ~UnderHand(r, t)
  <2>1. (t \in mRing[r][i] \/ (t \in Given(r) /\ slotIndex(r, e) = i)) /\ ~Falls(r, i)
    BY <1>2, <1>5, AfterTick
  <2>2. t \notin mRing[r][i]
    BY <2>1 DEF Lies
  <2>3. r < q /\ r \in 1..(q - 1)
    BY <1>1, <1>3, <2>1, <2>2
  <2>4. Ticks(r)
    BY <1>4, <2>3
  <2>5. i # HandAfter(r)
    BY <2>1, <2>4 DEF Falls
  <2>6. QED
    BY <1>2, <2>1, <2>2, <2>3, <2>5 DEF UnderHand
<1>6. t \in triggered' <=> t \in Given(1) /\ UnderHand(1, t)
  <2>1. HandAfter(1) \in Chapter(1)
    <3>1. HandAfter(1) = 0
      BY <1>1, <1>4
    <3>2. mCapterCount[1] \in Nat /\ mCapterCount[1] > 0
      BY <1>1, Turns
    <3>3. QED
      BY <3>1, <3>2 DEF Chapter
  <2>2. t \notin mRing[1][HandAfter(1)]
    BY <1>1, <2>1 DEF Lies
  <2>3. QED
    BY <2>2, AfterTick
<1>7. t \in ahead => E <= e
  BY <1>2, FallingTime
<1>8. CASE \A p \in 1..(q - 1) : UnderHand(p, t)
  <2>1. t \in Given(1) /\ UnderHand(1, t)
    <3>1. 1 < q /\ \A p \in (1 + 1)..(q - 1) : p \in 1..(q - 1)
      BY <1>1
    <3>2. QED
      BY <1>1, <1>3, <1>8, <3>1
  <2>2. Nowhere(t)'
    <3>1. \A r \in Ring : \A i \in Chapter(r) : t \notin mRing'[r][i]
      BY <1>5, <1>8
    <3>2. QED
      BY <3>1 DEF Nowhere, Chapter, Ring
  <2>3. e < E + TickLength
    <3>1. \A k \in (1 + 1)..(q - 1) : k \in 1..(q - 1)
      BY <1>1
    <3>2. Takes(1, t) /\ End(1) = E
      BY <1>1, <1>2, <1>8, <3>1, EachTakes
    <3>3. EndTime(1) = End(1) /\ Turn(1) = mTimeDuration[1] /\ Turn(0) = TickLength
      BY DEF End, EndTime, Begin, Turn
    <3>4. e < E + Turn(1)
      BY <1>2, <3>2, <3>3 DEF Takes
    <3>5. slotIndex(1, e) = 0
      BY <1>1, <1>2, <1>4, <1>8 DEF UnderHand
    <3>6. \E m \in Int : E = Turn(1) * m
      <4>1. 1 \in 0..RingCount
        BY <1>1
      <4>2. QED
        BY <3>2, <4>1, TurnMultiple
    <3>7. e < (E + Turn(0) * 0) + Turn(0)
      BY <1>1, <1>2, <3>4, <3>5, <3>6, SlotOf
    <3>8. TickLength \in Nat /\ TickLength * 0 = 0
      BY RingsAssumption, SMT
    <3>9. QED
      BY <1>2, <3>3, <3>7, <3>8
  <2>4. GetCurrentTime' = E
    BY <1>2, TickWheel
  <2>5. QED
    BY <1>2, <1>6, <1>7, <2>1, <2>2, <2>3, <2>4
<1>9. CASE ~\A p \in 1..(q - 1) : UnderHand(p, t)
  <2> DEFINE Stops == {p \in 1..(q - 1) : ~UnderHand(p, t)}
  <2>1. Stops \subseteq 0..q /\ q \in Nat /\ Stops # {}
    BY <1>1, <1>9
  <2>2. PICK r \in Stops : \A k \in Stops : k <= r
    BY <2>1, GreatestMember
  <2>3. r \in 1..(q - 1) /\ ~UnderHand(r, t) /\ \A k \in 1..(q - 1) : k > r => UnderHand(k, t)
    BY <1>1, <2>2
  <2>4. r \in Ring /\ HandAfter(r) = 0 /\ HandNow(r) = 0 /\ r < q /\ r \in 0..RingCount
        /\ Ticks(r + 1)
    BY <1>1, <1>4, <2>3
  <2>5. \A k \in (r + 1)..(q - 1) : UnderHand(k, t)
    <3>1. \A k \in (r + 1)..(q - 1) : k \in 1..(q - 1) /\ k > r
      BY <1>1, <2>3
    <3>2. QED
      BY <2>3, <3>1
  <2>6. PICK i : i = slotIndex(r, e)
    OBVIOUS
  <2>7. i \in Chapter(r) /\ i \in Nat /\ i # 0 /\ t \in Given(r)
    BY <1>2, <1>3, <2>3, <2>4, <2>5, <2>6, SlotIs DEF UnderHand
  <2>8. Lies(t, r, i)'
    <3>1. t \in mRing'[r][i]
      <4>1. ~Falls(r, i)
        BY <2>4, <2>7 DEF Falls
      <4>2. QED
        BY <1>2, <2>4, <2>6, <2>7, <4>1, AfterTick
    <3>2. ASSUME NEW k \in Ring, NEW j \in Chapter(k), t \in mRing'[k][j] PROVE k = r /\ j = i
      <4>1. k \in 1..(q - 1) /\ t \in Given(k) /\ slotIndex(k, e) = j /\ ~UnderHand(k, t)
        BY <1>5, <3>2
      <4>2. ~(k > r)
        BY <2>3, <4>1
      <4>3. ~(k < r)
        <5>1. \A p \in (k + 1)..(q - 1) : UnderHand(p, t)
          BY <1>3, <3>2, <4>1
        <5>2. k < r => r \in (k + 1)..(q - 1)
          BY <1>1, <2>3, <4>1
        <5>3. QED
          BY <2>3, <5>1, <5>2
      <4>4. k = r
        BY <1>1, <2>3, <4>1, <4>2, <4>3
      <4>5. QED
        BY <2>6, <4>1, <4>4
    <3>3. \A k \in Ring : \A j \in Chapter(k) : t \in mRing'[k][j] <=> k = r /\ j = i
      BY <2>4, <2>7, <3>1, <3>2
    <3>4. QED
      BY <3>3 DEF Lies, Chapter, Ring
  <2>9. t \notin triggered'
    <3>1. CASE r = 1
      BY <1>6, <2>3, <3>1
    <3>2. CASE r # 1
      <4>1. r \in (1 + 1)..(q - 1)
        BY <1>1, <2>3, <3>2
      <4>2. t \notin Given(1)
        BY <1>1, <1>3, <2>3, <4>1
      <4>3. QED
        BY <1>6, <4>2
    <3>3. QED
      BY <3>1, <3>2
  <2>10. Waits(t, r, i)'
    <3>1. mCurrentHand'[r] = 0 /\ i > 0
      BY <2>4, <2>7, TickWheel
    <3>2. Takes(r, t) /\ End(r) = E
      BY <1>2, <2>3, <2>5, EachTakes
    <3>3. (Begin(r)') = E
      BY <2>4, <3>2, TickWheel DEF BeginAfter
    <3>4. e < E + Turn(r)
      <4>1. EndTime(r) = End(r) /\ Turn(r) = mTimeDuration[r]
        <5>1. r # 0
          BY <2>3
        <5>2. QED
          BY <5>1 DEF End, EndTime, Begin, Turn
      <4>2. QED
        BY <1>2, <3>2, <4>1 DEF Takes
    <3>5. \E m \in Int : E = Turn(r) * m
      BY <2>4, <3>2, TurnMultiple
    <3>6. /\ E <= e => E + Turn(r - 1) * i <= e
          /\ e < (E + Turn(r - 1) * i) + Turn(r - 1)
      BY <1>2, <2>4, <2>6, <3>4, <3>5, SlotOf
    <3>7. mExpireTime'[t] = e /\ ahead' = ahead
      BY <1>2 DEF Tick, timerVars
    <3>8. (SlotBegin(r, i)') = E + Turn(r - 1) * i /\ (Turn(r - 1)') = Turn(r - 1)
      BY <3>3 DEF SlotBegin, Turn
    <3>9. QED
      BY <1>7, <3>1, <3>6, <3>7, <3>8 DEF Waits
  <2>11. QED
    BY <2>4, <2>7, <2>8, <2>9, <2>10
<1>10. QED
  BY <1>8, <1>9

-----------------------------------------------------------------------------
(* The invariant.                                                          *)
EngineTyped ==
  /\ mExpireTime \in [Timer -> Nat] /\ mInterval \in [Timer -> Nat]
  /\ ringOf \in [Timer -> 0..(RingCount + 2)] /\ diff2Current \in [Timer -> BOOLEAN]
  /\ triggered \subseteq pending /\ pending \subseteq Timer /\ ahead \subseteq pending
  /\ mRing \in [Ring -> UNION {[Chapter(r) -> SUBSET Timer] : r \in Ring}]
  /\ \A r \in Ring : mRing[r] \in [Chapter(r) -> SUBSET Timer]

AdderOf(t) ==
  /\ ringOf[t] # notAdding => t \notin pending
  /\ ringOf[t] = RingCount + 2 /\ diff2Current[t] => mExpireTime[t] < GetCurrentTime

PlaceOf(t) ==
  /\ t \in pending \ triggered =>
       \E r \in Ring : \E s \in Chapter(r) : Lies(t, r, s) /\ Waits(t, r, s)
  /\ t \notin pending \/ t \in triggered => Nowhere(t)
  /\ t \in triggered \cap ahead =>
       GetCurrentTime <= mExpireTime[t] /\ mExpireTime[t] < GetCurrentTime + TickLength

EngineInv == WheelInv /\ EngineTyped /\ \A t \in Timer : AdderOf(t) /\ PlaceOf(t)

(* Where Insert puts a timer it waits.                                     *)
LEMMA InsertWaits ==
  ASSUME WheelInv, NEW r \in Ring, NEW time \in Nat, CanInsert(r, time),
         NEW s, s = slotIndex(r, time)
  PROVE  /\ s \in Chapter(r) /\ s > mCurrentHand[r]
         /\ time < SlotBegin(r, s) + Turn(r - 1)
         /\ time >= GetCurrentTime + TickLength => SlotBegin(r, s) <= time
<1>1. RingCount \in Nat /\ Ring = 1..RingCount /\ r # 0 /\ r \in 0..RingCount
      /\ 0 \in 0..RingCount /\ 0 <= r
  BY RingsAssumption DEF Ring
<1>2. s \in Chapter(r) /\ s > mCurrentHand[r] /\ time < End(r)
  <2>1. End(r) = EndTime(r)
    BY <1>1 DEF End, EndTime, Begin, Turn
  <2>2. QED
    BY <2>1, SlotIs DEF CanInsert
<1>3. Begin(r) \in Nat /\ \E m \in Int : Begin(r) = Turn(r) * m
  BY <1>1, Nested, TurnMultiple
<1>4. time < Begin(r) + Turn(r)
  BY <1>2 DEF End
<1>5. /\ Begin(r) <= time => SlotBegin(r, s) <= time
      /\ time < SlotBegin(r, s) + Turn(r - 1)
  BY <1>3, <1>4, SlotOf DEF SlotBegin
<1>6. time >= GetCurrentTime + TickLength => Begin(r) <= time
  <2>1. Begin(r) <= Begin(0) /\ Begin(0) \in Nat /\ Begin(0) = GetCurrentTime
    BY <1>1, Nested DEF Begin
  <2>2. TickLength \in Nat
    BY RingsAssumption
  <2>3. QED
    BY <1>3, <2>1, <2>2
<1>7. QED
  BY <1>2, <1>5, <1>6

(* A late timer waits in the slot of the next tick.                        *)
LEMMA NextSlotIs ==
  ASSUME WheelInv
  PROVE  NextSlot \in Chapter(1) /\ (NextSlot > mCurrentHand[1] \/ (NextSlot = 0 /\ AtEnd(1)))
<1>1. PICK h, c : h = mCurrentHand[1] /\ c = mCapterCount[1]
  OBVIOUS
<1>2. h \in Nat /\ c \in Nat /\ c > 0 /\ h < c
  <2>1. 1 \in Ring
    BY RingsAssumption DEF Ring
  <2>2. QED
    BY <1>1, <2>1, Turns DEF WheelInv
<1>3. CASE h = c - 1
  <2>1. c * 1 = c /\ h + 1 = c /\ c * 1 <= c /\ c < c * 1 + c /\ 1 \in Int
    BY ONLY <1>2, <1>3, SMT
  <2>2. c % c = c - c * 1
    BY ONLY <1>2, <2>1, DivisionIs
  <2>3. NextSlot = 0
    BY <1>1, <1>2, <2>1, <2>2 DEF NextSlot
  <2>4. QED
    BY <1>1, <1>2, <1>3, <2>3 DEF AtEnd, Chapter
<1>4. CASE h # c - 1
  <2>1. c * 0 = 0 /\ c * 0 <= h + 1 /\ h + 1 < c * 0 + c /\ 0 \in Int /\ h + 1 \in Nat
    BY ONLY <1>2, <1>4, SMT
  <2>2. (h + 1) % c = (h + 1) - c * 0
    BY ONLY <1>2, <2>1, DivisionIs
  <2>3. NextSlot = h + 1
    BY <1>1, <1>2, <2>1, <2>2 DEF NextSlot
  <2>4. h + 1 \in 0..(c - 1) /\ h + 1 > h
    BY ONLY <1>2, <2>1, <1>4
  <2>5. QED
    BY <1>1, <2>3, <2>4 DEF Chapter
<1>5. QED
  BY <1>3, <1>4

(* Without a tick the rings stay as they are.                              *)
LEMMA WheelSame ==
  ASSUME WheelInv, mCurrentHand' = mCurrentHand, mStartTime' = mStartTime
  PROVE  /\ WheelInv' /\ GetCurrentTime' = GetCurrentTime
         /\ \A r, s : (SlotBegin(r, s)') = SlotBegin(r, s)
         /\ \A r : (Turn(r)') = Turn(r) /\ AtEnd(r)' = AtEnd(r)
<1>1. GetCurrentTime' = GetCurrentTime
  BY DEF GetCurrentTime
<1>2. \A r : (Turn(r)') = Turn(r) /\ (Begin(r)') = Begin(r) /\ AtEnd(r)' = AtEnd(r)
  BY <1>1 DEF Turn, Begin, AtEnd
<1>3. WheelInv'
  BY <1>2 DEF WheelInv, Ring
<1>4. QED
  BY <1>1, <1>2, <1>3 DEF SlotBegin

(* And a timer that nothing is done to waits where it did.                 *)
LEMMA PlaceSame ==
  ASSUME WheelInv, mCurrentHand' = mCurrentHand, mStartTime' = mStartTime,
         NEW u \in Timer, PlaceOf(u), mExpireTime'[u] = mExpireTime[u],
         u \in ahead' <=> u \in ahead, u \in pending' <=> u \in pending,
         u \in triggered' <=> u \in triggered,
         \A q \in Ring : \A i \in Chapter(q) : u \in mRing'[q][i] <=> u \in mRing[q][i]
  PROVE  PlaceOf(u)'
<1>1. ASSUME NEW r, NEW s, Waits(u, r, s) PROVE Waits(u, r, s)'
  BY <1>1, WheelSame DEF Waits
<1>2. ASSUME NEW r, NEW s, Lies(u, r, s) PROVE Lies(u, r, s)'
  BY <1>2 DEF Lies, Ring, Chapter
<1>3. Nowhere(u) => Nowhere(u)'
  BY DEF Nowhere, Ring, Chapter
<1>4. u \in pending' \ triggered' =>
        \E r \in Ring : \E s \in Chapter(r) : Lies(u, r, s)' /\ Waits(u, r, s)'
  BY <1>1, <1>2 DEF PlaceOf
<1>5. u \notin pending' \/ u \in triggered' => Nowhere(u)'
  BY <1>3 DEF PlaceOf
<1>6. u \in triggered' \cap ahead' =>
        GetCurrentTime' <= mExpireTime'[u] /\ mExpireTime'[u] < GetCurrentTime' + TickLength
  BY WheelSame DEF PlaceOf
<1>7. QED
  BY <1>4, <1>5, <1>6 DEF PlaceOf, Ring, Chapter

LEMMA AdderSame ==
  ASSUME WheelInv, mCurrentHand' = mCurrentHand, mStartTime' = mStartTime,
         NEW u \in Timer, AdderOf(u), mExpireTime'[u] = mExpireTime[u],
         ringOf'[u] = ringOf[u], diff2Current'[u] = diff2Current[u],
         u \in pending' => u \in pending
  PROVE  AdderOf(u)'
BY WheelSame DEF AdderOf

(* A timer that is put in a slot lies there and nowhere else.              *)
LEMMA PutLies ==
  ASSUME NEW t \in Timer, Nowhere(t), NEW r \in Ring, NEW s \in Chapter(r),
         \A q \in Ring : \A i \in Chapter(q) :
           mRing'[q][i] = IF q = r /\ i = s THEN mRing[q][i] \cup {t} ELSE mRing[q][i]
  PROVE  Lies(t, r, s)'
<1>1. ASSUME NEW q \in Ring, NEW i \in Chapter(q)
      PROVE  t \in mRing'[q][i] <=> q = r /\ i = s
  <2>1. mRing'[q][i] = IF q = r /\ i = s THEN mRing[q][i] \cup {t} ELSE mRing[q][i]
    OBVIOUS
  <2>2. t \notin mRing[q][i]
    BY DEF Nowhere
  <2>3. QED
    BY ONLY <2>1, <2>2
<1>2. QED
  BY <1>1 DEF Lies, Ring, Chapter

LEMMA Insert2Puts ==
  ASSUME EngineTyped, NEW t \in Timer, NEW r \in Ring, NEW s \in Chapter(r), NEW time,
         Insert2(t, r, s, time)
  PROVE  /\ \A q \in Ring : \A i \in Chapter(q) :
              mRing'[q][i] = IF q = r /\ i = s THEN mRing[q][i] \cup {t} ELSE mRing[q][i]
         /\ mRing' \in [Ring -> UNION {[Chapter(q) -> SUBSET Timer] : q \in Ring}]
         /\ \A q \in Ring : mRing'[q] \in [Chapter(q) -> SUBSET Timer]
<1>1. mRing' = [mRing EXCEPT ![r] = [mRing[r] EXCEPT ![s] = mRing[r][s] \cup {t}]]
  BY DEF Insert2
<1>2. mRing[r] \in [Chapter(r) -> SUBSET Timer] /\ mRing[r][s] \cup {t} \in SUBSET Timer
  BY DEF EngineTyped
<1>3. [mRing[r] EXCEPT ![s] = mRing[r][s] \cup {t}] \in [Chapter(r) -> SUBSET Timer]
  BY <1>2
<1>4. ASSUME NEW q \in Ring
      PROVE  mRing'[q] = IF q = r THEN [mRing[r] EXCEPT ![s] = mRing[r][s] \cup {t}] ELSE mRing[q]
  BY <1>1 DEF EngineTyped
<1>5. \A q \in Ring : mRing'[q] \in [Chapter(q) -> SUBSET Timer]
  BY <1>3, <1>4 DEF EngineTyped
<1>6. ASSUME NEW q \in Ring, NEW i \in Chapter(q)
      PROVE  mRing'[q][i] = IF q = r /\ i = s THEN mRing[q][i] \cup {t} ELSE mRing[q][i]
  BY <1>2, <1>4
<1>7. mRing' \in [Ring -> UNION {[Chapter(q) -> SUBSET Timer] : q \in Ring}]
  <2> DEFINE S == UNION {[Chapter(q) -> SUBSET Timer] : q \in Ring}
  <2>1. [mRing[r] EXCEPT ![s] = mRing[r][s] \cup {t}] \in S
    BY <1>3
  <2>2. mRing \in [Ring -> S]
    BY DEF EngineTyped
  <2> HIDE DEF S
  <2>3. mRing' \in [Ring -> S]
    BY <1>1, <2>1, <2>2
  <2>4. QED
    BY <2>3 DEF S
<1>8. QED
  BY <1>5, <1>6, <1>7

(* The engine starts with empty rings.                                     *)
LEMMA EngineStart == EngineInit => EngineInv
<1> SUFFICES ASSUME EngineInit PROVE EngineInv
  OBVIOUS
<1>1. PICK nowTime \in Nat :
        /\ mCurrentHand = [r \in Ring |-> slotIndex(r, nowTime)]
        /\ mStartTime = [r \in Ring |-> (nowTime \div mTimeDuration[r]) * mTimeDuration[r]]
  BY TimesAssumption DEF EngineInit
<1>2. WheelInv
  BY <1>1, WheelStart
<1>3. RingCount \in Nat /\ notAdding = 0 /\ 0 \in 0..(RingCount + 2) /\ 0 # RingCount + 2
  BY RingsAssumption DEF notAdding
<1>4. ASSUME NEW r \in Ring PROVE mRing[r] = [s \in Chapter(r) |-> {}]
  BY DEF EngineInit
<1>5. \A r \in Ring : mRing[r] \in [Chapter(r) -> SUBSET Timer]
  BY <1>4
<1>6. mRing \in [Ring -> UNION {[Chapter(r) -> SUBSET Timer] : r \in Ring}]
  <2> DEFINE S == UNION {[Chapter(r) -> SUBSET Timer] : r \in Ring}
  <2>1. \A r \in Ring : mRing[r] \in S
    BY <1>5
  <2> HIDE DEF S
  <2>2. mRing = [r \in Ring |-> mRing[r]]
    BY DEF EngineInit
  <2>3. mRing \in [Ring -> S]
    BY <2>1, <2>2
  <2>4. QED
    BY <2>3 DEF S
<1>7. EngineTyped
  <2>1. /\ mExpireTime \in [Timer -> Nat] /\ mInterval \in [Timer -> Nat]
        /\ ringOf \in [Timer -> 0..(RingCount + 2)] /\ diff2Current \in [Timer -> BOOLEAN]
    BY <1>3 DEF EngineInit
  <2>2. triggered \subseteq pending /\ pending \subseteq Timer /\ ahead \subseteq pending
    BY DEF EngineInit
  <2>3. QED
    BY <1>5, <1>6, <2>1, <2>2 DEF EngineTyped
<1>8. ASSUME NEW t \in Timer PROVE AdderOf(t) /\ PlaceOf(t)
  <2>1. ringOf[t] = notAdding /\ t \notin pending /\ t \notin triggered
    BY DEF EngineInit
  <2>2. Nowhere(t)
    BY <1>4 DEF Nowhere
  <2>3. QED
    BY <1>3, <2>1, <2>2 DEF AdderOf, PlaceOf
<1>9. QED
  BY <1>2, <1>7, <1>8 DEF EngineInv

(* A new time is set for a timer that is nowhere.                          *)
LEMMA ExpireKeeps ==
  ASSUME EngineInv, NEW t \in Timer, NEW time \in Nat, NEW interval \in Intervals,
         Expire(t, time, interval)
  PROVE  EngineInv'
<1>1. WheelInv /\ EngineTyped /\ \A u \in Timer : AdderOf(u) /\ PlaceOf(u)
  BY DEF EngineInv
<1>2. /\ mCurrentHand' = mCurrentHand /\ mStartTime' = mStartTime /\ mRing' = mRing
      /\ diff2Current' = diff2Current
      /\ triggered' = triggered /\ pending' = pending /\ ahead' = ahead
  BY DEF Expire, wheelVars
<1>3. /\ mExpireTime' = [mExpireTime EXCEPT ![t] = time] /\ ringOf' = [ringOf EXCEPT ![t] = 1]
      /\ mInterval' = [mInterval EXCEPT ![t] = interval]
      /\ t \notin pending
  BY DEF Expire
<1>4. /\ RingCount \in Nat /\ RingCount > 0 /\ 1 \in 0..(RingCount + 2) /\ 1 # RingCount + 2
      /\ interval \in Nat
  BY RingsAssumption, TimesAssumption
<1>5. EngineTyped'
  <2>1. /\ mExpireTime' \in [Timer -> Nat] /\ mInterval' \in [Timer -> Nat]
        /\ ringOf' \in [Timer -> 0..(RingCount + 2)]
    BY <1>1, <1>3, <1>4 DEF EngineTyped
  <2>2. QED
    BY <1>1, <1>2, <2>1 DEF EngineTyped, Ring, Chapter
<1>6. ASSUME NEW u \in Timer PROVE AdderOf(u)' /\ PlaceOf(u)'
  <2>1. CASE u = t
    <3>1. ringOf'[t] = 1 /\ t \notin pending' /\ t \notin triggered' /\ Nowhere(t)
      BY <1>1, <1>2, <1>3 DEF EngineTyped, PlaceOf
    <3>2. Nowhere(t)'
      BY <1>2, <3>1 DEF Nowhere, Ring, Chapter
    <3>3. QED
      BY <1>4, <2>1, <3>1, <3>2 DEF AdderOf, PlaceOf
  <2>2. CASE u # t
    <3>1. mExpireTime'[u] = mExpireTime[u] /\ ringOf'[u] = ringOf[u]
      BY <1>1, <1>3, <2>2 DEF EngineTyped
    <3>2. QED
      BY <1>1, <1>2, <3>1, PlaceSame, AdderSame
  <2>3. QED
    BY <2>1, <2>2
<1>7. WheelInv'
  BY <1>1, <1>2, WheelSame
<1>8. QED
  BY <1>5, <1>6, <1>7 DEF EngineInv

(* AddTimer puts the timer in a slot where it waits.                       *)
LEMMA AddKeeps ==
  ASSUME EngineInv, NEW t \in Timer, NEW r \in Ring, NEW s \in Chapter(r),
         ringOf[t] # notAdding, Insert2(t, r, s, mExpireTime[t]),
         ringOf' = [ringOf EXCEPT ![t] = notAdding],
         UNCHANGED <<mCurrentHand, mStartTime, timerVars, diff2Current, triggered>>,
         Waits(t, r, s)'
  PROVE  EngineInv'
<1>1. WheelInv /\ EngineTyped /\ \A u \in Timer : AdderOf(u) /\ PlaceOf(u)
  BY DEF EngineInv
<1>2. /\ mCurrentHand' = mCurrentHand /\ mStartTime' = mStartTime
      /\ mExpireTime' = mExpireTime /\ mInterval' = mInterval
      /\ diff2Current' = diff2Current /\ triggered' = triggered
  BY DEF timerVars
<1>3. t \notin pending /\ t \notin triggered /\ Nowhere(t)
  BY <1>1 DEF AdderOf, PlaceOf, EngineTyped
<1>4. /\ pending' = pending \cup {t}
      /\ ahead' \subseteq ahead \cup {t} /\ ahead \subseteq ahead'
  BY DEF Insert2
<1>5. /\ \A q \in Ring : \A i \in Chapter(q) :
           mRing'[q][i] = IF q = r /\ i = s THEN mRing[q][i] \cup {t} ELSE mRing[q][i]
      /\ mRing' \in [Ring -> UNION {[Chapter(q) -> SUBSET Timer] : q \in Ring}]
      /\ \A q \in Ring : mRing'[q] \in [Chapter(q) -> SUBSET Timer]
  BY <1>1, Insert2Puts
<1>6. EngineTyped'
  <2>1. ringOf' \in [Timer -> 0..(RingCount + 2)]
    <3>1. notAdding \in 0..(RingCount + 2)
      BY RingsAssumption DEF notAdding
    <3>2. QED
      BY <1>1, <3>1 DEF EngineTyped
  <2>2. triggered' \subseteq pending' /\ pending' \subseteq Timer /\ ahead' \subseteq pending'
    BY <1>1, <1>2, <1>4 DEF EngineTyped
  <2>3. /\ mExpireTime' \in [Timer -> Nat] /\ mInterval' \in [Timer -> Nat]
        /\ diff2Current' \in [Timer -> BOOLEAN]
    BY <1>1, <1>2 DEF EngineTyped
  <2>4. QED
    BY <1>5, <2>1, <2>2, <2>3 DEF EngineTyped, Ring, Chapter
<1>7. ASSUME NEW u \in Timer PROVE AdderOf(u)' /\ PlaceOf(u)'
  <2>1. CASE u = t
    <3>1. Lies(t, r, s)'
      BY <1>3, <1>5, PutLies
    <3>2. PlaceOf(t)'
      BY <1>2, <1>3, <1>4, <3>1 DEF PlaceOf, Ring, Chapter
    <3>3. ringOf'[t] = notAdding /\ notAdding # RingCount + 2
      BY <1>1, RingsAssumption DEF EngineTyped, notAdding
    <3>4. QED
      BY <2>1, <3>2, <3>3 DEF AdderOf
  <2>2. CASE u # t
    <3>1. \A q \in Ring : \A i \in Chapter(q) : u \in mRing'[q][i] <=> u \in mRing[q][i]
      <4>1. ASSUME NEW q \in Ring, NEW i \in Chapter(q)
            PROVE  u \in mRing'[q][i] <=> u \in mRing[q][i]
        <5>1. mRing'[q][i] = IF q = r /\ i = s THEN mRing[q][i] \cup {t} ELSE mRing[q][i]
          BY <1>5
        <5>2. QED
          BY ONLY <5>1, <2>2
      <4>2. QED
        BY <4>1
    <3>2. ringOf'[u] = ringOf[u]
      BY <1>1, <2>2 DEF EngineTyped
    <3>3. QED
      BY <1>1, <1>2, <1>4, <2>2, <3>1, <3>2, PlaceSame, AdderSame
  <2>3. QED
    BY <2>1, <2>2
<1>8. WheelInv'
  BY <1>1, <1>2, WheelSame
<1>9. QED
  BY <1>6, <1>7, <1>8 DEF EngineInv

LEMMA TryKeeps ==
  ASSUME EngineInv, NEW t \in Timer, TryRing(t)
  PROVE  EngineInv'
<1>1. WheelInv /\ EngineTyped /\ \A u \in Timer : AdderOf(u) /\ PlaceOf(u)
  BY DEF EngineInv
<1>2. /\ mCurrentHand' = mCurrentHand /\ mStartTime' = mStartTime
      /\ mExpireTime' = mExpireTime /\ mInterval' = mInterval
      /\ diff2Current' = diff2Current /\ triggered' = triggered
  BY DEF TryRing, timerVars
<1>3. RingCount \in Nat /\ Ring = 1..RingCount /\ ringOf[t] \in Ring /\ notAdding = 0
  BY RingsAssumption DEF TryRing, Ring, notAdding
<1>4. CASE CanInsert(ringOf[t], mExpireTime[t])
  <2>1. PICK r \in Ring : r = ringOf[t]
    BY <1>3
  <2>2. PICK s : s = slotIndex(r, mExpireTime[t])
    OBVIOUS
  <2>3. Insert2(t, r, s, mExpireTime[t]) /\ ringOf' = [ringOf EXCEPT ![t] = notAdding]
    BY <1>4, <2>1, <2>2 DEF TryRing
  <2>4. PICK e \in Nat : e = mExpireTime[t]
    BY <1>1 DEF EngineTyped
  <2>5. /\ s \in Chapter(r) /\ s > mCurrentHand[r]
        /\ e < SlotBegin(r, s) + Turn(r - 1)
        /\ e >= GetCurrentTime + TickLength => SlotBegin(r, s) <= e
    BY <1>1, <1>4, <2>1, <2>2, <2>4, InsertWaits
  <2>6. t \in ahead' => e >= GetCurrentTime + TickLength
    <3>1. t \notin ahead
      BY <1>1, <1>3 DEF AdderOf, EngineTyped
    <3>2. QED
      BY <2>3, <2>4, <3>1 DEF Insert2
  <2>7. Waits(t, r, s)'
    <3>1. (SlotBegin(r, s)') = SlotBegin(r, s) /\ (Turn(r - 1)') = Turn(r - 1)
      BY <1>1, <1>2, WheelSame
    <3>2. QED
      BY <1>2, <2>4, <2>5, <2>6, <3>1 DEF Waits
  <2>8. UNCHANGED <<mCurrentHand, mStartTime, timerVars, diff2Current, triggered>>
    BY DEF TryRing
  <2>9. ringOf[t] # notAdding
    BY <1>3
  <2>10. QED
    BY <2>3, <2>4, <2>5, <2>7, <2>8, <2>9, AddKeeps
<1>5. CASE ~CanInsert(ringOf[t], mExpireTime[t])
  <2>1. /\ ringOf' = [ringOf EXCEPT ![t] = ringOf[t] + 1]
        /\ mRing' = mRing /\ pending' = pending /\ ahead' = ahead
    BY <1>5 DEF TryRing
  <2>2. /\ ringOf[t] + 1 \in 0..(RingCount + 2) /\ ringOf[t] # notAdding
        /\ ringOf[t] + 1 # RingCount + 2
    BY <1>3
  <2>3. EngineTyped'
    <3>1. ringOf' \in [Timer -> 0..(RingCount + 2)]
      BY <1>1, <2>1, <2>2 DEF EngineTyped
    <3>2. QED
      BY <1>1, <1>2, <2>1, <3>1 DEF EngineTyped, Ring, Chapter
  <2>4. ASSUME NEW u \in Timer PROVE AdderOf(u)' /\ PlaceOf(u)'
    <3>1. PlaceOf(u)'
      BY <1>1, <1>2, <2>1, PlaceSame
    <3>2. CASE u = t
      <4>1. ringOf'[t] = ringOf[t] + 1
        BY <1>1, <2>1 DEF EngineTyped
      <4>2. t \notin pending'
        BY <1>1, <2>1, <2>2 DEF AdderOf
      <4>3. QED
        BY <2>2, <3>1, <3>2, <4>1, <4>2 DEF AdderOf
    <3>3. CASE u # t
      <4>1. ringOf'[u] = ringOf[u]
        BY <1>1, <2>1, <3>3 DEF EngineTyped
      <4>2. QED
        BY <1>1, <1>2, <2>1, <3>1, <4>1, AdderSame
    <3>4. QED
      BY <3>2, <3>3
  <2>5. WheelInv'
    BY <1>1, <1>2, WheelSame
  <2>6. QED
    BY <2>3, <2>4, <2>5 DEF EngineInv
<1>6. QED
  BY <1>4, <1>5

LEMMA ReadKeeps ==
  ASSUME EngineInv, NEW t \in Timer, ReadCurrent(t)
  PROVE  EngineInv'
<1>1. WheelInv /\ EngineTyped /\ \A u \in Timer : AdderOf(u) /\ PlaceOf(u)
  BY DEF EngineInv
<1>2. /\ mCurrentHand' = mCurrentHand /\ mStartTime' = mStartTime /\ mRing' = mRing
      /\ mExpireTime' = mExpireTime /\ mInterval' = mInterval
      /\ triggered' = triggered /\ pending' = pending /\ ahead' = ahead
  BY DEF ReadCurrent, wheelVars, timerVars
<1>3. /\ diff2Current' = [diff2Current EXCEPT ![t] = IsJustLate(mExpireTime[t])]
      /\ ringOf' = [ringOf EXCEPT ![t] = ringOf[t] + 1] /\ ringOf[t] = RingCount + 1
  BY DEF ReadCurrent
<1>4. RingCount \in Nat /\ ringOf[t] + 1 \in 0..(RingCount + 2) /\ ringOf[t] # notAdding
  BY <1>3, RingsAssumption DEF notAdding
<1>5. EngineTyped'
  <2>1. ringOf' \in [Timer -> 0..(RingCount + 2)]
    BY <1>1, <1>3, <1>4 DEF EngineTyped
  <2>2. IsJustLate(mExpireTime[t]) \in BOOLEAN
    BY DEF IsJustLate
  <2>3. diff2Current' \in [Timer -> BOOLEAN]
    BY <1>1, <1>3, <2>2, Zenon DEF EngineTyped
  <2>4. QED
    BY <1>1, <1>2, <2>1, <2>3 DEF EngineTyped, Ring, Chapter
<1>6. ASSUME NEW u \in Timer PROVE AdderOf(u)' /\ PlaceOf(u)'
  <2>1. PlaceOf(u)'
    BY <1>1, <1>2, PlaceSame
  <2>2. CASE u = t
    <3>1. t \notin pending'
      BY <1>1, <1>2, <1>4 DEF AdderOf
    <3>2. diff2Current'[t] = IsJustLate(mExpireTime[t])
      BY <1>1, <1>3, Zenon DEF EngineTyped
    <3>3. IsJustLate(mExpireTime[t]) => mExpireTime[t] < GetCurrentTime
      <4>1. PICK e, c : e = mExpireTime[t] /\ c = GetCurrentTime
        OBVIOUS
      <4>2. e \in Nat /\ c \in Nat /\ TickLength \in Nat
        <5>1. 0 \in 0..RingCount /\ Begin(0) = GetCurrentTime
          BY <1>4 DEF Begin
        <5>2. QED
          BY <1>1, <4>1, <5>1, Nested, RingsAssumption DEF EngineTyped
      <4>3. e - c \in (1 - TickLength)..(-1) => e < c
        BY ONLY <4>2
      <4>4. QED
        BY <4>1, <4>3 DEF IsJustLate
    <3>4. GetCurrentTime' = GetCurrentTime /\ mExpireTime'[t] = mExpireTime[t]
      BY <1>1, <1>2, WheelSame
    <3>5. diff2Current'[t] => mExpireTime'[t] < GetCurrentTime'
      BY <3>2, <3>3, <3>4
    <3>6. AdderOf(t)'
      BY <3>1, <3>5 DEF AdderOf
    <3>7. QED
      BY <2>1, <2>2, <3>6
  <2>3. CASE u # t
    <3>1. ringOf'[u] = ringOf[u] /\ diff2Current'[u] = diff2Current[u]
      BY <1>1, <1>3, <2>3 DEF EngineTyped
    <3>2. QED
      BY <1>1, <1>2, <2>1, <3>1, AdderSame
  <2>4. QED
    BY <2>2, <2>3
<1>7. WheelInv'
  BY <1>1, <1>2, WheelSame
<1>8. QED
  BY <1>5, <1>6, <1>7 DEF EngineInv

LEMMA LateKeeps ==
  ASSUME EngineInv, NEW t \in Timer, InsertLate(t)
  PROVE  EngineInv'
<1>1. WheelInv /\ EngineTyped /\ \A u \in Timer : AdderOf(u) /\ PlaceOf(u)
  BY DEF EngineInv
<1>2. /\ mCurrentHand' = mCurrentHand /\ mStartTime' = mStartTime
      /\ mExpireTime' = mExpireTime /\ mInterval' = mInterval
      /\ diff2Current' = diff2Current /\ triggered' = triggered
  BY DEF InsertLate, timerVars
<1>3. ringOf[t] = RingCount + 2 /\ ringOf' = [ringOf EXCEPT ![t] = notAdding]
  BY DEF InsertLate
<1>4. RingCount \in Nat /\ ringOf[t] # notAdding /\ notAdding \in 0..(RingCount + 2)
      /\ 1 \in Ring /\ 0 \in 0..RingCount
  BY <1>3, RingsAssumption DEF notAdding, Ring
<1>5. CASE diff2Current[t]
  <2>1. PICK s : s = NextSlot
    OBVIOUS
  <2>2. s \in Chapter(1) /\ (s > mCurrentHand[1] \/ (s = 0 /\ AtEnd(1)))
    BY <1>1, <2>1, NextSlotIs
  <2>3. Insert2(t, 1, s, mExpireTime[t])
    BY <1>5, <2>1 DEF InsertLate
  <2>4. t \notin ahead'
    <3>1. PICK e, c : e = mExpireTime[t] /\ c = GetCurrentTime
      OBVIOUS
    <3>2. e \in Nat /\ c \in Nat /\ TickLength \in Nat /\ e < c
      <4>1. Begin(0) = GetCurrentTime
        BY DEF Begin
      <4>2. QED
        BY <1>1, <1>3, <1>4, <1>5, <3>1, <4>1, Nested, RingsAssumption DEF EngineTyped, AdderOf
    <3>3. ~(e >= c + TickLength)
      BY ONLY <3>2
    <3>4. t \notin ahead
      BY <1>1, <1>4 DEF AdderOf, EngineTyped
    <3>5. QED
      BY <2>3, <3>1, <3>3, <3>4 DEF Insert2
  <2>5. Waits(t, 1, s)'
    <3>1. AtEnd(1)' = AtEnd(1)
      BY <1>1, <1>2, WheelSame
    <3>2. QED
      BY <1>2, <2>2, <2>4, <3>1 DEF Waits
  <2>6. UNCHANGED <<mCurrentHand, mStartTime, timerVars, diff2Current, triggered>>
    BY DEF InsertLate
  <2>7. QED
    BY <1>3, <1>4, <2>2, <2>3, <2>5, <2>6, AddKeeps
<1>6. CASE ~diff2Current[t]
  <2>1. mRing' = mRing /\ pending' = pending /\ ahead' = ahead
    BY <1>6 DEF InsertLate
  <2>2. EngineTyped'
    <3>1. ringOf' \in [Timer -> 0..(RingCount + 2)]
      BY <1>1, <1>3, <1>4 DEF EngineTyped
    <3>2. QED
      BY <1>1, <1>2, <2>1, <3>1 DEF EngineTyped, Ring, Chapter
  <2>3. ASSUME NEW u \in Timer PROVE AdderOf(u)' /\ PlaceOf(u)'
    <3>1. PlaceOf(u)'
      BY <1>1, <1>2, <2>1, PlaceSame
    <3>2. CASE u = t
      <4>1. ringOf'[t] = notAdding /\ notAdding # RingCount + 2
        BY <1>1, <1>3, <1>4 DEF EngineTyped, notAdding
      <4>2. QED
        BY <3>1, <3>2, <4>1 DEF AdderOf
    <3>3. CASE u # t
      <4>1. ringOf'[u] = ringOf[u]
        BY <1>1, <1>3, <3>3 DEF EngineTyped
      <4>2. QED
        BY <1>1, <1>2, <2>1, <3>1, <4>1, AdderSame
    <3>4. QED
      BY <3>2, <3>3
  <2>4. WheelInv'
    BY <1>1, <1>2, WheelSame
  <2>5. QED
    BY <2>2, <2>3, <2>4 DEF EngineInv
<1>7. QED
  BY <1>5, <1>6

LEMMA CancelKeeps ==
  ASSUME EngineInv, NEW t \in Timer, Cancel(t)
  PROVE  EngineInv'
<1>1. WheelInv /\ EngineTyped /\ \A u \in Timer : AdderOf(u) /\ PlaceOf(u)
  BY DEF EngineInv
<1>2. /\ mCurrentHand' = mCurrentHand /\ mStartTime' = mStartTime /\ mRing' = mRing
      /\ mExpireTime' = mExpireTime /\ mInterval' = mInterval
      /\ ringOf' = ringOf /\ diff2Current' = diff2Current
      /\ triggered' = triggered /\ pending' = pending /\ ahead' = ahead
  BY DEF Cancel, wheelVars, adderVars
<1>3. EngineTyped'
  BY <1>1, <1>2 DEF EngineTyped, Ring, Chapter
<1>4. ASSUME NEW u \in Timer PROVE AdderOf(u)' /\ PlaceOf(u)'
  BY <1>1, <1>2, PlaceSame, AdderSame
<1>5. WheelInv'
  BY <1>1, <1>2, WheelSame
<1>6. QED
  BY <1>3, <1>4, <1>5 DEF EngineInv

-----------------------------------------------------------------------------
(* Where a repeated timer goes, if anywhere: to a slot where it waits.     *)
LEMMA SlotsForIs ==
  ASSUME WheelInv, NEW time \in Nat, SlotsFor(time) # {}
  PROVE  \E r \in Ring : \E s \in Chapter(r) :
           /\ SlotsFor(time) = {<<r, s>>}
           /\ \/ /\ s > mCurrentHand[r]
                 /\ time < SlotBegin(r, s) + Turn(r - 1)
                 /\ time >= GetCurrentTime + TickLength => SlotBegin(r, s) <= time
              \/ /\ r = 1 /\ time < GetCurrentTime + TickLength
                 /\ s > mCurrentHand[1] \/ (s = 0 /\ AtEnd(1))
<1> DEFINE able == {r \in Ring : CanInsert(r, time)}
<1>1. Ring \subseteq Nat /\ 1 \in Ring /\ 0 \in 0..RingCount
  BY RingsAssumption DEF Ring
<1>2. CASE able # {}
  <2>1. able \subseteq Nat
    BY <1>1
  <2>2. \E m \in able : \A k \in able : m <= k
    BY <1>2, <2>1, LeastMember
  <2>3. PICK r \in Ring : r = Min(able) /\ CanInsert(r, time)
    BY <2>2 DEF Min
  <2>4. PICK s : s = slotIndex(r, time)
    OBVIOUS
  <2>5. SlotsFor(time) = {<<r, s>>}
    BY <1>2, <2>3, <2>4 DEF SlotsFor
  <2>6. /\ s \in Chapter(r) /\ s > mCurrentHand[r]
        /\ time < SlotBegin(r, s) + Turn(r - 1)
        /\ time >= GetCurrentTime + TickLength => SlotBegin(r, s) <= time
    BY <2>3, <2>4, InsertWaits
  <2>7. QED
    BY <2>5, <2>6
<1>3. CASE able = {}
  <2>1. IsJustLate(time) /\ SlotsFor(time) = {<<1, NextSlot>>}
    BY <1>3 DEF SlotsFor
  <2>2. PICK c : c = GetCurrentTime /\ c \in Nat
    <3>1. Begin(0) = GetCurrentTime
      BY DEF Begin
    <3>2. QED
      BY <1>1, <3>1, Nested
  <2>3. time < c + TickLength
    <3>1. time - c \in (1 - TickLength)..(-1) /\ TickLength \in Nat
      BY <2>1, <2>2, RingsAssumption DEF IsJustLate
    <3>2. QED
      BY ONLY time \in Nat, <2>2, <3>1
  <2>4. PICK s : s = NextSlot
    OBVIOUS
  <2>5. s \in Chapter(1) /\ (s > mCurrentHand[1] \/ (s = 0 /\ AtEnd(1)))
    BY <2>4, NextSlotIs
  <2>6. QED
    BY <1>1, <2>1, <2>2, <2>3, <2>4, <2>5
<1>4. QED
  BY <1>2, <1>3

(* A timer that went off has left the rings; a repeated one is put back.   *)
LEMMA TriggerKeeps ==
  ASSUME EngineInv, NEW t \in Timer, Trigger(t)
  PROVE  EngineInv'
<1>1. WheelInv /\ EngineTyped /\ \A u \in Timer : AdderOf(u) /\ PlaceOf(u)
  BY DEF EngineInv
<1>2. PICK time, slots :
        /\ time = mExpireTime[t] + mInterval[t]
        /\ slots = IF mCanceled[t] \/ mInterval[t] = 0 THEN {} ELSE SlotsFor(time)
  OBVIOUS
<1>3. /\ mCurrentHand' = mCurrentHand /\ mStartTime' = mStartTime
      /\ mInterval' = mInterval /\ ringOf' = ringOf /\ diff2Current' = diff2Current
  BY DEF Trigger, adderVars
<1>4. /\ t \in triggered /\ triggered' = triggered \ {t}
      /\ mExpireTime' = [mExpireTime EXCEPT ![t] = IF mCanceled[t] THEN mExpireTime[t] ELSE time]
      /\ mRing' = [r \in Ring |-> [s \in Chapter(r) |->
           mRing[r][s] \cup {u \in {t} : <<r, s>> \in slots}]]
      /\ pending' = pending \ {u \in {t} : slots = {}}
      /\ ahead' = (ahead \ {t}) \cup
           {u \in {t} : slots # {} /\ time >= GetCurrentTime + TickLength}
  BY <1>2 DEF Trigger
<1>5. time \in Nat /\ mExpireTime[t] \in Nat
  BY <1>1, <1>2 DEF EngineTyped
<1>6. t \in pending /\ Nowhere(t) /\ ringOf[t] = notAdding /\ notAdding # RingCount + 2
  BY <1>1, <1>4, RingsAssumption DEF EngineTyped, PlaceOf, AdderOf, notAdding
<1>7. ASSUME NEW q \in Ring, NEW i \in Chapter(q)
      PROVE  mRing'[q][i] = mRing[q][i] \cup {u \in {t} : <<q, i>> \in slots}
  BY <1>4
<1>8. EngineTyped'
  <2>1. mExpireTime' \in [Timer -> Nat]
    BY <1>1, <1>4, <1>5 DEF EngineTyped
  <2>2. triggered' \subseteq pending' /\ pending' \subseteq Timer /\ ahead' \subseteq pending'
    BY <1>1, <1>4, <1>6 DEF EngineTyped
  <2>3. \A q \in Ring : mRing'[q] \in [Chapter(q) -> SUBSET Timer]
    <3>1. ASSUME NEW q \in Ring PROVE mRing'[q] \in [Chapter(q) -> SUBSET Timer]
      <4>1. mRing'[q] = [s \in Chapter(q) |-> mRing[q][s] \cup {u \in {t} : <<q, s>> \in slots}]
        BY <1>4
      <4>2. \A s \in Chapter(q) : mRing[q][s] \in SUBSET Timer
        BY <1>1 DEF EngineTyped
      <4>3. \A s \in Chapter(q) :
              mRing[q][s] \cup {u \in {t} : <<q, s>> \in slots} \in SUBSET Timer
        BY <4>2
      <4>4. QED
        BY <4>1, <4>3
    <3>2. QED
      BY <3>1
  <2>4. mRing' \in [Ring -> UNION {[Chapter(q) -> SUBSET Timer] : q \in Ring}]
    <3> DEFINE S == UNION {[Chapter(q) -> SUBSET Timer] : q \in Ring}
    <3>1. \A q \in Ring : mRing'[q] \in S
      BY <2>3
    <3>2. mRing' = [q \in Ring |-> mRing'[q]]
      BY <1>4
    <3> HIDE DEF S
    <3>3. mRing' \in [Ring -> S]
      BY <3>1, <3>2
    <3>4. QED
      BY <3>3 DEF S
  <2>5. /\ mInterval' \in [Timer -> Nat] /\ ringOf' \in [Timer -> 0..(RingCount + 2)]
        /\ diff2Current' \in [Timer -> BOOLEAN]
    BY <1>1, <1>3 DEF EngineTyped
  <2>6. QED
    BY <2>1, <2>2, <2>3, <2>4, <2>5 DEF EngineTyped, Ring, Chapter
<1>9. ASSUME NEW u \in Timer, u # t PROVE AdderOf(u)' /\ PlaceOf(u)'
  <2>1. \A q \in Ring : \A i \in Chapter(q) : u \in mRing'[q][i] <=> u \in mRing[q][i]
    <3>1. ASSUME NEW q \in Ring, NEW i \in Chapter(q)
          PROVE  u \in mRing'[q][i] <=> u \in mRing[q][i]
      <4>1. mRing'[q][i] = mRing[q][i] \cup {v \in {t} : <<q, i>> \in slots}
        BY <1>7
      <4>2. QED
        BY ONLY <4>1, <1>9
    <3>2. QED
      BY <3>1
  <2>2. mExpireTime'[u] = mExpireTime[u]
    BY <1>1, <1>4, <1>9 DEF EngineTyped
  <2>3. /\ u \in ahead' <=> u \in ahead
        /\ u \in pending' <=> u \in pending
        /\ u \in triggered' <=> u \in triggered
    BY <1>4, <1>9
  <2>4. PlaceOf(u)'
    BY <1>1, <1>3, <2>1, <2>2, <2>3, PlaceSame
  <2>5. AdderOf(u)'
    BY <1>1, <1>3, <2>2, <2>3, AdderSame
  <2>6. QED
    BY <2>4, <2>5
<1>10. AdderOf(t)'
  BY <1>3, <1>6 DEF AdderOf
<1>11. PlaceOf(t)'
  <2>1. t \notin triggered'
    BY <1>4
  <2>2. CASE slots = {}
    <3>1. t \notin pending'
      BY <1>4, <2>2
    <3>2. \A q \in Ring : \A i \in Chapter(q) : t \notin mRing'[q][i]
      BY <1>6, <1>7, <2>2 DEF Nowhere
    <3>3. Nowhere(t)'
      BY <3>2 DEF Nowhere, Ring, Chapter
    <3>4. QED
      BY <2>1, <3>1, <3>3 DEF PlaceOf
  <2>3. CASE slots # {}
    <3>1. ~mCanceled[t] /\ slots = SlotsFor(time)
      BY <1>2, <2>3
    <3>2. mExpireTime'[t] = time
      BY <1>1, <1>4, <3>1 DEF EngineTyped
    <3>3. PICK r \in Ring : \E s \in Chapter(r) :
            /\ slots = {<<r, s>>}
            /\ \/ /\ s > mCurrentHand[r]
                  /\ time < SlotBegin(r, s) + Turn(r - 1)
                  /\ time >= GetCurrentTime + TickLength => SlotBegin(r, s) <= time
               \/ /\ r = 1 /\ time < GetCurrentTime + TickLength
                  /\ s > mCurrentHand[1] \/ (s = 0 /\ AtEnd(1))
      BY <1>1, <1>5, <2>3, <3>1, SlotsForIs
    <3>4. PICK s \in Chapter(r) :
            /\ slots = {<<r, s>>}
            /\ \/ /\ s > mCurrentHand[r]
                  /\ time < SlotBegin(r, s) + Turn(r - 1)
                  /\ time >= GetCurrentTime + TickLength => SlotBegin(r, s) <= time
               \/ /\ r = 1 /\ time < GetCurrentTime + TickLength
                  /\ s > mCurrentHand[1] \/ (s = 0 /\ AtEnd(1))
      BY <3>3
    <3>5. \A q \in Ring : \A i \in Chapter(q) :
            mRing'[q][i] = IF q = r /\ i = s THEN mRing[q][i] \cup {t} ELSE mRing[q][i]
      <4>1. ASSUME NEW q \in Ring, NEW i \in Chapter(q)
            PROVE  mRing'[q][i] = IF q = r /\ i = s THEN mRing[q][i] \cup {t} ELSE mRing[q][i]
        <5>1. <<q, i>> \in slots <=> q = r /\ i = s
          BY <3>4
        <5>2. mRing'[q][i] = mRing[q][i] \cup {u \in {t} : <<q, i>> \in slots}
          BY <1>7
        <5>3. CASE <<q, i>> \in slots
          BY ONLY <5>1, <5>2, <5>3
        <5>4. CASE <<q, i>> \notin slots
          BY ONLY <5>1, <5>2, <5>4
        <5>5. QED
          BY <5>3, <5>4
      <4>2. QED
        BY <4>1
    <3>6. Lies(t, r, s)'
      BY <1>6, <3>5, PutLies
    <3>7. t \in ahead' <=> time >= GetCurrentTime + TickLength
      BY <1>4, <2>3
    <3>8. t \in ahead' => ~(time < GetCurrentTime + TickLength)
      <4>1. PICK c : c = GetCurrentTime
        OBVIOUS
      <4>2. c \in Nat /\ TickLength \in Nat
        <5>1. Begin(0) = GetCurrentTime /\ 0 \in 0..RingCount
          BY RingsAssumption DEF Begin
        <5>2. QED
          BY <1>1, <4>1, <5>1, Nested, RingsAssumption
      <4>3. time >= c + TickLength => ~(time < c + TickLength)
        BY ONLY <1>5, <4>2
      <4>4. QED
        BY <3>7, <4>1, <4>3
    <3>9. Waits(t, r, s)'
      <4>1. /\ (SlotBegin(r, s)') = SlotBegin(r, s) /\ (Turn(r - 1)') = Turn(r - 1)
            /\ AtEnd(1)' = AtEnd(1)
        BY <1>1, <1>3, WheelSame
      <4>2. QED
        BY <1>3, <3>2, <3>4, <3>7, <3>8, <4>1 DEF Waits
    <3>10. t \in pending'
      BY <1>4, <1>6, <2>3
    <3>11. QED
      BY <2>1, <3>6, <3>9, <3>10 DEF PlaceOf, Ring, Chapter
  <2>4. QED
    BY <2>2, <2>3
<1>12. WheelInv'
  BY <1>1, <1>3, WheelSame
<1>13. QED
  BY <1>8, <1>9, <1>10, <1>11, <1>12 DEF EngineInv

(* Tick gives nothing to a timer that is in no slot.                       *)
LEMMA NowhereStays ==
  ASSUME WheelInv, Tick, NEW t \in Timer, Nowhere(t)
  PROVE  t \notin triggered' /\ Nowhere(t)'
<1>1. RingCount \in Nat /\ Ring = 1..RingCount /\ 1 \in Ring
  BY RingsAssumption DEF Ring
<1>2. ASSUME NEW k \in Ring, Ticks(k) PROVE t \notin mRing[k][HandAfter(k)]
  <2>1. HandAfter(k) \in Nat /\ HandAfter(k) < mCapterCount[k] /\ mCapterCount[k] \in Nat
    BY <1>2, TickTurns, Turns DEF HandNow
  <2>2. HandAfter(k) \in Chapter(k)
    BY <2>1 DEF Chapter
  <2>3. QED
    BY <2>2 DEF Nowhere
<1>3. ASSUME NEW r \in Ring PROVE t \notin Given(r)
  <2>1. \A q \in (r + 1)..RingCount : q \in Ring
    BY <1>1
  <2>2. QED
    BY <1>2, <2>1 DEF Given
<1>4. t \notin triggered'
  BY <1>1, <1>2, <1>3, AfterTick, TicksNext
<1>5. \A r \in Ring : \A i \in Chapter(r) : t \notin mRing'[r][i]
  BY <1>3, AfterTick DEF Nowhere
<1>6. QED
  BY <1>4, <1>5 DEF Nowhere, Ring, Chapter

LEMMA TickKeeps ==
  ASSUME EngineInv, Tick
  PROVE  EngineInv'
<1>1. WheelInv /\ EngineTyped /\ \A u \in Timer : AdderOf(u) /\ PlaceOf(u)
  BY DEF EngineInv
<1>2. /\ mExpireTime' = mExpireTime /\ mInterval' = mInterval
      /\ ringOf' = ringOf /\ diff2Current' = diff2Current
      /\ pending' = pending /\ ahead' = ahead /\ triggered = {}
  BY DEF Tick, timerVars, adderVars
<1>3. RingCount \in Nat /\ Ring = 1..RingCount /\ 1 \in Ring /\ 0 \in 0..RingCount
  BY RingsAssumption DEF Ring
<1>4. WheelInv' /\ GetCurrentTime' = End(0)
  BY <1>1, TickWheel
<1>5. ASSUME NEW u \in Timer PROVE PlaceOf(u)' /\ (u \in triggered' => u \in pending)
  <2>1. mExpireTime[u] \in Nat
    BY <1>1 DEF EngineTyped
  <2>2. CASE u \notin pending
    <3>1. Nowhere(u)
      BY <1>1, <2>2 DEF PlaceOf
    <3>2. u \notin triggered' /\ Nowhere(u)'
      BY <1>1, <3>1, NowhereStays
    <3>3. QED
      BY <1>2, <2>2, <3>2 DEF PlaceOf
  <2>3. CASE u \in pending
    <3>1. u \in pending \ triggered
      BY <1>2, <2>3
    <3>2. PICK q \in Ring : \E s \in Chapter(q) : Lies(u, q, s) /\ Waits(u, q, s)
      BY <1>1, <3>1 DEF PlaceOf
    <3>3. PICK s \in Chapter(q) : Lies(u, q, s) /\ Waits(u, q, s)
      BY <3>2
    <3>4. CASE /\ u \notin triggered'
               /\ \E r \in Ring : \E i \in Chapter(r) : Lies(u, r, i)' /\ Waits(u, r, i)'
      BY <1>2, <2>3, <3>4 DEF PlaceOf, Ring, Chapter
    <3>5. CASE /\ u \in triggered' /\ Nowhere(u)'
               /\ u \in ahead => /\ GetCurrentTime' <= mExpireTime[u]
                                 /\ mExpireTime[u] < GetCurrentTime' + TickLength
      BY <1>2, <2>3, <3>5 DEF PlaceOf
    <3>6. CASE ~Falls(q, s)
      <4>1. u \notin triggered' /\ Lies(u, q, s)' /\ Waits(u, q, s)'
        BY <1>1, <2>1, <3>3, <3>6, StaysInSlot
      <4>2. QED
        BY <3>4, <4>1
    <3>7. CASE Falls(q, s) /\ q = 1
      <4>1. /\ u \in triggered' /\ Nowhere(u)'
            /\ u \in ahead => /\ GetCurrentTime' <= mExpireTime[u]
                              /\ mExpireTime[u] < GetCurrentTime' + TickLength
        BY <1>1, <2>1, <3>3, <3>7, FallsOut
      <4>2. QED
        BY <3>5, <4>1
    <3>8. CASE Falls(q, s) /\ q # 1
      <4>1. \/ /\ u \in triggered' /\ Nowhere(u)'
               /\ u \in ahead => /\ GetCurrentTime' <= mExpireTime[u]
                                 /\ mExpireTime[u] < GetCurrentTime' + TickLength
            \/ /\ u \notin triggered'
               /\ \E r \in Ring : \E i \in Chapter(r) : Lies(u, r, i)' /\ Waits(u, r, i)'
        BY <1>1, <2>1, <3>3, <3>8, FallsDown
      <4>2. QED
        BY <3>4, <3>5, <4>1
    <3>9. QED
      BY <3>6, <3>7, <3>8
  <2>4. QED
    BY <2>2, <2>3
<1>6. ASSUME NEW u \in Timer PROVE AdderOf(u)'
  <2>1. PICK e, c : e = mExpireTime[u] /\ c = GetCurrentTime
    OBVIOUS
  <2>2. e \in Nat /\ c \in Nat /\ TickLength \in Nat /\ GetCurrentTime' = c + TickLength
    <3>1. Begin(0) = GetCurrentTime /\ End(0) = GetCurrentTime + TickLength
      BY DEF Begin, End, Turn
    <3>2. QED
      BY <1>1, <1>3, <1>4, <2>1, <3>1, Nested, RingsAssumption DEF EngineTyped
  <2>3. e < c => e < c + TickLength
    BY ONLY <2>2
  <2>4. QED
    BY <1>1, <1>2, <2>1, <2>2, <2>3 DEF AdderOf
<1>7. EngineTyped'
  <2>1. ASSUME NEW r \in Ring, NEW s
        PROVE  Filled(r, s) \subseteq mRing[r][s] \cup Timer
    <3>1. Given(r) \subseteq Timer
      BY Zenon DEF Given
    <3>2. QED
      BY <3>1, Zenon DEF Filled
  <2>2. \A q \in Ring : mRing'[q] \in [Chapter(q) -> SUBSET Timer]
    <3>1. ASSUME NEW q \in Ring PROVE mRing'[q] \in [Chapter(q) -> SUBSET Timer]
      <4>1. mRing'[q] = [s \in Chapter(q) |-> SlotAfter(q, s)]
        BY DEF Tick
      <4>2. ASSUME NEW s \in Chapter(q) PROVE SlotAfter(q, s) \in SUBSET Timer
        <5>1. mRing[q][s] \subseteq Timer
          BY <1>1 DEF EngineTyped
        <5>2. Filled(q, s) \subseteq Timer
          BY <2>1, <5>1
        <5>3. QED
          BY <5>2 DEF SlotAfter
      <4>3. QED
        BY <4>1, <4>2
    <3>2. QED
      BY <3>1
  <2>3. mRing' \in [Ring -> UNION {[Chapter(q) -> SUBSET Timer] : q \in Ring}]
    <3> DEFINE S == UNION {[Chapter(q) -> SUBSET Timer] : q \in Ring}
    <3>1. \A q \in Ring : mRing'[q] \in S
      BY <2>2
    <3>2. mRing' = [q \in Ring |-> mRing'[q]]
      BY DEF Tick
    <3> HIDE DEF S
    <3>3. mRing' \in [Ring -> S]
      BY <3>1, <3>2
    <3>4. QED
      BY <3>3 DEF S
  <2>4. triggered' \subseteq Timer
    <3>1. HandAfter(1) \in Chapter(1)
      <4>1. HandAfter(1) \in Nat /\ HandAfter(1) < mCapterCount[1] /\ mCapterCount[1] \in Nat
        BY <1>1, <1>3, TicksNext, TickTurns, Turns DEF HandNow
      <4>2. QED
        BY <4>1 DEF Chapter
    <3>2. mRing[1][HandAfter(1)] \subseteq Timer
      BY <1>1, <1>3, <3>1 DEF EngineTyped
    <3>3. QED
      BY <1>3, <2>1, <3>2 DEF Tick
  <2>5. triggered' \subseteq pending' /\ pending' \subseteq Timer /\ ahead' \subseteq pending'
    BY <1>1, <1>2, <1>5, <2>4 DEF EngineTyped
  <2>6. QED
    BY <1>1, <1>2, <2>2, <2>3, <2>5 DEF EngineTyped, Ring, Chapter
<1>8. QED
  BY <1>4, <1>5, <1>6, <1>7 DEF EngineInv

LEMMA EngineStep == EngineInv /\ [EngineNext]_engineVars => EngineInv'
<1> SUFFICES ASSUME EngineInv, [EngineNext]_engineVars PROVE EngineInv'
  OBVIOUS
<1>1. CASE Tick
  BY <1>1, TickKeeps
<1>2. ASSUME NEW t \in Timer, TryRing(t) PROVE EngineInv'
  BY <1>2, TryKeeps
<1>3. ASSUME NEW t \in Timer, ReadCurrent(t) PROVE EngineInv'
  BY <1>3, ReadKeeps
<1>4. ASSUME NEW t \in Timer, InsertLate(t) PROVE EngineInv'
  BY <1>4, LateKeeps
<1>5. ASSUME NEW t \in Timer, Cancel(t) PROVE EngineInv'
  BY <1>5, CancelKeeps
<1>6. ASSUME NEW t \in Timer, Trigger(t) PROVE EngineInv'
  BY <1>6, TriggerKeeps
<1>7. ASSUME NEW t \in Timer, NEW time \in ExpireTimes \cap Nat, NEW interval \in Intervals,
             Expire(t, time, interval)
      PROVE  EngineInv'
  BY <1>7, ExpireKeeps
<1>8. CASE UNCHANGED engineVars
  <2>1. /\ mCurrentHand' = mCurrentHand /\ mStartTime' = mStartTime /\ mRing' = mRing
        /\ mExpireTime' = mExpireTime /\ mInterval' = mInterval
        /\ ringOf' = ringOf /\ diff2Current' = diff2Current
        /\ triggered' = triggered /\ pending' = pending /\ ahead' = ahead
    BY <1>8 DEF engineVars, wheelVars, timerVars, adderVars
  <2>2. EngineTyped' /\ WheelInv'
    BY <2>1, WheelSame DEF EngineInv, EngineTyped, Ring, Chapter
  <2>3. \A u \in Timer : AdderOf(u)' /\ PlaceOf(u)'
    BY <2>1, PlaceSame, AdderSame DEF EngineInv
  <2>4. QED
    BY <2>2, <2>3 DEF EngineInv
<1>9. QED
  BY <1>1, <1>2, <1>3, <1>4, <1>5, <1>6, <1>7, <1>8 DEF EngineNext

(* The rings turn together, every timer that was accepted waits in one     *)
(* slot, and a slot that is to come holds the times of its part of the     *)
(* turn.  A timer that AddTimer found late goes to the next slot, whatever *)
(* its time is by then.                                                    *)
THEOREM EngineInvariant == EngineSpec => []EngineInv
<1>1. QED
  BY EngineStart, EngineStep, PTL DEF EngineSpec

(* A time that waits is of a later tick, and one that goes off of this.    *)
LEMMA WaitingIsLater ==
  ASSUME EngineInv, NEW t \in ahead,
         NEW due, due = TickLength * (mExpireTime[t] \div TickLength)
  PROVE  IF t \in triggered THEN due = GetCurrentTime ELSE due > GetCurrentTime
<1>1. WheelInv /\ EngineTyped /\ t \in Timer /\ t \in pending /\ PlaceOf(t)
  BY DEF EngineInv, EngineTyped
<1>2. RingCount \in Nat /\ Ring = 1..RingCount /\ 0 \in 0..RingCount
  BY RingsAssumption DEF Ring
<1>3. PICK e, c, d : e = mExpireTime[t] /\ c = GetCurrentTime /\ d = TickLength
  OBVIOUS
<1>4. e \in Nat /\ c \in Nat /\ d \in Nat /\ d > 0 /\ due = d * (e \div d)
  <2>1. Begin(0) = GetCurrentTime
    BY DEF Begin
  <2>2. d \in Nat /\ d > 0
    BY <1>3, RingsAssumption
  <2>3. QED
    BY <1>1, <1>2, <1>3, <2>1, <2>2, Nested DEF EngineTyped
<1>5. PICK m \in Int : c = d * m
  <2>1. Begin(0) = c /\ Turn(0) = d
    BY <1>3 DEF Begin, Turn
  <2>2. QED
    BY <1>1, <1>2, <2>1, TurnMultiple
<1>6. CASE t \in triggered
  <2>1. c <= e /\ e < c + d
    BY <1>1, <1>3, <1>6 DEF PlaceOf
  <2>2. e \div d = m
    BY ONLY <1>4, <1>5, <2>1, DivisionIs
  <2>3. QED
    BY <1>3, <1>4, <1>5, <1>6, <2>2
<1>7. CASE t \notin triggered
  <2>1. PICK r \in Ring : \E s \in Chapter(r) : Waits(t, r, s)
    BY <1>1, <1>7 DEF PlaceOf
  <2>2. PICK s \in Chapter(r) : Waits(t, r, s)
    BY <2>1
  <2>3. s > mCurrentHand[r] /\ SlotBegin(r, s) <= e
    BY <1>3, <2>2 DEF Waits
  <2>4. c + d <= e
    <3>1. PICK b, u, h : b = Begin(r) /\ u = Turn(r - 1) /\ h = mCurrentHand[r]
      OBVIOUS
    <3>2. /\ b \in Nat /\ u \in Nat /\ u > 0 /\ h \in Nat /\ mCapterCount[r] \in Nat
          /\ End(r - 1) = (b + u * h) + u
      BY <1>1, <3>1, Turns, RingBefore DEF WheelInv
    <3>3. s \in Nat /\ h < s
      BY <2>3, <3>1, <3>2 DEF Chapter
    <3>4. u * h + u <= u * s
      BY ONLY <3>2, <3>3, MultiplesApart
    <3>5. b + u * s <= e
      BY <2>3, <3>1 DEF SlotBegin
    <3>6. u * h \in Nat /\ u * s \in Nat
      BY ONLY <3>2, <3>3, SMT
    <3>7. (b + u * h) + u <= e
      BY ONLY <1>4, <3>2, <3>4, <3>5, <3>6
    <3>8. End(0) <= End(r - 1)
      <4>1. r - 1 \in 0..RingCount /\ 0 <= r - 1
        BY <1>2
      <4>2. QED
        BY <1>1, <1>2, <4>1, Nested
    <3>9. End(0) = c + d
      BY <1>3 DEF End, Begin, Turn
    <3>10. (b + u * h) + u \in Nat
      BY ONLY <3>2, <3>6
    <3>11. c + d <= (b + u * h) + u
      BY <3>2, <3>8, <3>9
    <3>12. QED
      BY ONLY <1>4, <3>7, <3>10, <3>11
  <2>5. PICK z : z = d * (e \div d)
    OBVIOUS
  <2>6. z \in Nat /\ e < z + d
    BY ONLY <1>4, <2>5, Division
  <2>7. z > c
    BY ONLY <1>4, <2>4, <2>6
  <2>8. QED
    BY <1>3, <1>4, <1>7, <2>5, <2>7
<1>8. QED
  BY <1>6, <1>7

(* A timer that is accepted before its tick goes off in that very tick,    *)
(* with any number of rings and slots, and whatever AddTimer and MainLoop  *)
(* do in between.                                                          *)
THEOREM TimersOnTime == EngineSpec => []OnTime
<1>1. EngineInv => OnTime
  BY WaitingIsLater DEF OnTime
<1>2. QED
  BY <1>1, EngineInvariant, PTL

(* An accepted timer that has not gone off is in one slot of one ring, and *)
(* any other is in none.                                                   *)
THEOREM TimersInOneSlot == EngineSpec => []InOneSlot
<1>1. ASSUME EngineInv PROVE InOneSlot
  <2>1. ASSUME NEW t \in Timer
        PROVE  Cardinality({p \in Places : t \in mRing[p[1]][p[2]]}) =
                 IF t \in pending \ triggered THEN 1 ELSE 0
    <3> DEFINE Of == {p \in Places : t \in mRing[p[1]][p[2]]}
    <3>1. PlaceOf(t)
      BY <1>1 DEF EngineInv
    <3>2. CASE t \in pending \ triggered
      <4>1. PICK r \in Ring : \E s \in Chapter(r) : Lies(t, r, s)
        BY <3>1, <3>2 DEF PlaceOf
      <4>2. PICK s \in Chapter(r) : Lies(t, r, s)
        BY <4>1
      <4>3. <<r, s>> \in Places
        BY <4>1, <4>2 DEF Places
      <4>4. ASSUME NEW p \in Places PROVE t \in mRing[p[1]][p[2]] <=> p = <<r, s>>
        <5>1. PICK q \in Ring : \E i \in Chapter(q) : p = <<q, i>>
          BY DEF Places
        <5>2. PICK i \in Chapter(q) : p = <<q, i>>
          BY <5>1
        <5>3. t \in mRing[q][i] <=> q = r /\ i = s
          BY <4>2 DEF Lies
        <5>4. QED
          BY <5>2, <5>3
      <4>5. Of = {<<r, s>>}
        BY <4>3, <4>4
      <4>6. QED
        BY <3>2, <4>5, FS_Singleton
    <3>3. CASE t \notin pending \ triggered
      <4>1. Nowhere(t)
        BY <3>1, <3>3 DEF PlaceOf
      <4>2. ASSUME NEW p \in Places PROVE t \notin mRing[p[1]][p[2]]
        <5>1. PICK q \in Ring : \E i \in Chapter(q) : p = <<q, i>>
          BY DEF Places
        <5>2. QED
          BY <4>1, <5>1 DEF Nowhere
      <4>3. Of = {}
        BY <4>2
      <4>4. QED
        BY <3>3, <4>3, FS_EmptySet
    <3>4. QED
      BY <3>2, <3>3
  <2>2. QED
    BY <2>1 DEF InOneSlot
<1>2. QED
  BY <1>1, EngineInvariant, PTL

(* As long as the engine runs, the rings cover the time from the next tick *)
(* to the end of the last ring's turn, and no other.                       *)
THEOREM TimesHaveRings == EngineSpec => []EveryTimeHasARing
<1>1. EngineInv => EveryTimeHasARing
  BY WheelHasRings DEF EngineInv
<1>2. QED
  BY <1>1, EngineInvariant, PTL

=============================================================================
