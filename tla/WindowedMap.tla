---------------------------- MODULE WindowedMap ----------------------------
(***************************************************************************)
(* WindowedMap.hpp with the list of IncursiveList.hpp: the entry of a key  *)
(* has its place in an array, key modulo window, and the entries in use    *)
(* are linked in the order of their keys.  Where a new entry goes into the *)
(* list is found by looking for its nearest neighbour in the array.  A key *)
(* is not compared with the one in its slot; the model's callers keep the  *)
(* keys in use, and those they ask for, less than a window apart (Fits).   *)
(***************************************************************************)
EXTENDS Integers, Sequences, FiniteSets, Chains

CONSTANTS
  mWindowSize,
  MaxKey         \* keys are 0..MaxKey

ASSUME WindowAssumption == mWindowSize \in Nat \ {0} /\ MaxKey \in Nat

VARIABLES
  first,         \* the key of a slot, gNullValue when it is not in use
  prevOf, nextOf, mHead, mTail, mSize,   \* the list; its items are slots
  keys           \* the keys inserted and not erased

listVars == <<prevOf, nextOf, mHead, mTail, mSize>>
mapVars == <<first, listVars, keys>>

Slots == 0..(mWindowSize - 1)
nil == -1
gNullValue == -1
slotIdx(key) == (key + mWindowSize) % mWindowSize
IsInList(slot) == first[slot] # gNullValue

MapInit ==
  /\ first = [s \in Slots |-> gNullValue]
  /\ prevOf = [s \in Slots |-> nil] /\ nextOf = [s \in Slots |-> nil]
  /\ mHead = nil /\ mTail = nil /\ mSize = 0
  /\ keys = {}

Fits(key) == \A k \in keys : k - key \in (1 - mWindowSize)..(mWindowSize - 1)
-----------------------------------------------------------------------------
(* IncursiveList.                                                          *)

push_first(s) ==
  /\ mHead' = s /\ mTail' = s
  /\ prevOf' = [prevOf EXCEPT ![s] = nil]
  /\ nextOf' = [nextOf EXCEPT ![s] = nil]

push_back(s) ==
  /\ nextOf' = [nextOf EXCEPT ![mTail] = s]
  /\ prevOf' = [prevOf EXCEPT ![s] = mTail]
  /\ mTail' = s
  /\ UNCHANGED mHead

push_front(s) ==
  /\ nextOf' = [nextOf EXCEPT ![s] = mHead]
  /\ prevOf' = [prevOf EXCEPT ![mHead] = s]
  /\ mHead' = s
  /\ UNCHANGED mTail

insert_between(before, s, after) ==
  /\ nextOf' = [t \in Slots |-> CASE t = s -> after [] t = before -> s [] OTHER -> nextOf[t]]
  /\ prevOf' = [t \in Slots |-> CASE t = s -> before [] t = after -> s [] OTHER -> prevOf[t]]
  /\ UNCHANGED <<mHead, mTail>>
insert_after(p, s) == insert_between(p, s, nextOf[p])
insert_before(n, s) == insert_between(prevOf[n], s, n)

(* Mutant: the erased item keeps its links, which push_back relies on.     *)
erase_Linked(s) ==
  LET p == prevOf[s]
      n == nextOf[s]
  IN  /\ mHead' = IF p = nil THEN n ELSE mHead
      /\ mTail' = IF n = nil THEN p ELSE mTail
      /\ nextOf' = [t \in Slots |-> IF t = p THEN n ELSE nextOf[t]]
      /\ prevOf' = [t \in Slots |-> IF t = n THEN p ELSE prevOf[t]]
      /\ mSize' = mSize - 1
erase(s) ==
  LET p == prevOf[s]
      n == nextOf[s]
  IN  /\ mHead' = IF p = nil THEN n ELSE mHead
      /\ mTail' = IF n = nil THEN p ELSE mTail
      /\ nextOf' = [t \in Slots |-> CASE t = s -> nil [] t = p -> n [] OTHER -> nextOf[t]]
      /\ prevOf' = [t \in Slots |-> CASE t = s -> nil [] t = n -> p [] OTHER -> prevOf[t]]
      /\ mSize' = mSize - 1
-----------------------------------------------------------------------------
(* WindowedMap.                                                            *)

(* The loops over tempKey: the first slot in use below, or above, a key.   *)
Nearest(key, step) ==
  LET at(d) == slotIdx(key + d * step)
  IN  at(CHOOSE d \in 1..mWindowSize : IsInList(at(d)) /\ \A c \in 1..(d - 1) : ~IsInList(at(c)))

Insert2List(key, s) ==
  /\ mSize' = mSize + 1
  /\ LET firstKey == first[mHead]
         lastKey == first[mTail]
     IN  IF mSize = 0 THEN push_first(s)
         ELSE IF key < firstKey THEN push_front(s)
         ELSE IF key > lastKey THEN push_back(s)
         ELSE IF key - firstKey < lastKey - key THEN insert_after(Nearest(key, -1), s)
         ELSE insert_before(Nearest(key, 1), s)

(* insert and operator[]; an entry in use is left as it is.                *)
InsertKey(key) ==
  /\ Fits(key) /\ ~IsInList(slotIdx(key))
  /\ Insert2List(key, slotIdx(key))
  /\ first' = [first EXCEPT ![slotIdx(key)] = key]
  /\ keys' = keys \cup {key}

EraseKey(key) ==
  /\ Fits(key) /\ IsInList(slotIdx(key))
  /\ erase(slotIdx(key))
  /\ first' = [first EXCEPT ![slotIdx(key)] = gNullValue]
  /\ keys' = keys \ {key}

MapNext == \E key \in 0..MaxKey : InsertKey(key) \/ EraseKey(key)
MapSpec == MapInit /\ [][MapNext]_mapVars
-----------------------------------------------------------------------------
(* The slots from s on, along links.                                       *)
Walk(s, links) == Follow(links, s, nil, mWindowSize)

(* However the window slides, iterating forward gives the keys of the map  *)
(* in ascending order, each once, iterating backward gives them in         *)
(* descending order, size counts them, and a key is found in its slot.     *)
IsSortedMap ==
  LET forth == Walk(mHead, nextOf)
      back == Walk(mTail, prevOf)
  IN  /\ Len(forth) = mSize /\ mSize = Cardinality(keys)
      /\ {first[forth[i]] : i \in DOMAIN forth} = keys
      /\ \A i \in 1..(Len(forth) - 1) : first[forth[i]] < first[forth[i + 1]]
      /\ back = [i \in DOMAIN forth |-> forth[Len(forth) + 1 - i]]
      /\ \A s \in Slots : IsInList(s) => first[s] \in keys /\ slotIdx(first[s]) = s
=============================================================================
