------------------------------- MODULE Chains -------------------------------
(***************************************************************************)
(* Items that are linked by pointers, as the sequence that is found by     *)
(* following them.                                                         *)
(***************************************************************************)
EXTENDS Integers, Sequences, FiniteSets

(* The items from item on along links, which end at none.  There are at    *)
(* most so many; in links that go round the sequence ends there.           *)
Follow(links, item, none, most) ==
  LET after == [i \in DOMAIN links \cup {none} |-> IF i = none THEN none ELSE links[i]]
      at[k \in 1..most] == IF k = 1 THEN item ELSE after[at[k - 1]]
      length == Cardinality({k \in 1..most : at[k] # none})
  IN  [k \in 1..length |-> at[k]]
=============================================================================
