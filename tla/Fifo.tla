-------------------------------- MODULE Fifo --------------------------------
(***************************************************************************)
(* What a queue between one producer and one consumer promises: the n-th   *)
(* element that was accepted is the n-th that is handed out.  Elements are *)
(* named by the order in which they were accepted.                         *)
(***************************************************************************)
EXTENDS Integers, Sequences

VARIABLES
  queue,   \* accepted and not handed out
  out      \* handed out

Init == queue = <<>> /\ out = <<>>

Push ==
  /\ queue' = Append(queue, Len(out) + Len(queue) + 1)
  /\ UNCHANGED out

Take ==
  \E k \in 1..Len(queue) :
    /\ out' = out \o SubSeq(queue, 1, k)
    /\ queue' = SubSeq(queue, k + 1, Len(queue))

Spec == Init /\ [][Push \/ Take]_<<queue, out>>
=============================================================================
