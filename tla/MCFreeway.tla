----------------------------- MODULE MCFreeway -----------------------------
(***************************************************************************)
(* Specifications for checking Freeway on small instances.                 *)
(***************************************************************************)
EXTENDS Freeway

(* Node 3 is reached from node 1 directly and through node 2.              *)
Triangle == precursors = [n \in Node |-> 1..(n - 1)]
TriangleInit == Init /\ Triangle

(* Bounds for the larger graph.  The tasks start when the dispatcher has   *)
(* made its passes: an entry added to a lock queue does not change what    *)
(* the earlier ones wait for.  DoProcess reads its precursors in order and *)
(* stores nothing in a node without successors.                            *)
BacklogNext ==
  /\ Next
  /\ pc' # pc /\ waiters' = waiters => workflowId = MaxWorkflow /\ toRegister = {}
  /\ \A t \in Task : pc[t] = "process" /\ pc'[t] # "process" /\ Successors({t.node}) = {} =>
       stored' = stored
  /\ \A t \in Task : mWaited'[t] # NoNode =>
       \A q \in precursors[t.node] : q < mWaited'[t] => <<t, q>> \in inside

(* The only states in which nothing happens any more: TLC reports a        *)
(* deadlock in any other, tasks and locks that wait for each other.        *)
AllDone ==
  /\ toRegister = {} /\ \A t \in Task : pc[t] # "absent" => Finished(t)
  /\ UNCHANGED vars
BacklogSpec == TriangleInit /\ [][BacklogNext \/ AllDone]_vars
=============================================================================
