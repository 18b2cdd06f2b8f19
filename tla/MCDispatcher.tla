---------------------------- MODULE MCDispatcher ----------------------------
(***************************************************************************)
(* Specifications for checking Dispatcher on small instances.              *)
(***************************************************************************)
EXTENDS Dispatcher

(* The workers have finished every task before the dispatcher consumes the *)
(* next raise, so that a task is reused only long after its end.           *)
Drained == \A w \in Worker : mDispatchedTasks[w] = <<>>
DrainedNext ==
  /\ Next
  /\ mNextTaskPos' # mNextTaskPos => Drained
DrainedSpec == Init /\ [][DrainedNext]_vars
=============================================================================
