---------------------------- MODULE MCLifecycle ----------------------------
(***************************************************************************)
(* Specifications for checking Lifecycle on small instances.               *)
(***************************************************************************)
EXTENDS Lifecycle

FairSpec == Spec /\ Fairness

(* mIsRuning is changed without mRuningMutex.  Assume that Start does not  *)
(* come between a worker's test and its sleep, and Stop not before the     *)
(* worker has seen that it was started.                                    *)
Timely(w) ==
  /\ workerPc[w] = "toSleep" => mIsRuning'[w] = mIsRuning[w]
  /\ workerPc[w] \in {"waitStart", "sleeping"} => (mIsRuning[w] => mIsRuning'[w])
TimelyNext == Next /\ \A w \in Worker : Timely(w)
TimelySpec == Init /\ [][TimelyNext]_vars /\ Fairness
=============================================================================
