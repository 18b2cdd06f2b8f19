------------------------------ MODULE MCCommon ------------------------------
(***************************************************************************)
(* The parts of src/common that stand for themselves.  In a behaviour one  *)
(* of them, the subject, is used and the others stay as they are built.    *)
(***************************************************************************)
EXTENDS SpscQueue, WindowedMap, DeferredActions, TimeRanges, TimerWheel

(* Rings of two, three and two slots.                                      *)
CapterCounts == <<2, 3, 2>>
TimeDurations == <<4, 12, 24>>

VARIABLE subject

vars == <<subject, queueVars, mapVars, actionVars, rangeVars, engineVars>>

Init ==
  /\ subject \in {"queue", "map", "actions", "ranges", "engine"}
  /\ QueueInit /\ MapInit /\ ActionsInit /\ RangesInit /\ EngineInit
  /\ subject # "actions" => mMode = "FIFO"
  /\ subject # "engine" => GetCurrentTime = 0

Next ==
  /\ UNCHANGED subject
  /\ \/ /\ subject = "queue" /\ QueueNext
        /\ UNCHANGED <<mapVars, actionVars, rangeVars, engineVars>>
     \/ /\ subject = "map" /\ MapNext
        /\ UNCHANGED <<queueVars, actionVars, rangeVars, engineVars>>
     \/ /\ subject = "actions" /\ ActionsNext
        /\ UNCHANGED <<queueVars, mapVars, rangeVars, engineVars>>
     \/ /\ subject = "ranges" /\ RangesNext
        /\ UNCHANGED <<queueVars, mapVars, actionVars, engineVars>>
     \/ /\ subject = "engine" /\ EngineNext
        /\ UNCHANGED <<queueVars, mapVars, actionVars, rangeVars>>

Spec == Init /\ [][Next]_vars /\ ActionsFairness
=============================================================================
