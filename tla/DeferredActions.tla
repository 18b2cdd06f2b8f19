-------------------------- MODULE DeferredActions --------------------------
(***************************************************************************)
(* DeferredActionCollection.h: objects that any thread adds are handed to  *)
(* an action one at a time, on the thread of the timer's io_service.  What *)
(* the spin lock protects is one step; Add tests mEnabled before it takes  *)
(* the lock, and the action runs without it.  An object is named by the    *)
(* order in which objects were pushed.  Remove erases end() if it does not *)
(* find the object; here it is called only for objects in the queue.       *)
(***************************************************************************)
EXTENDS Integers, Sequences, FiniteSets, SequencesExt

CONSTANT MaxAdds   \* bound on the calls of Add and AddAfter

VARIABLES
  mMode, mStatus, mHasTaskInRuning, mEnabled,
  mQueue,
  calls,       \* Add and AddAfter that went past their test of mEnabled
  delayed,     \* timers of AddAfter that have not expired
  adding,      \* calls of Add between the test of mEnabled and the lock
  posted,      \* handlers in the queue of the io_service
  io,          \* its thread: idle, inAdd (in a timer's Add), or the object that
               \* the action has
  numAdded, removed, handled,
  takenAt      \* numAdded at each taking of an object from the queue

callVars == <<calls, delayed, adding>>
ioVars == <<posted, io, handled, takenAt>>
actionVars == <<mMode, mStatus, mHasTaskInRuning, mEnabled, mQueue, callVars, ioVars,
                numAdded, removed>>

idle == 0
inAdd == -1

ActionsInit ==
  /\ mMode \in {"FIFO", "FILO"}
  /\ mStatus = "Stoped" /\ mHasTaskInRuning = FALSE /\ mEnabled = TRUE
  /\ mQueue = <<>>
  /\ calls = 0 /\ delayed = 0 /\ adding = 0
  /\ posted = <<>> /\ io = idle
  /\ numAdded = 0 /\ removed = {} /\ handled = <<>> /\ takenAt = <<>>
-----------------------------------------------------------------------------
(* EmitOne, at the end of a step that left queue, status and running so.   *)
NextObject(queue) == IF mMode = "FIFO" THEN Head(queue) ELSE Last(queue)

(* Mutants: a handler is posted while another one is; the front is taken   *)
(* in both modes.                                                          *)
EmitOne_Another(queue, status, running) ==
  IF status = "Started" /\ queue # <<>>
    THEN /\ mQueue' = IF mMode = "FIFO" THEN Tail(queue) ELSE Front(queue)
         /\ mHasTaskInRuning' = TRUE
         /\ posted' = Append(posted, NextObject(queue))
         /\ takenAt' = Append(takenAt, numAdded')
    ELSE mQueue' = queue /\ mHasTaskInRuning' = running /\ UNCHANGED <<posted, takenAt>>
EmitOne_First(queue, status, running) ==
  IF status = "Started" /\ ~running /\ queue # <<>>
    THEN /\ mQueue' = Tail(queue)
         /\ mHasTaskInRuning' = TRUE
         /\ posted' = Append(posted, Head(queue))
         /\ takenAt' = Append(takenAt, numAdded')
    ELSE mQueue' = queue /\ mHasTaskInRuning' = running /\ UNCHANGED <<posted, takenAt>>
EmitOne(queue, status, running) ==
  IF status = "Started" /\ ~running /\ queue # <<>>
    THEN /\ mQueue' = IF mMode = "FIFO" THEN Tail(queue) ELSE Front(queue)
         /\ mHasTaskInRuning' = TRUE
         /\ posted' = Append(posted, NextObject(queue))
         /\ takenAt' = Append(takenAt, numAdded')
    ELSE mQueue' = queue /\ mHasTaskInRuning' = running /\ UNCHANGED <<posted, takenAt>>

SetStatus(from, to) ==
  /\ mStatus \in from /\ mStatus' = to
  /\ UNCHANGED <<mMode, mEnabled, callVars, io, handled, numAdded, removed>>

Start == SetStatus({"Stoped"}, "Started") /\ EmitOne(mQueue, "Started", mHasTaskInRuning)
(* Mutant: nothing is emitted.                                             *)
Resume_Silent ==
  SetStatus({"Suspended"}, "Started") /\ UNCHANGED <<mQueue, mHasTaskInRuning, posted, takenAt>>
Resume == SetStatus({"Suspended"}, "Started") /\ EmitOne(mQueue, "Started", mHasTaskInRuning)
Stop ==
  SetStatus({"Started", "Suspended"}, "Stoped") /\ UNCHANGED <<mQueue, mHasTaskInRuning, posted, takenAt>>
Suspend == SetStatus({"Started"}, "Suspended") /\ UNCHANGED <<mQueue, mHasTaskInRuning, posted, takenAt>>

SetEnable(isEnabled) ==
  /\ mEnabled' = isEnabled
  /\ UNCHANGED <<mMode, mStatus, mHasTaskInRuning, mQueue, callVars, ioVars, numAdded, removed>>

(* Add, first part, and AddAfter, by any thread.                           *)
CallAdd ==
  /\ mEnabled /\ calls < MaxAdds
  /\ calls' = calls + 1
  /\ \/ adding' = adding + 1 /\ UNCHANGED delayed
     \/ delayed' = delayed + 1 /\ UNCHANGED adding
  /\ UNCHANGED <<mMode, mStatus, mHasTaskInRuning, mEnabled, mQueue, ioVars, numAdded, removed>>

(* A timer of AddAfter expires and calls Add on the thread of the timers.  *)
TimerExpires ==
  /\ io = idle /\ delayed > 0
  /\ delayed' = delayed - 1
  /\ io' = IF mEnabled THEN inAdd ELSE idle
  /\ UNCHANGED <<mMode, mStatus, mHasTaskInRuning, mEnabled, mQueue, calls, adding, posted,
                 handled, takenAt, numAdded, removed>>

(* Add, second part.                                                       *)
PushBack ==
  /\ \/ adding > 0 /\ adding' = adding - 1 /\ UNCHANGED io
     \/ io = inAdd /\ io' = idle /\ UNCHANGED adding
  /\ numAdded' = numAdded + 1
  /\ EmitOne(Append(mQueue, numAdded'), mStatus, mHasTaskInRuning)
  /\ UNCHANGED <<mMode, mStatus, mEnabled, calls, delayed, handled, removed>>

RemoveObject(obj) ==
  /\ \E i \in DOMAIN mQueue :
       mQueue[i] = obj /\ (\A j \in 1..(i - 1) : mQueue[j] # obj) /\ mQueue' = RemoveAt(mQueue, i)
  /\ removed' = removed \cup {obj}
  /\ UNCHANGED <<mMode, mStatus, mHasTaskInRuning, mEnabled, callVars, ioVars, numAdded>>

(* EmitOneHandler: the action, then the next object.                       *)
RunAction ==
  /\ io = idle /\ posted # <<>>
  /\ io' = Head(posted) /\ posted' = Tail(posted)
  /\ UNCHANGED <<mMode, mStatus, mHasTaskInRuning, mEnabled, mQueue, callVars, handled,
                 takenAt, numAdded, removed>>
EndAction ==
  /\ io \notin {idle, inAdd}
  /\ handled' = Append(handled, io) /\ io' = idle
  /\ UNCHANGED <<mMode, mStatus, mEnabled, callVars, numAdded, removed>>
  /\ EmitOne(mQueue, mStatus, FALSE)

ActionsNext ==
  \/ Start \/ Resume \/ Stop \/ Suspend
  \/ \E isEnabled \in BOOLEAN : SetEnable(isEnabled)
  \/ CallAdd \/ TimerExpires \/ PushBack
  \/ \E obj \in 1..MaxAdds : RemoveObject(obj)
  \/ RunAction \/ EndAction

(* The io_service runs what it has, an action ends, a call of Add goes on. *)
ActionsFairness ==
  WF_actionVars(RunAction) /\ WF_actionVars(EndAction) /\ WF_actionVars(PushBack)

ActionsSpec == ActionsInit /\ [][ActionsNext]_actionVars /\ ActionsFairness
-----------------------------------------------------------------------------
InFlight == (IF io \in {idle, inAdd} THEN <<>> ELSE <<io>>) \o posted

(* Whatever order Stop, Start, Suspend, Resume, Add and the end of an      *)
(* action come in: the action runs for one object at a time, and a started *)
(* collection with objects always has one on its way to the action, so     *)
(* that the next EmitOne is certain to come.                               *)
NeverStalls ==
  /\ Len(InFlight) = IF mHasTaskInRuning THEN 1 ELSE 0
  /\ mStatus = "Started" /\ mQueue # <<>> => mHasTaskInRuning

(* Every object that was added and not removed is handled once.  First in  *)
(* first out means that objects are taken in the order they were added;    *)
(* last in first out, that an object taken later is older, unless it was   *)
(* not added yet when the earlier one was taken.                           *)
HandledOnce ==
  LET taken == handled \o InFlight
      places == taken \o mQueue
  IN  /\ Len(places) + Cardinality(removed) = numAdded
      /\ ToSet(places) \cup removed = 1..numAdded
      /\ mMode = "FIFO" => \A i, j \in DOMAIN places : i < j => places[i] < places[j]
      /\ mMode = "FILO" => \A i \in DOMAIN taken, j \in DOMAIN places :
           i < j => places[j] < places[i] \/ places[j] > takenAt[i]
      /\ \A i, j \in DOMAIN mQueue : i < j => mQueue[i] < mQueue[j]

(* A collection that stays started works off its queue, in both modes,     *)
(* once objects cease to come (MaxAdds): no handler is the last one while  *)
(* there are objects left.                                                 *)
AllHandled ==
  <>[](mStatus = "Started") => []<>(mQueue = <<>> /\ InFlight = <<>>)
=============================================================================
