----------------------------- MODULE TimeRanges -----------------------------
(***************************************************************************)
(* TimeRange.cpp, TimeRangePhase.cpp and TimeRangeScheduler.cpp.  A phase  *)
(* divides the day into ranges: those that were added, and after Complete  *)
(* the times between them.  The scheduler tells a listener when the time   *)
(* goes from one range to the next.  A time is a number of milliseconds;   *)
(* bounds of ranges are even, so that there are times between any two.     *)
(* A phase is not added to after Complete, nor cleared while a scheduler   *)
(* uses it.                                                                *)
(***************************************************************************)
EXTENDS Integers, FiniteSets, FiniteSetsExt

CONSTANTS
  Day,          \* the length of a day, even
  MaxRanges,    \* bound on the ranges that are added
  MaxTime       \* bound on the time

ASSUME DayAssumption == Day \in Nat /\ Day > 0 /\ Day % 2 = 0
ASSUME MaxTimeAssumption == MaxTime \in Nat

VARIABLES
  phase,           \* "building"; then what Complete returned: "complete", "failed"
  mTimeRanges,     \* a map that is ordered by the start of the ranges
  mCurrentIt,      \* iterators are the starts of the ranges they point to
  now,             \* the time of the last Check
  mNextCheckTime, mCurrentRange

schedulerVars == <<now, mNextCheckTime, mCurrentRange>>
rangeVars == <<phase, mTimeRanges, mCurrentIt, schedulerVars>>

never == -1
looping == -2    \* mCurrentRange when FindNextCheckTime does not return

TimeOfDay == 0..(Day - 1)
Bound == {t \in 0..Day : t % 2 = 0}
AllRanges ==
  [mStart : Bound \ {Day}, mEnd : Bound, mIsStartOpen : BOOLEAN, mIsEndOpen : BOOLEAN]

RangesInit ==
  /\ phase = "building" /\ mTimeRanges = {} /\ mCurrentIt = never
  /\ now = 0 /\ mNextCheckTime = never /\ mCurrentRange = never
-----------------------------------------------------------------------------
(* TimeRange.                                                              *)

IsCrossDay(r) == r.mEnd < r.mStart

IsInRange(r, t) ==
  LET afterStart == t > r.mStart \/ (~r.mIsStartOpen /\ t = r.mStart)
      beforeEnd == t < r.mEnd \/ (~r.mIsEndOpen /\ t = r.mEnd)
  IN  IF IsCrossDay(r) THEN afterStart \/ beforeEnd
      ELSE \/ t > r.mStart /\ t < r.mEnd
           \/ ~r.mIsStartOpen /\ t = r.mStart
           \/ ~r.mIsEndOpen /\ t = r.mEnd

HasIntersection(r, other) ==
  IF IsInRange(r, other.mStart) THEN other.mStart # r.mEnd \/ ~other.mIsStartOpen
  ELSE IsInRange(r, other.mEnd) /\ (other.mEnd # r.mStart \/ ~other.mIsEndOpen)

IsNeedComplete(r, other) == r.mEnd # other.mStart \/ (r.mIsEndOpen /\ other.mIsStartOpen)

(* Mutant: the bounds are open where those of the neighbours are.          *)
CompleteRange_SameBounds(r, other) ==
  [mStart |-> r.mEnd, mIsStartOpen |-> r.mIsEndOpen,
   mEnd |-> other.mStart, mIsEndOpen |-> other.mIsStartOpen]
CompleteRange(r, other) ==
  [mStart |-> r.mEnd, mIsStartOpen |-> ~r.mIsEndOpen,
   mEnd |-> other.mStart, mIsEndOpen |-> ~other.mIsStartOpen]

IsValid(r) == r.mStart # r.mEnd \/ (~r.mIsStartOpen /\ ~r.mIsEndOpen)
-----------------------------------------------------------------------------
(* TimeRangePhase.                                                         *)

Starts(ranges) == {r.mStart : r \in ranges}
At(start) == CHOOSE r \in mTimeRanges : r.mStart = start

(* Insertion keeps the range that has the key already.                     *)
Inserted(ranges, new) == ranges \cup {r \in new : r.mStart \notin Starts(ranges)}

(* What the callers add: no range of a single time, and no two ranges that *)
(* leave one time between them, because the range that Complete makes for  *)
(* it has the same start as the second of the two and is not inserted.     *)
Separate(r, q) ==
  /\ r.mStart # r.mEnd
  /\ ~(r.mEnd = q.mStart /\ r.mIsEndOpen /\ q.mIsStartOpen)
  /\ ~(q.mEnd = r.mStart /\ q.mIsEndOpen /\ r.mIsStartOpen)

AddRange(r) ==
  /\ phase = "building" /\ Cardinality(mTimeRanges) < MaxRanges
  /\ \A q \in mTimeRanges \cup {r} : Separate(r, q)
  /\ mTimeRanges' = Inserted(mTimeRanges, {r})
  /\ mCurrentIt' = Min(Starts(mTimeRanges'))
  /\ UNCHANGED <<phase, schedulerVars>>

RemoveRange(start) ==
  /\ phase = "building" /\ start \in Starts(mTimeRanges)
  /\ mTimeRanges' = mTimeRanges \ {At(start)}
  /\ mCurrentIt' = IF mTimeRanges' = {} THEN never ELSE Min(Starts(mTimeRanges'))
  /\ UNCHANGED <<phase, schedulerVars>>

(* Not while a scheduler has iterators into the map.                       *)
Clear ==
  /\ mTimeRanges # {} /\ mCurrentRange = never
  /\ phase' = "building" /\ mTimeRanges' = {} /\ mCurrentIt' = never
  /\ UNCHANGED schedulerVars

NextStart(start) ==
  LET later == {s \in Starts(mTimeRanges) : s > start}
  IN  IF later = {} THEN Min(Starts(mTimeRanges)) ELSE Min(later)

(* CheckValid for every range and the next, the last one and the first.    *)
Neighbours == {<<r, At(NextStart(r.mStart))>> : r \in mTimeRanges}
IsConflict(p) == ~IsValid(p[1]) \/ HasIntersection(p[1], p[2])
Unknowns ==
  {CompleteRange(p[1], p[2]) : p \in {q \in Neighbours : IsNeedComplete(q[1], q[2])}}

Complete ==
  /\ phase = "building" /\ mTimeRanges # {}
  /\ IF Cardinality(mTimeRanges) > 1 /\ \E p \in Neighbours : IsConflict(p)
       THEN phase' = "failed" /\ UNCHANGED <<mTimeRanges, mCurrentIt>>
       ELSE /\ phase' = "complete"
            /\ mTimeRanges' = Inserted(mTimeRanges, Unknowns)
            /\ mCurrentIt' = Min(Starts(mTimeRanges'))
  /\ UNCHANGED schedulerVars

(* GetCurrent(t): from the range found last, down or up to one that has t; *)
(* what is before the first range is in the last, which goes over midnight. *)
(* Mutant: the range that begins with t, without t, is searched upwards.   *)
GoesDown_Strictly(t) == mCurrentIt > t
GoesDown(t) == mCurrentIt >= t

Current(t) ==
  LET starts == Starts(mTimeRanges)
      below == {s \in starts : s < mCurrentIt /\ IsInRange(At(s), t)}
      above == {s \in starts : s > mCurrentIt /\ IsInRange(At(s), t)}
  IN  IF IsInRange(At(mCurrentIt), t) THEN mCurrentIt
      ELSE IF GoesDown(t) THEN IF below = {} THEN Max(starts) ELSE Max(below)
      ELSE IF above = {} THEN Min(starts) ELSE Min(above)

GetCurrent(t) ==
  /\ phase = "complete"
  /\ mCurrentIt' = Current(t)
  /\ UNCHANGED <<phase, mTimeRanges, schedulerVars>>
-----------------------------------------------------------------------------
(* TimeRangeScheduler.                                                     *)

(* How long it is from t2 to t1, both times of the day.                    *)
computeInterval(t1, t2) == IF t1 < t2 THEN t1 + Day - t2 ELSE t1 - t2

(* The first range from start on that does not end within a millisecond.   *)
(* Mutant: the range that ends now counts.                                 *)
LastingFrom_Ending(start, t) == start
LastingFrom(start, t) ==
  LET lasts(s) == computeInterval(At(s).mEnd, t) > 1
      from[k \in 0..Cardinality(mTimeRanges)] ==
        IF k = 0 THEN start
        ELSE IF lasts(from[k - 1]) THEN from[k - 1] ELSE NextStart(from[k - 1])
      last == from[Cardinality(mTimeRanges)]
  IN  IF lasts(last) THEN last ELSE looping

(* Mutant: an end that is past today is not moved to tomorrow.             *)
EndAfter_Today(start, time) == Day * (time \div Day) + At(start).mEnd
EndAfter(start, time) ==
  LET end == Day * (time \div Day) + At(start).mEnd
  IN  IF end < time THEN end + Day ELSE end

FindNextCheckTime(time) ==
  /\ mCurrentIt' = Current(time % Day)
  /\ mCurrentRange' = LastingFrom(mCurrentIt', time % Day)
  /\ mNextCheckTime' = IF mCurrentRange' = looping THEN never ELSE EndAfter(mCurrentRange', time)

Construct(time) ==
  /\ phase = "complete" /\ mCurrentRange = never
  /\ now' = time
  /\ FindNextCheckTime(time)
  /\ UNCHANGED <<phase, mTimeRanges>>

(* Check(time) tells the listener of a change from mCurrentRange to the    *)
(* next range if it is time to.                                            *)
Check(time) ==
  /\ mNextCheckTime # never /\ time > now
  /\ now' = time
  /\ IF time >= mNextCheckTime
       THEN FindNextCheckTime(time)
       ELSE UNCHANGED <<mCurrentIt, mNextCheckTime, mCurrentRange>>
  /\ UNCHANGED <<phase, mTimeRanges>>

RangesNext ==
  \/ \E r \in AllRanges : AddRange(r)
  \/ \E start \in Bound : RemoveRange(start)
  \/ Complete \/ Clear
  \/ \E t \in TimeOfDay : GetCurrent(t)
  \/ \E time \in 0..MaxTime : Construct(time) \/ Check(time)

RangesSpec == RangesInit /\ [][RangesNext]_rangeVars
-----------------------------------------------------------------------------
(* Complete refuses the ranges only if two of them have a time in common,  *)
(* and otherwise every time of the day is in one range and in no other,    *)
(* with ranges open or closed on either side and over midnight or not.     *)
CompletePartitions ==
  LET at(t) == {r \in mTimeRanges : IsInRange(r, t)}
  IN  /\ phase = "complete" => \A t \in TimeOfDay : Cardinality(at(t)) = 1
      /\ phase = "failed" => \E t \in TimeOfDay : Cardinality(at(t)) > 1

(* Whichever range was found last, GetCurrent finds the one that has t.    *)
FindsCurrent ==
  phase = "complete" => \A t \in TimeOfDay : IsInRange(At(Current(t)), t)

(* After a check, however late, the scheduler has the range the time is in *)
(* or enters within a millisecond, and checks again when it is over.  Only *)
(* where all ranges end at midnight, in the last millisecond of the day,   *)
(* it looks for such a range for ever.                                     *)
ChecksAtEnd ==
  /\ mCurrentRange \notin {never, looping} =>
       now < mNextCheckTime /\ \A t \in (now + 1)..(mNextCheckTime - 1) :
         IsInRange(At(mCurrentRange), t % Day) \/ t % Day = mCurrentRange
  /\ mCurrentRange = looping =>
       now % Day = Day - 1 /\ \A r \in mTimeRanges : r.mEnd \in {0, Day}

(* A check that comes in time reports the range that the scheduler has     *)
(* then.  It does not where Complete put a range between 24:00 and 00:00:  *)
(* that one, empty or a moment long, is reported at midnight, and the one  *)
(* that the scheduler goes on with never is.                               *)
ReportsChange ==
  [][/\ mNextCheckTime # never /\ now' = mNextCheckTime /\ now # now'
     /\ Day \notin Starts(mTimeRanges)
     => mCurrentRange' = NextStart(mCurrentRange)]_rangeVars
=============================================================================
