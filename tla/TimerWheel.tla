----------------------------- MODULE TimerWheel -----------------------------
(***************************************************************************)
(* The timer engine of DTimer.cpp, which a build with                      *)
(* _USING_DFC_TIMER_ENGINE has: rings of slots, each turning once while    *)
(* the next one moves on by a slot.  A slot of a ring holds the timers of  *)
(* that part of its turn, and its timers go down to the ring before when   *)
(* the hand reaches it.  AddTimer takes the lock for each ring anew, so    *)
(* the main loop may tick in between.                                      *)
(* A timer is added when it is not in the engine (DTimer.h says so), and   *)
(* the engine is started once.                                             *)
(***************************************************************************)
EXTENDS Integers, FiniteSets, FiniteSetsExt

CONSTANTS
  Timer,
  RingCount,
  mCapterCount, mTimeDuration,   \* of each ring
  TickLength,    \* CHECKING_INTERVAL_IN_MILLISECONDS
  Intervals,     \* the values of mInterval, 0 for a timer that fires once
  StartTimes,    \* when the engine may be started
  MaxCurrentTime

(* The rings of DTimerEngineBase: a turn of one takes as long as a slot of *)
(* the next.                                                               *)
ASSUME RingsAssumption ==
  /\ RingCount \in Nat \ {0} /\ TickLength \in Nat \ {0}
  /\ mCapterCount \in [1..RingCount -> Nat \ {0}]
  /\ mTimeDuration \in [1..RingCount -> Nat]
  /\ \A r \in 1..RingCount : mTimeDuration[r] =
       mCapterCount[r] * (IF r = 1 THEN TickLength ELSE mTimeDuration[r - 1])
ASSUME TimesAssumption == Intervals \subseteq Nat /\ StartTimes \subseteq Nat

VARIABLES
  mCurrentHand, mStartTime,   \* of each ring
  mRing,                      \* the timers of each slot of each ring
  mExpireTime, mInterval, mCanceled,
  ringOf,        \* the ring that AddTimer, in another thread, tries next for
                 \* a timer; notAdding when it is not about this timer
  diff2Current,  \* whether the timer expired less than a tick ago
  triggered,     \* the list that MainLoop got from Tick
  pending,       \* timers that AddTimer accepted
  ahead          \* those whose time was to come when they were accepted

wheelVars == <<mCurrentHand, mStartTime, mRing>>
timerVars == <<mExpireTime, mInterval, mCanceled>>
adderVars == <<ringOf, diff2Current>>
engineVars == <<wheelVars, timerVars, adderVars, triggered, pending, ahead>>

Ring == 1..RingCount
Chapter(r) == 0..(mCapterCount[r] - 1)
notAdding == 0

unitDuration(r) == mTimeDuration[r] \div mCapterCount[r]
EndTime(r) == mStartTime[r] + mTimeDuration[r]
slotIndex(r, time) == (time % mTimeDuration[r]) \div unitDuration(r)
GetCurrentTime == mStartTime[1] + ((mCurrentHand[1] * mTimeDuration[1]) \div mCapterCount[1])

EngineInit ==
  /\ \E nowTime \in StartTimes :
       /\ mCurrentHand = [r \in Ring |-> slotIndex(r, nowTime)]
       /\ mStartTime = [r \in Ring |-> (nowTime \div mTimeDuration[r]) * mTimeDuration[r]]
  /\ mRing = [r \in Ring |-> [s \in Chapter(r) |-> {}]]
  /\ mExpireTime = [t \in Timer |-> 0]
  /\ mInterval = [t \in Timer |-> 0]
  /\ mCanceled = [t \in Timer |-> FALSE]
  /\ ringOf = [t \in Timer |-> notAdding]
  /\ diff2Current = [t \in Timer |-> FALSE]
  /\ triggered = {} /\ pending = {} /\ ahead = {}
-----------------------------------------------------------------------------
(* AddTimer.                                                               *)

(* Insert takes the timer.  Mutant: the turn of the ring is not asked for. *)
CanInsert_AnyTurn(r, time) == slotIndex(r, time) > mCurrentHand[r]
CanInsert(r, time) == time < EndTime(r) /\ slotIndex(r, time) > mCurrentHand[r]

(* A timer less than a tick late is entered for the next tick.             *)
IsJustLate(time) == time - GetCurrentTime \in (1 - TickLength)..(-1)

Insert2(t, r, s, time) ==
  /\ mRing' = [mRing EXCEPT ![r][s] = @ \cup {t}]
  /\ pending' = pending \cup {t}
  /\ ahead' = IF time >= GetCurrentTime + TickLength THEN ahead \cup {t} ELSE ahead

(* ExpireFromNow, ExpireAt and RepeatFrom.                                 *)
Expire(t, time, interval) ==
  /\ t \notin pending /\ ringOf[t] = notAdding
  /\ mExpireTime' = [mExpireTime EXCEPT ![t] = time]
  /\ mInterval' = [mInterval EXCEPT ![t] = interval]
  /\ ringOf' = [ringOf EXCEPT ![t] = 1]
  /\ UNCHANGED <<wheelVars, mCanceled, diff2Current, triggered, pending, ahead>>

TryRing(t) ==
  /\ ringOf[t] \in Ring
  /\ IF CanInsert(ringOf[t], mExpireTime[t])
       THEN /\ Insert2(t, ringOf[t], slotIndex(ringOf[t], mExpireTime[t]), mExpireTime[t])
            /\ ringOf' = [ringOf EXCEPT ![t] = notAdding]
       ELSE /\ ringOf' = [ringOf EXCEPT ![t] = @ + 1]
            /\ UNCHANGED <<mRing, pending, ahead>>
  /\ UNCHANGED <<mCurrentHand, mStartTime, timerVars, diff2Current, triggered>>

ReadCurrent(t) ==
  /\ ringOf[t] = RingCount + 1
  /\ diff2Current' = [diff2Current EXCEPT ![t] = IsJustLate(mExpireTime[t])]
  /\ ringOf' = [ringOf EXCEPT ![t] = @ + 1]
  /\ UNCHANGED <<wheelVars, timerVars, triggered, pending, ahead>>

NextSlot == (mCurrentHand[1] + 1) % mCapterCount[1]
InsertLate(t) ==
  /\ ringOf[t] = RingCount + 2
  /\ ringOf' = [ringOf EXCEPT ![t] = notAdding]
  /\ IF diff2Current[t]
       THEN Insert2(t, 1, NextSlot, mExpireTime[t])
       ELSE UNCHANGED <<mRing, pending, ahead>>
  /\ UNCHANGED <<mCurrentHand, mStartTime, timerVars, diff2Current, triggered>>

Cancel(t) ==
  /\ ~mCanceled[t]
  /\ mCanceled' = [mCanceled EXCEPT ![t] = TRUE]
  /\ UNCHANGED <<wheelVars, mExpireTime, mInterval, adderVars, triggered, pending, ahead>>
-----------------------------------------------------------------------------
(* MainLoop.                                                               *)

(* Tick goes on to the next ring where the hand comes to the end.          *)
(* Mutant: only the ring before is asked, which stays at its end for long. *)
AtEnd(r) == mCurrentHand[r] = mCapterCount[r] - 1
Ticks_Previous(r) == r = 1 \/ AtEnd(r - 1)
Ticks(r) == \A q \in 1..(r - 1) : AtEnd(q)
HandAfter(r) == IF AtEnd(r) THEN 0 ELSE mCurrentHand[r] + 1

(* A timer whose slot in ring q comes under the hand goes down: each ring  *)
(* before takes it (its turn is the new one then) and gives it on if its   *)
(* slot there is the one under the hand.                                   *)
Takes(r, t) == mExpireTime[t] < EndTime(r) + mTimeDuration[r]
UnderHand(r, t) == slotIndex(r, mExpireTime[t]) = HandAfter(r)
Given(r) ==
  {t \in Timer : \E q \in (r + 1)..RingCount :
     /\ Ticks(q) /\ t \in mRing[q][HandAfter(q)]
     /\ \A p \in r..(q - 1) : Takes(p, t)
     /\ \A p \in (r + 1)..(q - 1) : UnderHand(p, t)}
Filled(r, s) == mRing[r][s] \cup {t \in Given(r) : slotIndex(r, mExpireTime[t]) = s}

(* Mutant: the slot under the hand is not emptied.                         *)
SlotAfter_Kept(r, s) == Filled(r, s)
SlotAfter(r, s) == IF Ticks(r) /\ s = HandAfter(r) THEN {} ELSE Filled(r, s)

Tick ==
  /\ triggered = {} /\ GetCurrentTime < MaxCurrentTime
  /\ mCurrentHand' = [r \in Ring |-> IF Ticks(r) THEN HandAfter(r) ELSE mCurrentHand[r]]
  /\ mStartTime' = [r \in Ring |-> IF Ticks(r) /\ AtEnd(r) THEN EndTime(r) ELSE mStartTime[r]]
  /\ mRing' = [r \in Ring |-> [s \in Chapter(r) |-> SlotAfter(r, s)]]
  /\ triggered' = Filled(1, HandAfter(1))
  /\ UNCHANGED <<timerVars, adderVars, pending, ahead>>

(* Where AddTimer puts a timer if no tick comes in between, if anywhere.   *)
SlotsFor(time) ==
  LET able == {r \in Ring : CanInsert(r, time)}
  IN  IF able # {} THEN {<<Min(able), slotIndex(Min(able), time)>>}
      ELSE IF IsJustLate(time) THEN {<<1, NextSlot>>} ELSE {}

(* The action of a timer that was not canceled; a repeated timer is added  *)
(* again by this thread, which does not tick meanwhile.                    *)
Trigger(t) ==
  /\ t \in triggered
  /\ triggered' = triggered \ {t}
  /\ LET time == mExpireTime[t] + mInterval[t]
         slots == IF mCanceled[t] \/ mInterval[t] = 0 THEN {} ELSE SlotsFor(time)
     IN  /\ mExpireTime' = [mExpireTime EXCEPT ![t] = IF mCanceled[t] THEN @ ELSE time]
         /\ mRing' = [r \in Ring |-> [s \in Chapter(r) |->
              mRing[r][s] \cup {u \in {t} : <<r, s>> \in slots}]]
         /\ pending' = pending \ {u \in {t} : slots = {}}
         /\ ahead' = (ahead \ {t}) \cup
              {u \in {t} : slots # {} /\ time >= GetCurrentTime + TickLength}
  /\ UNCHANGED <<mCurrentHand, mStartTime, mInterval, mCanceled, adderVars>>

ExpireTimes == (GetCurrentTime - 2 * TickLength)..(GetCurrentTime + mTimeDuration[RingCount])

EngineNext ==
  \/ Tick
  \/ \E t \in Timer :
       \/ TryRing(t) \/ ReadCurrent(t) \/ InsertLate(t) \/ Cancel(t) \/ Trigger(t)
       \/ \E time \in ExpireTimes \cap Nat, interval \in Intervals : Expire(t, time, interval)
EngineSpec == EngineInit /\ [][EngineNext]_engineVars
-----------------------------------------------------------------------------
(* A timer that is accepted before its tick goes off in that very tick,    *)
(* not before and not a turn later, however many rings it came down, with  *)
(* the main loop ticking while AddTimer goes from ring to ring.            *)
OnTime ==
  \A t \in ahead :
    LET due == TickLength * (mExpireTime[t] \div TickLength)
    IN  IF t \in triggered THEN due = GetCurrentTime ELSE due > GetCurrentTime

Places == UNION {{<<r, s>> : s \in Chapter(r)} : r \in Ring}

(* No accepted timer is lost or entered twice on its way down the rings    *)
(* (Tick asserts that it fits), be it late, repeated or canceled.          *)
InOneSlot ==
  \A t \in Timer :
    Cardinality({p \in Places : t \in mRing[p[1]][p[2]]}) =
      IF t \in pending \ triggered THEN 1 ELSE 0

(* The turns of the rings fit together: a timer for a later tick than the  *)
(* current one, up to the end of the last ring's turn, finds a ring.  The  *)
(* current tick finds none, and neither does a time after that turn,       *)
(* however near.                                                           *)
EveryTimeHasARing ==
  \A time \in GetCurrentTime..(EndTime(RingCount) + TickLength) :
    (\E r \in Ring : CanInsert(r, time))
      <=> time \in (GetCurrentTime + TickLength)..(EndTime(RingCount) - 1)
=============================================================================
