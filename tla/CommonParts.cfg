SPECIFICATION Spec
CONSTANTS
  HolderCount = 5
  MaxPushed = 9
  mWindowSize = 5
  MaxKey = 12
  MaxAdds = 4
  Day = 8
  MaxRanges = 3
  MaxTime = 18
  Timer = {t1}
  RingCount = 3
  mCapterCount <- CapterCounts
  mTimeDuration <- TimeDurations
  TickLength = 2
  Intervals = {0, 1, 5}
  StartTimes = {0, 5, 11, 14, 23}
  MaxCurrentTime = 28
INVARIANT HoldersConserved
INVARIANT IsSortedMap
INVARIANT NeverStalls
INVARIANT HandledOnce
INVARIANT CompletePartitions
INVARIANT FindsCurrent
INVARIANT ChecksAtEnd
INVARIANT OnTime
INVARIANT InOneSlot
INVARIANT EveryTimeHasARing
PROPERTY ImplementsFifo
PROPERTY AllHandled
PROPERTY ReportsChange
CHECK_DEADLOCK FALSE
