SPECIFICATION FairSpec
CONSTANTS
  WorkerCount = 1
  MaxRaises = 1
PROPERTY StopReturns
CHECK_DEADLOCK FALSE
