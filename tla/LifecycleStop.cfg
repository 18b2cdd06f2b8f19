SPECIFICATION TimelySpec
CONSTANTS
  WorkerCount = 2
  MaxRaises = 3
INVARIANT StopDrains
PROPERTY StopReturns
CHECK_DEADLOCK FALSE
