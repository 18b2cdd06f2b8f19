SPECIFICATION DrainedSpec
CONSTANTS
  NodeCount = 3
  ThreadCount = 1
  WorkerCount = 1
  PoolSize = 3
  AlwaysAccept = {}
  MaxRaises = 4
INVARIANT DispatchedThroughOne
