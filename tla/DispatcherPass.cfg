SPECIFICATION Spec
CONSTANTS
  NodeCount = 4
  ThreadCount = 2
  WorkerCount = 2
  PoolSize = 8
  AlwaysAccept = {4}
  MaxRaises = 2
INVARIANT DispatchedThroughOne
INVARIANT WaitingLockCounts
INVARIANT OwnTaskFirst
INVARIANT RegisteredBeforeDispatch
