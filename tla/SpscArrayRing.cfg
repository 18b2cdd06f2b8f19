SPECIFICATION Spec
CONSTANTS
  mCapacity = 3
  MaxPushes = 8
INVARIANT InOrder
INVARIANT RingInv
CHECK_DEADLOCK FALSE
PROPERTY ImplementsFifo
