SPECIFICATION SerialFairSpec
CONSTANTS
  MaxWaiters = 4
  MaxWorkflow = 2
  Successors = {s1}
INVARIANT TypeOK
INVARIANT SerialInv
INVARIANT OrderedAdmission
INVARIANT ObservedValue
INVARIANT CountedOnce
PROPERTY ImplementsOrderedAccess
PROPERTY EachTaskCompletes
CHECK_DEADLOCK FALSE
