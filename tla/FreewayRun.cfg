SPECIFICATION FairSpec
CONSTANTS
  NodeCount = 2
  MaxWorkflow = 2
INVARIANT Consistent
INVARIANT CountsPrecursors
INVARIANT NoRaiseMissed
INVARIANT NothingHeldAtEnd
PROPERTY EachTaskCompletes
CHECK_DEADLOCK FALSE
