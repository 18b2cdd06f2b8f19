SPECIFICATION BacklogSpec
CONSTANTS
  NodeCount = 3
  MaxWorkflow = 2
INVARIANT Consistent
INVARIANT NothingHeldAtEnd
