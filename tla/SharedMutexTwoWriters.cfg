SPECIFICATION FairBacklogSpec
CONSTANTS
  MaxWaiters = 4
  MaxWorkflow = 2
  Successors = {s1}
PROPERTY EachTaskCompletes
CHECK_DEADLOCK FALSE
