SPECIFICATION Spec
CONSTANTS
  NodeCount = 2
  Flows = 2
INVARIANT InOnePlace
INVARIANT WaitsWhereListed
INVARIANT NoListForgotten
INVARIANT EarliestFirst
CHECK_DEADLOCK FALSE
