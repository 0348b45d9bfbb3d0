SPECIFICATION FlowSpec
CONSTANTS
  x = x
  Graphs <- MCWrapped
INVARIANTS
  UnreachableIsNeverRun
CHECK_DEADLOCK FALSE
