SPECIFICATION FlowSpec
CONSTANTS
  x = x
  Graphs <- MCRewrites
INVARIANTS
  DeadStoresAreDead
CHECK_DEADLOCK FALSE
