SPECIFICATION FlowFairSpec
CONSTANTS
  x = x
  Graphs <- MCGraphs
INVARIANTS
  FlowInv
  UnreachableIsNeverRun
  GraphFlowsAsProgram
  DominatorsSound
  DominatorsFoundInOrder
  LoopsAreFound
  ReachingIsPathwise
  UsesElsewhereAreFound
  LivenessIsPathwise
PROPERTIES
  VisitsProgress
  AnalysisEnds
CHECK_DEADLOCK FALSE
