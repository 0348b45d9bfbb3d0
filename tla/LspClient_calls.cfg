SPECIFICATION LspFairSpec
CONSTANTS
  d = d f = f w = w
  NoServer = 0 Nobody = Nobody NoRequest = NoRequest Closed = Closed
  Callers = {d, f}
  Holders = {d, f}
  Hurried = {f}
  Writers = {w}
  Workers = 2
  Servers = {1, 2}
  PipeCapacity = 1
  MaxCalls <- MCMaxCalls
INVARIANTS
  LspInv
  AnswersMatch
  WaitersAreHeard
PROPERTIES
  HurriedReturn
  EveryCallReturns
CHECK_DEADLOCK FALSE
