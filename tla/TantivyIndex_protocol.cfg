SPECIFICATION Spec
CONSTANTS
  i1 = i1
  i2 = i2
  s1 = s1
  c1 = c1
  f1 = f1
  f2 = f2
  NoThread = NoThread
  Indexers = {i1, i2}
  Searchers = {s1}
  Committers = {c1}
  Files = {f1}
  CommitsCanFail = FALSE
  MaxOps = 4
  MaxClears = 1
  MaxStops = 1
INVARIANTS
  ReadsSeeWrites
  ClearIsTotal
  FreshInv
PROPERTY Fresh
