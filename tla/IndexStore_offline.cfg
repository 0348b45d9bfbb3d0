SPECIFICATION Spec
CONSTANTS
  a = a
  b = b
  Files <- MCFiles
  Texts = {1, 2}
  EditPhases = {"down"}
  WatchEnabled = TRUE
  CallGraphEnabled = TRUE
  Reverts = TRUE
  MaxEdits = 2
  MaxStops = 2
  MaxReindexes = 1
INVARIANTS
  TypeOK
  RowsTruthful
  ReadyGraphCurrentUnlessTorn
CHECK_DEADLOCK FALSE
