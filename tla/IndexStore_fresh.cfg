SPECIFICATION Spec
CONSTANTS
  a = a
  b = b
  Files <- MCFiles
  Texts = {1, 2, 3, 4}
  EditPhases = {"down"}
  WatchEnabled = TRUE
  CallGraphEnabled = FALSE
  Reverts = FALSE
  MaxEdits = 3
  MaxStops = 2
  MaxReindexes = 0
INVARIANTS
  ReadyDocumentsCurrent
  ReadySymbolsCurrent
CHECK_DEADLOCK FALSE
