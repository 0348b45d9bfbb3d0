SPECIFICATION FairSpec
CONSTANTS
  a = a
  b = b
  Files <- MCFiles
  Texts = {1, 2}
  EditPhases = {"down", "ready"}
  WatchEnabled = TRUE
  CallGraphEnabled = TRUE
  Reverts = TRUE
  MaxEdits = 2
  MaxStops = 0
  MaxReindexes = 0
INVARIANT SettledIsCurrent
PROPERTY EventuallyCurrent
CHECK_DEADLOCK FALSE
