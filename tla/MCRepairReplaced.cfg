SPECIFICATION Spec
CONSTANTS
  Logs <- NoLogs
  Tables <- MCTables
  Manifests = {3}
  MaxFaults = 1
  MaxCrashes = 2
INVARIANT
  NothingGone
CHECK_DEADLOCK FALSE
