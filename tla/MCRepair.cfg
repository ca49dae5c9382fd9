SPECIFICATION Spec
CONSTANTS
  Logs <- MCLogs
  Tables <- MCTables
  Manifests = {3}
  MaxFaults = 1
  MaxCrashes = 2
INVARIANTS
  NothingDestroyed
  RepairedOpens
  RepairKeepsData
CHECK_DEADLOCK FALSE
