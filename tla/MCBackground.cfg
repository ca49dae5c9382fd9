SPECIFICATION Spec
CONSTANTS
  DBs = {d1, d2}
  Callers = {c1, c2}
  NoCaller = NoCaller
  Parts <- MCParts
  MaxLevel = 2
  MaxMemCompactLevel = 1
  Trigger = 2
  FaultKinds = {"flush", "nested", "work", "sync"}
  MaxWrites = 1
  MaxFaults = 1
  MaxCalls = 2
  MaxBackups = 1
  InitFiles <- MCInitFiles
SYMMETRY Symmetry
INVARIANTS
  NoWorkOnDestroyed
  WorkerAwake
  ManualCompletes
PROPERTIES
  BackupSeesOneVersion
CHECK_DEADLOCK FALSE
