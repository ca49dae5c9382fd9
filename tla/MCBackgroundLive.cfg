SPECIFICATION FairSpec
CONSTANTS
  DBs = {d1, d2}
  Callers = {c1}
  NoCaller = NoCaller
  Parts <- MCParts
  MaxLevel = 2
  MaxMemCompactLevel = 1
  Trigger = 2
  FaultKinds = {"flush", "nested", "work", "sync"}
  MaxWrites = 1
  MaxFaults = 1
  MaxCalls = 1
  MaxBackups = 1
  InitFiles <- MCMovableFiles
PROPERTIES
  CallsReturn
  ClosesReturn
CHECK_DEADLOCK FALSE
