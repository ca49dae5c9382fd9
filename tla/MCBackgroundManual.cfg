SPECIFICATION Spec
CONSTANTS
  DBs = {d1}
  Callers = {c1}
  NoCaller = NoCaller
  Parts <- MCParts
  MaxLevel = 2
  MaxMemCompactLevel = 1
  Trigger = 2
  FaultKinds = {"nested"}
  MaxWrites = 1
  MaxFaults = 1
  MaxCalls = 2
  MaxBackups = 1
  InitFiles <- MCInitFiles
INVARIANT ManualStillThere
CHECK_DEADLOCK FALSE
