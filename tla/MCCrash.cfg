SPECIFICATION Spec
CONSTANTS
  ReuseLogs = {TRUE, FALSE}
  Syncs = {TRUE, FALSE}
  RecoverBuffer = 1
  MaxWrites = 2
  MaxSwitches = 1
  MaxCompactions = 1
  MaxPins = 1
  FaultKinds = {"append", "sync", "build", "compaction", "manifest", "open"}
  MaxFaults = 1
  MaxProcessCrashes = 1
  MaxMachineCrashes = 1
  MaxAccidents = 2
INVARIANTS
  RecoversUnlessTainted
  AckedUnlessTainted
  LiveTablesExist
  DiskCoversMemory
  SequencesUnique
  NumbersFresh
