SPECIFICATION Spec
CONSTANTS
  ReuseLogs = {FALSE}
  Syncs = {TRUE, FALSE}
  RecoverBuffer = 2
  MaxWrites = 2
  MaxSwitches = 1
  MaxCompactions = 0
  MaxPins = 0
  FaultKinds = {}
  MaxFaults = 0
  MaxProcessCrashes = 0
  MaxMachineCrashes = 1
  MaxAccidents = 2
INVARIANTS
  SyncWriteCoversEarlier
