SPECIFICATION Spec
CONSTANTS
  ReuseLogs = {FALSE}
  Syncs = {FALSE}
  RecoverBuffer = 2
  MaxWrites = 2
  MaxSwitches = 2
  MaxCompactions = 1
  MaxPins = 0
  FaultKinds = {"manifest"}
  MaxFaults = 1
  MaxProcessCrashes = 1
  MaxMachineCrashes = 0
  MaxAccidents = 2
INVARIANTS
  RecoverySucceeds
