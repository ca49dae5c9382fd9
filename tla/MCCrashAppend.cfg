SPECIFICATION Spec
CONSTANTS
  ReuseLogs = {FALSE}
  Syncs = {TRUE}
  RecoverBuffer = 2
  MaxWrites = 2
  MaxSwitches = 0
  MaxCompactions = 0
  MaxPins = 0
  FaultKinds = {"append"}
  MaxFaults = 1
  MaxProcessCrashes = 1
  MaxMachineCrashes = 0
  MaxAccidents = 2
INVARIANTS
  AckedSurvives
