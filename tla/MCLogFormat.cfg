SPECIFICATION Spec
CONSTANTS
  kBlockSize = 7
  kHeaderSize = 3
  Lengths = {0, 1, 2, 4, 9}
  MaxRecords = 3
  MaxFaults = 1
CHECK_DEADLOCK FALSE
INVARIANTS
  OnlyWholeRecords
  DamageIsLocal
  CutIsSilent
