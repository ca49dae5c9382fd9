SPECIFICATION Spec
CONSTANTS
  Keys = {1, 2, 3}
  NumLevels = 3
  MaxMemCompactLevel = 2
  L0_CompactionTrigger = 2
  NestedIn = {"manual"}
  Types = {"put"}
  MaxSeq = 4
  Admits <- NoSnapshots
CHECK_DEADLOCK FALSE
INVARIANTS
  LevelsDisjoint
