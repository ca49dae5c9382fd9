SPECIFICATION Spec
CONSTANTS
  Keys = {1, 2, 3}
  NumLevels = 3
  MaxMemCompactLevel = 2
  L0_CompactionTrigger = 2
  NestedIn = {"auto"}
  Types = {"put", "delete"}
  MaxSeq = 5
  Admits <- ThreeWritesOrFivePuts
CHECK_DEADLOCK FALSE
INVARIANTS
  LevelsDisjoint
  NewerAbove
PROPERTIES
  ImplementsStore
