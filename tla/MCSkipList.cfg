SPECIFICATION Spec
CONSTANTS
  Keys = {1, 2, 3}
  MaxHeight = 2
  MaxOps = 2
CHECK_DEADLOCK FALSE
INVARIANTS
  NoGarbage
  SearchFindsAll
PROPERTIES
  SearchReturns
