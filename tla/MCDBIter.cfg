SPECIFICATION Spec
CONSTANTS
  Keys = {1, 3}
  Targets = {1, 2}
  Intervals = {2}
  InitSeq = 3
  MaxSeq = 4
PROPERTY
  WalksSnapshot
