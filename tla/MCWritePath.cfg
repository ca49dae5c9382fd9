SPECIFICATION Spec
CONSTANTS
  Threads = {t1, t2, t3}
  Readers = {r1}
  NoThread = NoThread
  NullBatch = NullBatch
  Batches <- MCLargeBatch
  MaxCount = 2
  Syncs = {TRUE, FALSE}
  WriteBufferSize = 1
  SmallGroup = 1
  LargeGroup = 8
  kL0_CompactionTrigger = 1
  kL0_SlowdownWritesTrigger = 1
  kL0_StopWritesTrigger = 2
  MaxCalls = 3
  MaxReads = 1
  MaxFaults = 1
SYMMETRY Symmetry
INVARIANTS
  TypeOK
  LeaderIsFront
  AckedIsLogged
  AckedIsVisible
  MemtableIsLogged
  RealTimeOrder
  NoStrandedWaiter
  Level0Bounded
  SnapshotIsStable
