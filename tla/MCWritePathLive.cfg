SPECIFICATION FairSpec
CONSTANTS
  Threads = {t1, t2, t3}
  Readers = {}
  NoThread = NoThread
  NullBatch = NullBatch
  Batches <- MCOneBatch
  MaxCount = 1
  Syncs = {FALSE}
  WriteBufferSize = 0
  SmallGroup = 1
  LargeGroup = 8
  kL0_CompactionTrigger = 1
  kL0_SlowdownWritesTrigger = 0
  kL0_StopWritesTrigger = 1
  MaxCalls = 3
  MaxReads = 0
  MaxFaults = 1
PROPERTIES
  WritesReturn
  LastSequenceGrows
