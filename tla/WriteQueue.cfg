CONSTANTS
  Threads = {t1, t2, t3}
  Batches <- MCBatches
  SmallBatch = 1
  GroupSlack = 1
  MaxGroup = 4
  MaxCalls = 1
SPECIFICATION FairSpec
INVARIANTS
  TypeOK
  SingleLeader
  NoLostWakeup
  TmpBatchEmptyBeforeMerge
  SequenceUnique
  SyncedWhenAcknowledged
PROPERTIES
  SnapshotStable
  EveryWriteReturns
CHECK_DEADLOCK FALSE
