CONSTANTS
  Threads = {t1, t2}
  Batches <- MCBatches
  SmallBatch = 1
  GroupSlack = 1
  MaxGroup = 4
  MaxCalls = 1
SPECIFICATION Spec
INVARIANT AcknowledgedIsApplied
CHECK_DEADLOCK FALSE
