CONSTANTS
  L0Threshold = 2
  WriteMemSize = 1
  MaxSeq = 4
  MaxCrashes = 2
SPECIFICATION Spec
INVARIANTS
  Recoverable
  NothingLost
  SequenceCoversDisk
  NewestIsFound
PROPERTY
  OpenSucceeds
CHECK_DEADLOCK FALSE
