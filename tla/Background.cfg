CONSTANTS
  StopWrites = 3
  Trigger = 2
  MemLimit = 1
  OpenL0 = {0, 1, 2}
  MaxGen = 4
  MaxDeep = 1
  MaxEntries = 2
  MaxSeeks = 1
SPECIFICATION FairSpec
INVARIANTS
  OneJobAtMost
  NoJobOutlivesDB
  StalledImpliesScheduled
  NoMemtableLost
PROPERTIES
  WriterGetsRoom
  ImmutableIsFlushed
  CloseEnds
CHECK_DEADLOCK FALSE
