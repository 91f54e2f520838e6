CONSTANTS
  Readers = {r1}
  UserKeys = {1, 2}
  KMaxHeight = 3
  MaxSeq = 3
SPECIFICATION Spec
INVARIANTS
  NoWildPointer
  LevelsAreSortedSublists
PROPERTY ImplementsSnapshotRead
