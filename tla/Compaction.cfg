CONSTANTS
  UserKeys = {1, 2, 3}
  NumLevels = 3
  L0Threshold = 1
  LevelBase = 2
  LevelFactor = 2
  MaxFileSize = 2
  ExpandLimit = 50
  OverlapLimit = 1
  AllowSeeks = 1
  Readers = {r1}
  MaxSeq = 5
  MaxSessions = 2
  FlushSizes = {1, 3}
  Writable = {1, 3}
  Deletable = {1}
  MaxDeletes = 1
SPECIFICATION Spec
INVARIANTS
  FilesWellFormed
  Level0Newest
  OnlyRepeatsStop
  GetFindsNewestOfLevel
  SeekCompactionInRange
CHECK_DEADLOCK FALSE
