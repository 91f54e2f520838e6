CONSTANTS
  UserKeys = {1, 2, 3}
  NumLevels = 3
  L0Threshold = 1
  LevelBase = 2
  LevelFactor = 2
  MaxFileSize = 2
  ExpandLimit = 50
  OverlapLimit = 2
  AllowSeeks = 1
  Readers = {r1}
  MaxSeq = 5
  MaxSessions = 1
  FlushSizes = {1, 2}
  Writable = {1, 2, 3}
  Deletable = {}
  MaxDeletes = 0
SPECIFICATION Spec
INVARIANT LevelsDisjoint
CHECK_DEADLOCK FALSE
