CONSTANTS
  UserKeys = {1, 2}
  NumLevels = 3
  L0Threshold = 1
  LevelBase = 2
  LevelFactor = 2
  MaxFileSize = 2
  ExpandLimit = 50
  OverlapLimit = 1
  AllowSeeks = 1
  Readers = {r1}
  MaxSeq = 3
  MaxSessions = 1
  FlushSizes = {1, 2}
  Writable = {1, 2}
  Deletable = {}
  MaxDeletes = 0
SPECIFICATION Spec
INVARIANT DroppedIsHidden
CHECK_DEADLOCK FALSE
