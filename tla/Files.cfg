CONSTANTS
  BlockSize = 6
  HeadSize = 2
  MaxRecord = 6
  MaxFile = 13
  Users <- MCUsers
  Tags = {1, 2}
  ByteMax = 2
  MaxTag = 3
  BlockBytes = 11
  RestartInterval = 2
  FilterBlockSize = 6
  Hash <- MCHash
  HashWidth = 5
  HashTurn = 3
  HashNum = 2
  BitsPerKey = 3
  MinBits = 16
SPECIFICATION Spec
INVARIANTS
  LogReadsBack
  LookupFinds
PROPERTY
  ImplementsOrderedTable
CHECK_DEADLOCK FALSE
