CONSTANTS
  Keys = {1, 2, 3}
  Handles = {1, 2, 3, 4, 5}
  Hash <- MCHash
  Capacity = 2
  InitialBuckets = 1
  Threads = {t1, t2}
  MaxMmap = 1
  MaxPread = 1
  MaxFds = 4
SPECIFICATION Spec
SYMMETRY Symmetry
INVARIANTS
  CacheConsistent
  LimitersExact
  OpenTablesBounded
PROPERTY ImplementsCache
