CONSTANTS
  Readers = {r1, r2}
  Versions = {1, 2, 3, 4, 5}
  Recovered = {1}
  Orphans = {3}
  FirstNumber = 2
  MaxNumber = 5
  MaxGen = 3
SPECIFICATION Spec
SYMMETRY Symmetry
INVARIANTS
  ViewAlive
  ViewComplete
  NeededFilesOnDisk
  NoVersionLeak
PROPERTY FreshNumbers
