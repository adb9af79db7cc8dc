SPECIFICATION MemorySpec
CONSTANTS
  BlockSize = 6
  RequestSizes = {0, 2}
  Deques = {d1, d2}
  MinBlockSize = 1
  MaxBlockSize = 2
  Values = {x, y}
  MaxSize = 4
  MaxOther = 2
  Texts <- TheTexts
  Packages = {a, b}
  MadeSizes = {0, 2}
  Memory = 5
INVARIANTS
  NoOverlap
  ContainersAreSound
  EveryStringHasItsLocation
  LocationsAreTrue
PROPERTIES
  ImplementsAppendOnly
CHECK_DEADLOCK FALSE
SYMMETRY Interchangeable
