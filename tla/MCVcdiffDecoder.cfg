SPECIFICATION Spec
CONSTANTS
  NEAR_COUNT = 1
  SAME_COUNT = 1
  BLOCK = 2
  MAX_NUMBER = 40
  MaxTarget = 3
  MaxWindowMemory = 3
  SourceLen = 2
  DeltaLens = {5, 25}
  Numbers = {0, 1, 2, 3, 39}
  HeaderLens = {1, 39}
  EncodingLens = {7, 8, 11}
  Table <- MCTable
INVARIANTS
  MemoryBounded
  SegmentIsPersisted
  CacheBehindHere
PROPERTIES
  WindowsAbut
  CallsFitWriter
CHECK_DEADLOCK FALSE
