SPECIFICATION FairSpec
CONSTANTS
  NEAR_COUNT = 1
  SAME_COUNT = 1
  BLOCK = 2
  MAX_NUMBER = 40
  MaxTarget = 3
  MaxWindowMemory = 3
  SourceLen = 2
  DeltaLens = {16}
  Numbers = {0, 1, 2}
  HeaderLens = {1}
  EncodingLens = {7, 8, 11}
  Table <- MCLiveTable
PROPERTIES
  Terminates
CHECK_DEADLOCK FALSE
