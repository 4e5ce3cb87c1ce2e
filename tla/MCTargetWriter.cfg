SPECIFICATION Spec
CONSTANTS
  a = a
  b = b
  NoByte = NoByte
  Byte <- MCByte
  Source <- MCSource
  Literal <- MCLiteral
  Value <- MCValue
  MODULUS = 7
  REDUCTION_CHUNK = 2
  IO_BUFFER_SIZE = 3
  MaxTarget = 6
  MaxInterrupts = 0
INVARIANTS
  DeliveredWhole
  NoSpuriousFailure
  PositionKnown
  ChecksumCoversWindow
  ChecksumIsAdler
  WindowsPersisted
PROPERTIES
  ImplementsDecodedOutput
  WrittenOnce
CHECK_DEADLOCK FALSE
