SPECIFICATION FairSpec
CONSTANTS
  a = a
  b = b
  NoByte = NoByte
  Byte <- MCByte
  Source <- MCSource
  Literal <- MCLiteral
  Value <- MCValue
  MODULUS = 7
  REDUCTION_CHUNK = 2
  IO_BUFFER_SIZE = 1
  MaxTarget = 5
  MaxInterrupts = 1
PROPERTIES
  ImplementsDecodedOutput
  OperationReturns
CHECK_DEADLOCK FALSE
