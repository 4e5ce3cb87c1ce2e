SPECIFICATION FairSpec
CONSTANTS
  RADIX = 2
  MAX_DIGITS = 3
  MAX_NUMBER = 5
  INPUT_BUFFER_SIZE = 2
  Deltas <- MCDeltas
  Lengths <- MCLengths
  MaxInterrupts = 1
PROPERTIES
  RequestReturns
  BytesExact
  ImplementsExactInput
CHECK_DEADLOCK FALSE
