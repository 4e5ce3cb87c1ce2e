CONSTANTS
  InitialList <- List3
  OutputLen = 9
  skip_stride = 3
  Tokens = {0, 1, 2, 3}
  Word = 32
  Powers <- PowersOf2
SPECIFICATION Spec
INVARIANTS
  RunsFit
  AcceptedIsEncoding
  NoEncodingRefused
CHECK_DEADLOCK FALSE
