CONSTANTS
  Symbols = 5
  WidthLimit = 3
  MaxWidth = 4
  Codes <- PowersOf2
SPECIFICATION Spec
INVARIANTS
  BuildVerdict
  SymbolIsCanonical
  NoCodePassed
CHECK_DEADLOCK FALSE
