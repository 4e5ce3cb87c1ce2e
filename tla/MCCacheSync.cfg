SPECIFICATION SyncSpec
CONSTANTS
  NEAR_COUNT = 2
  SAME_COUNT = 2
  BLOCK = 2
  MAX_NUMBER = 5
  MaxAddress = 5
  MaxCopies = 4
  MaxAhead = 2
INVARIANTS
  NothingRefused
  TableMatchesRfc
PROPERTIES
  AddressesAgree
CHECK_DEADLOCK FALSE
