CONSTANTS
  STAGING_SIZE = 3
  VARINT_BYTES = 1
  CHECK_BYTE = 1
  HEADER_SIZE = 3
  Kinds <- Kinds2
  Chunks <- Chunks2
  MaxChunks = 2
  MaxRaw = 1
  MaxEncoded = 9
  MaxDecoded = 3
  MaxSections = 3
SPECIFICATION FairSpec
INVARIANTS
  StagedInOrder
  NoSoundSectionRefused
  OnlySoundAccepted
PROPERTIES
  SectionReturns
CHECK_DEADLOCK FALSE
