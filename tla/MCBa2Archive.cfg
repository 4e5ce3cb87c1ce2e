SPECIFICATION Spec
CONSTANTS
  Noise = Noise
  Crc <- MCCrc
  PACKED_EXT = 2
  Utf8 <- MCUtf8
  Replacement <- MCReplacement
  PackedSize <- MCPackedSize
  U32_MAX = 67108864
  MAX_CHUNK_UNPACKED = 8388608
  MAX_PATH_LEN = 10
  MAX_FILES = 2
  Files <- MCFiles
  Textures <- MCTextures
INVARIANTS
  WholeReadsBack
  PartNeverMisread
  LookupFindsFile
  SeenIsEntries
  ChunksPartition
