SPECIFICATION DiskSpec
CONSTANTS
  Kinds = {"wal", "ids", "meta", "bloom"}
  MaxId = 3
  Writes <- MCWrites
  FileLimit = 8
  LenLimit = 16
  MaxNext = 3
  NoWrite = NoWrite
  MetaEntries <- MCMetaEntries
  MaxEntries = 2
  OffsetLimit = 8
  KeyLimit = 4
  HashLimit = 16
  BloomKeys = {b1, b2}
  HashValues = {0, 3, 7}
  Word = 8
  BitCounts = {3, 4, 5}
  HashCounts = {1, 2}
  ByteWidth = 2
  NoImage = NoImage
  Unused = Unused
INVARIANTS
  CleanerKeepsUnfinished
  RecoverReturnsSynced
  IdFileReadsBack
  IndexReadsBack
  NoFalseNegatives
CHECK_DEADLOCK FALSE
