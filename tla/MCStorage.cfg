SPECIFICATION MCSpec
CONSTANTS
  File = {"video", "other"}
  Chain <- MCChain
  FileSize <- MCFileSize
  BPB_BytsPerSec = 2
  BPB_SecPerCluster = 4
  EntriesPerSecter = 4
  FatSecters = 2
  Width = 64
  BufferSizes = {1, 3, 4, 9, 18}
  Offsets <- MCOffsets
  Junk = Junk
  None = None
  Failed = Failed
  Dir <- MCDir
  MaxFaults = 3
  HighCapacity = {FALSE, TRUE}
  CardBlocks = 6
  BlockLen = 2
  SizeWidth = 64
  b_max = 2
  MaxTry = 3
  Timeout = 2
  Retries = 1
  ScrRetries = 1
  SwitchTries = 2
  ReadSizes = {1, 2, 3, 5}
INVARIANTS ReadyMeansTransfer ReadsRightBlocks
PROPERTIES  ReadReturns ImplementsPlaylist VideoIsFound CardReturns
