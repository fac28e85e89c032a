SPECIFICATION ProcSpec
CONSTANTS
  BATCH_SIZE = 12
  MaxChunks = 4
  CapturedLengths <- MCCapturedLengths
  Files <- MCFiles
INVARIANT EachPacketProcessed
