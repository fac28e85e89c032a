SPECIFICATION FairSpec
CONSTANTS
  BATCH_SIZE = 12
  MaxChunks = 4
  CapturedLengths <- MCCapturedLengths
  Files <- MCFiles
PROPERTY ConsumerStarts
