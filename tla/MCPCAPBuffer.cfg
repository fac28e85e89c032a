SPECIFICATION Spec
CONSTANTS
  BATCH_SIZE = 12
  MaxChunks = 3
  CapturedLengths <- MCCapturedLengths
  Files <- MCFiles
INVARIANTS
  TypeOK
  PacketsFaithful
  BatchesContiguous
  BatchesNotEmpty
CHECK_DEADLOCK FALSE
