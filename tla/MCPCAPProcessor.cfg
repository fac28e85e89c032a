SPECIFICATION FairSpec
CONSTANTS
  BATCH_SIZE = 12
  MaxChunks = 4
  CapturedLengths <- MCCapturedLengths
  Files <- MCFiles
INVARIANTS
  ProcTypeOK
  ProcessedIsHanded
  OnlyTheQueueIsLost
  ReportedTotalIsProcessed
  StopsAfterThreads
PROPERTIES
  DeliveredInOrder
  ProducerFinishes
  ReleasedConsumerEnds
  QueuedIsProcessed
