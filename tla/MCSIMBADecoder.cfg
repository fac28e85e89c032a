SPECIFICATION FairSpec
CONSTANTS
  NULL_VALUE = 99
  Entries <- MCEntries
  Datagrams <- MCDatagrams
  GarbageHeaders <- MCGarbageHeaders
  GarbageGroups <- MCGarbageGroups
CHECK_DEADLOCK FALSE
INVARIANTS
  DecoderTypeOK
  BookOfFirstEntries
  BestPricesMeet
  DecodedInStep
  DecodedUpToUnknown
  SoundDatagramsAreSafe
PROPERTIES
  DecodingReturns
