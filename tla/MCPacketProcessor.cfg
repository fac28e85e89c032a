SPECIFICATION PacketSpec
CONSTANTS
  NULL_VALUE = 99
  MaxFrames = 2
  Entries <- MCEntries
  Datagrams <- MCDatagrams
  GarbageHeaders <- MCGarbageHeaders
  GarbageGroups <- MCGarbageGroups
  GarbageDatagrams <- MCGarbageDatagrams
  GarbageHeads <- MCGarbageHeads
  GarbageOrders <- MCGarbageOrders
  Frames <- MCFrames
CHECK_DEADLOCK FALSE
INVARIANTS
  PacketTypeOK
  ReadsInside
  CsvFollowsPackets
  BooksFollowPackets
PROPERTIES
  FeedsArePackets
