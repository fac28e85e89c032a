SPECIFICATION Spec
CONSTANTS
  NULL_VALUE = 99
  Entries <- MCEntries
  Datagrams <- MCDatagrams
  GarbageHeaders <- MCGarbageHeaders
  GarbageGroups <- MCGarbageGroups
CHECK_DEADLOCK FALSE
INVARIANT MessagesOfInterestDecoded
