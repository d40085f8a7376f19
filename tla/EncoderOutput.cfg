CONSTANTS
  Cache = 13
  Chunk = 2
  Datagram = 3
  Window = 2
  QueueLimit = 2
  MaxSize = 2
  MaxWords = 6
  MaxFirst = 1
  MaxAge = 2
SPECIFICATION Spec
CHECK_DEADLOCK FALSE
INVARIANTS SegmentExact DatagramsExact ListedComplete PlayerInOrder
PROPERTIES SequenceCounts QueueSpec
