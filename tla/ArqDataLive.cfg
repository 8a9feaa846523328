SPECIFICATION FairSpec
CONSTANTS
  SeqSpace = 8
  WindowLimit = 2
  RecvWindow = 1
  NackGap = 1
  MaxRetries = 1
  Lifetime = 4
  ChunkCount = 2
  MaxInFlight = 2
  MaxBatch = 2
PROPERTIES
  GapRepaired
  ImplementsStream
CHECK_DEADLOCK FALSE
