SPECIFICATION Spec
CONSTANTS
  SeqSpace = 8
  WindowLimit = 2
  RecvWindow = 1
  NackGap = 0
  MaxRetries = 0
  Lifetime = 4
  ChunkCount = 9
  MaxInFlight = 1
  MaxBatch = 1
INVARIANTS
  TypeOK
  InOrder
  AckedIsHeld
  LeadBounded
PROPERTIES
  ReuseLosesNothing
CONSTRAINT FewCopies
CHECK_DEADLOCK FALSE
