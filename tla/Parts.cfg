SPECIFICATION PartsSpec
CONSTANTS
  s1 = s1
  s2 = s2
  a = a
  b = b
  Session <- TwoSessions
  Stream <- TwoStreams
  Workers = 2
  QueueLimit = 2
  SessionCap = 2
  MaxTasks = 4
  MaxRemovals = 1
  OthersFind <- FoundByOthers
  Carries <- UpToSome
  Low = 2
  Tops = {1, 2, 8}
  Unit = 32
  Query = {"m", "n"}
  Parts <- TwoAndOne
  Topic = {"a", "b"}
  Upstreams = 2
  Order <- ThreeResolvers
  Class <- Classes
  Strategies <- AllStrategies
  NoResolver = "none"
  Cycle = 6
SYMMETRY Symmetric
INVARIANTS
  PendingExact
  QuietIsClean
  CancelledInLane
  PicksDistinct
  BestTaken
  SearchExact
  DropsPay
  WorkedOnce
  SharedLookup
  FailsAfterAll
CHECK_DEADLOCK FALSE
