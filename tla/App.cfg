SPECIFICATION AppSpec
CONSTANTS
  MaxToken = 4
  Shards <- TwoShards
  AnswerParts <- OneAndTwo
  MaxQueries = 4
  MaxFaults = 1
INVARIANTS
  OffIsOff
  ReadyIsServed
  SavedUnlessRaced
PROPERTIES
  StoppingEnds
  Answered
CHECK_DEADLOCK FALSE
