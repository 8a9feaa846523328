SPECIFICATION Spec
CONSTANTS
  Workloads <- OneSends
  AppErrors = TRUE
  Timeouts = TRUE
  LateCopies = TRUE
INVARIANTS
  CompleteAtClose
  EOFAfterData
CHECK_DEADLOCK FALSE
