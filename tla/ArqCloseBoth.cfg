SPECIFICATION Spec
CONSTANTS
  Workloads <- BothSend
  AppErrors = FALSE
  Timeouts = FALSE
  LateCopies = FALSE
INVARIANTS
  CompleteAtClose
CONSTRAINT
  SomeEndOpen
CHECK_DEADLOCK FALSE
