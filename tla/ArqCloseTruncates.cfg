SPECIFICATION Spec
CONSTANTS
  Workloads <- BothSend
  AppErrors = FALSE
  Timeouts = FALSE
  LateCopies = FALSE
INVARIANTS
  NoTruncation
CHECK_DEADLOCK FALSE
