SPECIFICATION FairSpec
CONSTANTS
  Workloads <- ServerSends
  AppErrors = FALSE
  Timeouts = FALSE
  LateCopies = FALSE
PROPERTIES
  BothEndsClose
CHECK_DEADLOCK FALSE
