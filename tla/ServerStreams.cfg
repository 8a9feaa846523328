CONSTANTS
  Sid = {1, 2}
  Rx = {i1}
  Worker = {w1, w2}
  Limit = 1
  MaxInst = 2
  MaxConn = 2
  MaxPackets = 2
SPECIFICATION Spec
SYMMETRY Interchangeable
INVARIANTS
  LimitKept
  ConnOwned
  EndedIsEmpty
CHECK_DEADLOCK FALSE
