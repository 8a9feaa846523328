CONSTANTS
  Sid = {1}
  Accepted = {a1}
  Processor = {p1, p2}
  MaxInst = 2
  MaxPackets = 2
SPECIFICATION Spec
SYMMETRY Interchangeable
INVARIANTS
  OneReply
  NoneLost
  CancelledIsReset
CHECK_DEADLOCK FALSE
