SPECIFICATION FairSpec
CONSTANTS
  r1 = r1  r2 = r2  r3 = r3  r4 = r4
  Resolver <- MCResolver
  Used = {r1, r2}
  Rejected = r3
  DnsId = {1}
  Stream = {s1}
  Writer = {w1}
  Processor = {p1, p2}
  Health = health
  NoResolver = none
  HardCap = 2
  Grain = 96
  Threshold = 1
  MaxSends = 2
  MaxFlips = 1
INVARIANTS
  PendingExact
  PreferredActive
PROPERTIES
  LastActive
  Recovers
CHECK_DEADLOCK FALSE
