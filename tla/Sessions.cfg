SPECIFICATION FairSpec
CONSTANTS
  c1 = c1
  c2 = c2
  w1 = w1
  Client <- Clients
  Gone <- GoneClients
  Ingress <- Workers
  SlotCount = 2
  Cookie = {0, 1}
  Network = 2
  Burst = 1
  Outages = 1
  NetChanges = 1
INVARIANTS
  IndexSound
  OwnSession
  DropIsTrue
PROPERTIES
  Recovers
CHECK_DEADLOCK FALSE
