SPECIFICATION FairSpec
CONSTANTS
  Conn = {c1, c2}
  MaxClients = 1
  Token <- MCToken
  Offers <- MCOffers
  QueueCap = 1
  BroadcastCap = 1
  MaxSnapshots = 2
INVARIANTS PermitsAccounted OnlyAuthorised NothingStale
PROPERTIES HandshakeEnds ShutdownEnds CatchesUp
CHECK_DEADLOCK FALSE
