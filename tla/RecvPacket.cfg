SPECIFICATION FairSpec
CONSTANTS
  HeadLen = 2
  MaxLen = 4
  Announced <- MCAnnounced
  MaxPkgs = 4
  MaxClients = 2
  FloodOn = TRUE
  Interval = 1
  KickCount = 2
INVARIANTS TypeOK RecvFits Framing BlockOwned FloodExact
PROPERTIES AllDelivered
CHECK_DEADLOCK FALSE
