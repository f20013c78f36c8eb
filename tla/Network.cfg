SPECIFICATION MCSpec
CONSTANTS
  Peer <- MCPeer
  IP <- MCIP
  Fixed <- MCFixed
  Seed <- MCSeed
  Whitelisted <- MCNone
  Blacklisted <- MCNone
  NewBucket <- OneBucket
  TriedBucket <- OneBucket
  BucketSize = 3
  MaxReconnectTries = 2
  LocalIP = 0
  MaxOutbound = 1
  MaxInbound = 1
  MinTried = 2
  Protection = FALSE
  MaxHandshaken = 2
  MaxDiscovered = 2
  Full = 2
  StatusTicks = 2
  StatusRate = 2
  WsMaxRate = 2
  Exempt = FALSE
  MaxBurst = 3
  MaxCounted = 3
CHECK_DEADLOCK FALSE
INVARIANTS SlotsBounded BansHold PenaltiesEarned
PROPERTIES FixedReached
