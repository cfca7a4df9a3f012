SPECIFICATION FairSpec
CONSTANTS
  p1 = p1
  w1 = w1
  w2 = w2
  Roles <- AllRoles
  Workers <- TwoWorkers
  PeerOrder <- OnePeer
  Capacity = 1
  MaxEvents = 2
INVARIANT TypeOK
INVARIANT TeardownInOrder
INVARIANT EngineUsedAlive
INVARIANT NoOrphanVllm
PROPERTY QueueDrains
PROPERTY ShutdownEnds
CHECK_DEADLOCK FALSE
