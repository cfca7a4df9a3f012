SPECIFICATION FairSpec
CONSTANTS
  p1 = p1
  p2 = p2
  Peers <- TwoPeers
  PeerOrder <- InOrder
  BatchSize = 2
  SendDepth = 3
  RecvDepth = 2
  MaxPoll = 2
  MaxFailures = 2
  WritesPerStep = 3
  MaxWrites <- SixAndThree
  MaxRejects = 1
  MaxFaults = 2
  MaxBroadcasts = 1
INVARIANT TypeOK
INVARIANT ReceivesConserved
INVARIANT WaitsCoverBatches
INVARIANT FullQueueDrains
PROPERTY FirstPeerServed
PROPERTY WaitEnds
CHECK_DEADLOCK FALSE
