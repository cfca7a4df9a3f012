SPECIFICATION FairSpec
CONSTANTS
  p1 = p1
  p2 = p2
  Peers <- TwoPeers
  PeerOrder <- InOrder
  BatchSize = 2
  SendDepth = 3
  RecvDepth = 2
  MaxPoll = 2
  MaxFailures = 2
  WritesPerStep = 3
  MaxWrites <- ThreeEach
  MaxRejects = 0
  MaxFaults = 0
  MaxBroadcasts = 1
PROPERTY AnyPeerServed
CHECK_DEADLOCK FALSE
