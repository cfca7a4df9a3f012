SPECIFICATION FairSpec
CONSTANTS
  c1 = c1
  c2 = c2
  w1 = w1
  w2 = w2
  NoConn = NoConn
  NoEvent = NoEvent
  Conns <- TwoConns
  Workers <- OneWorker
  Fds <- TwoFds
  KindsSent <- AllKinds
  MaxSends <- TwoAndNone
  MaxQueueSize = 1
INVARIANT TypeOK
INVARIANT OutputIntact
INVARIANT FramesInStep
INVARIANT StrayOnlyByReuse
PROPERTY QueuedIsSent
PROPERTY EveryoneAccepted
CHECK_DEADLOCK FALSE
