SPECIFICATION Spec
CONSTANTS
  c1 = c1
  c2 = c2
  w1 = w1
  w2 = w2
  NoConn = NoConn
  NoEvent = NoEvent
  Conns <- OneConn
  Workers <- OneWorker
  Fds <- OneFd
  KindsSent <- OnlyGood
  MaxSends <- Two
  MaxQueueSize = 2
INVARIANT QueuedIsArmed
CHECK_DEADLOCK FALSE
