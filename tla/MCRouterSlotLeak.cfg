CONSTANTS
  w1 = w1
  w2 = w2
  r1 = r1
  r2 = r2
  p1 = p1
  d1 = d1
  NoReq = NoReq
  NoNode = NoNode
  Workers <- MCWorkers
  Requests <- MCRequests
  PrefillNodes <- MCPrefillNodes
  DecodeNodes <- MCDecodeNodes
  MaxSlots = 2
  QueueCapacity = 1
  HealthUpdates = {TRUE}
SPECIFICATION FairSpec
PROPERTIES FinishedFreesSlot
CHECK_DEADLOCK FALSE
