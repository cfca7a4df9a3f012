CONSTANTS
  n1 = n1
  n2 = n2
  w1 = w1
  w2 = w2
  NoNode = NoNode
  Nodes <- MCTwoNodes
  Workers <- MCWorkers
  PeerLists <- MCPeerLists
  MaxRestarts = 1
SPECIFICATION FairSpec
INVARIANTS TypeOK CompleteBeforeReady TrackerFollowsRegistry DoubleLockCause
PROPERTIES EveryNodeJoins
CHECK_DEADLOCK FALSE
