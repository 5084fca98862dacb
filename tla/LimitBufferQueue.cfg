CONSTANTS
  a1 = a1
  a2 = a2
  c1 = c1
  c2 = c2
  None = None
  Producers <- MCTwoProducers
  Consumers <- MCOneConsumer
  CapArg <- MCCapOne
  Pushes <- MCPushesTwo
  Want <- MCWant
  Take <- MCTake
SPECIFICATION FairSpec
PROPERTY EveryCallReturns
CHECK_DEADLOCK FALSE
