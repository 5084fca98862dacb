CONSTANTS
  Concurrency <- MCConcurrency
  CacheSize <- MCCacheSize
  NumMsgs <- MCNumMsgs
  MaxRebalances <- MCMaxRebalances
SPECIFICATION FairSpec
INVARIANT
  TypeOK
  MarkedDelivered
PROPERTY
  StopEndsStart
CHECK_DEADLOCK FALSE
