CONSTANTS
  Concurrency <- MCConcurrency
  CacheSize <- MCCacheSize
  NumMsgs <- MCNumMsgs
  MaxRebalances <- MCMaxRebalances
SPECIFICATION Spec
INVARIANT StartWaitsForLoops
CHECK_DEADLOCK FALSE
