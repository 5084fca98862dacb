CONSTANTS
  Concurrency <- MCConcurrency
  CacheSize <- MCCacheSize
  NumMsgs <- MCNumMsgs
  MaxRebalances <- MCMaxRebalances
SPECIFICATION Spec
INVARIANT NoPanic
CHECK_DEADLOCK FALSE
