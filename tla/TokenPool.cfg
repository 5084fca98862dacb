CONSTANTS
  w1 = w1
  w2 = w2
  w3 = w3
  None = None
  Workers <- MCWorkers
  Concurrency <- MCConcurrency
  Cancellable <- MCBackground
SPECIFICATION FairSpec
PROPERTY EveryCallReturns
CHECK_DEADLOCK FALSE
