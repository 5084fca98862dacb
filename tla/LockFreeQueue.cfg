CONSTANTS
  p1 = p1
  p2 = p2
  Procs <- MCProcs
  MaxPush <- MCMaxPush
SPECIFICATION FairSpec
INVARIANT TypeOK
PROPERTY EmptyPopJustified
PROPERTY PopReturnsOldest
PROPERTY RefinesFifoQueue
PROPERTY OpsComplete
CHECK_DEADLOCK FALSE
