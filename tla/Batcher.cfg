CONSTANTS
  NItems <- MCNItems
  Key <- MCKey
  ConcurrencyArg <- MCConcurrency
  MaxBatchSizeArg <- MCMaxBatchSize
  SourceQueueSizeArg <- MCSourceQueueSize
  NumCPU <- MCNumCPU
SPECIFICATION FairSpec
INVARIANT NoItemLostOrDuplicated
INVARIANT TypeOK
INVARIANT StatCountsProcessed
PROPERTY SentBatchesProcessed
CHECK_DEADLOCK FALSE
