SPECIFICATION Spec
INVARIANT
  TypeOK
  IndexStability
  LiveRegionWellFormed
PROPERTY
  RefinesFifoQueue
