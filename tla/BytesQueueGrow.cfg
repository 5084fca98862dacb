CONSTANTS
  InitCapacity <- MCGrowInit
  MaxCapacity <- MCGrowMax
  Data <- MCData
SPECIFICATION Spec
INVARIANT TypeOK
INVARIANT IndexStability
INVARIANT LiveRegionWellFormed
