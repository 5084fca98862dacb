CONSTANTS
  InitCapacity <- MCGapInit
  MaxCapacity <- MCGapMax
  Data <- MCGapData
SPECIFICATION Spec
INVARIANT LiveRegionWellFormed
