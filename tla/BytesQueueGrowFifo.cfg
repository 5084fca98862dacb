CONSTANTS
  InitCapacity <- MCGrowInit
  MaxCapacity <- MCGrowMax
  Data <- MCData
SPECIFICATION Spec
PROPERTY RefinesFifoQueue
