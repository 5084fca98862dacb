CONSTANTS
  InitCapacity <- MCFixedCapacity
  MaxCapacity <- MCFixedCapacity
  Data <- MCData
SPECIFICATION Spec
PROPERTY RefinesFifoQueue
