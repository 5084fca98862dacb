CONSTANTS
  NoEntry = NoEntry
  Panic = Panic
  Features <- MCWrapFeatures
  MaxItems <- MCMaxItems
SPECIFICATION Spec
PROPERTY ImplementsFeatureStore
CHECK_DEADLOCK FALSE
