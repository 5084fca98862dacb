CONSTANTS
  Values <- MCValues
  Stages <- MCStages
  Outs <- MCOuts
SPECIFICATION FairSpec
INVARIANT
  TypeOK
  DeliversPrefix
PROPERTY
  DeliversAll
CHECK_DEADLOCK FALSE
