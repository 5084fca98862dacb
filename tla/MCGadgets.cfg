CONSTANTS
  g1 = g1  g2 = g2
  c1 = c1  c2 = c2  c3 = c3
  k1 = k1  k2 = k2
  r1 = r1  r2 = r2
  None = None
  Panic = Panic
SPECIFICATION Spec
INVARIANT
  TypeOK
  PR_MarkedDelivered
  RM_MutualExclusion
  EO_InitializedOnce
  LB_CapacityRespected
  TP_TokenConservation
  BM_ConfigAccepted
PROPERTY
  PR_StopEndsStart
  RM_AllReturn
  EO_CallersFinish
  ML_ImplementsMemo
  ML_AllGetsReturn
  MC_ImplementsMemo
  MC_AllGetsReturn
  TP_JoinAfterRelease
  BM_ImplementsFeatureStore
CHECK_DEADLOCK FALSE
