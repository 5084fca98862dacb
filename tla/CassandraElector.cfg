CONSTANTS
  n1 = n1
  n2 = n2
  Nil = Nil
  Nodes <- MCNodes
  Resigners <- MCResigners
  Heartbeat <- MCHeartbeat
SPECIFICATION FairSpec
INVARIANT
  TypeOK
  LeaderHoldsLease
PROPERTY
  ResignReturns
CHECK_DEADLOCK FALSE
