CONSTANTS
  w1 = w1
  w2 = w2
  None = None
  Writers <- MCWriters
  MaxInodes <- MCMaxInodes
  Rounds <- MCRounds
  FlockErrors = FALSE
SPECIFICATION Spec
INVARIANT OneWriter
CHECK_DEADLOCK FALSE
