CONSTANTS
  Me = Me
  Nil = Nil
SPECIFICATION Spec
PROPERTY
  CloseReturns
CHECK_DEADLOCK FALSE
