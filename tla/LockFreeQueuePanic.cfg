CONSTANTS
  p1 = p1
  p2 = p2
  Procs <- MCProcs
  MaxPush <- MCMaxPush
SPECIFICATION Spec
INVARIANT NoPanic
