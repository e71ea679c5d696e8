CONSTANTS
  p1 = p1
  p2 = p2
  Procs <- MCProcs
  SwpFrames = 2
  MaxPgn = 4
  Mapped = 2
SYMMETRY MCSymmetry
SPECIFICATION Spec
CHECK_DEADLOCK FALSE
INVARIANT SwapConserved
