CONSTANTS
  MProcs = {p1}
  PageSize = 2
  RamFrames = 3
  SwpFrames = 2
  MaxPgn = 4
  MaxSym = 2
  Sizes = {1, 3}
  Offsets = {0}
  Vals = {1}
  MaxOps = 5
SPECIFICATION Spec
CHECK_DEADLOCK FALSE
INVARIANT RamConserved
