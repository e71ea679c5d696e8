CONSTANTS
  MProcs = {p1}
  PageSize = 2
  RamFrames = 3
  SwpFrames = 2
  MaxPgn = 4
  MaxSym = 2
  Sizes = {1, 3}
  Offsets = {0, 1, 2}
  Vals = {1, 2}
  MaxOps = 6
SPECIFICATION Spec
CHECK_DEADLOCK FALSE
INVARIANT TypeOK
INVARIANT RegionsDisjoint
INVARIANT FrameExclusive
INVARIANT RoundTripUntilEvict
INVARIANT ResidentEvictable
