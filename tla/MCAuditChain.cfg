CONSTANTS
  w1 = w1
  w2 = w2
  Writer <- TwoWriters
  RotateAbove = 1
  MaxEntries = 5
  MaxTears = 1
SPECIFICATION Spec
CHECK_DEADLOCK FALSE
INVARIANT NothingLost
INVARIANT SpoiledBounded
INVARIANT LinksToWritten
