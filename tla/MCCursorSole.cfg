SPECIFICATION FairSpec
CONSTANTS
  Items = {a, b}
  MaxTime = 1
  Overlap = 0
  Late = 1
  SweepEvery = 1
  Rungs <- TwoRungs
  Keep = 1
  RangeLimited = TRUE
  MaxRange = 0
  Shift = 1
  MayAmend = FALSE
  Windows = {1}
  Replays = TRUE
  MaxCrashes = 1
INVARIANTS TypeOK NothingSkipped
CHECK_DEADLOCK FALSE
PROPERTY RowsCatchUp
