SPECIFICATION HistoryFairSpec
CONSTANTS
  Span <- SevenDays
  Ladder <- Descending
  AsksPerCycle = 2
  Limits = {0, 1, 2, 4, 7}
  MaxHitches = 2
INVARIANT NoDayTwice
PROPERTY HistoryFinishes
CHECK_DEADLOCK FALSE
