SPECIFICATION FairSpec
CONSTANTS
  current = current
  card = card
  Accounts <- OneAccount
  Cards <- OneCard
  LastDay = 5
  Window <- Tiers
  WeekEvery = 2
  DayEvery = 1
  Reach = 4
  Overlap = 1
  Bounds = {1, 2}
  Serves <- ServesReach
  MaxCrashes = 1
INVARIANT AccountsCovered
PROPERTY HolesClose
CHECK_DEADLOCK FALSE
