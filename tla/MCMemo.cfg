SPECIFICATION FairSpec
CONSTANTS
  Readers = {r1, r2}
  Nobody = Nobody
  MaxWrites = 2
  MaxFaults = 1
INVARIANTS NothingOlder KeptWhole
PROPERTY EveryCallEnds
