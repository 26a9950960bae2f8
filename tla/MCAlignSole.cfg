SPECIFICATION FairSpec
CONSTANTS
    a1 = a1
    a2 = a2
    b1 = b1
    b2 = b2
    hand = hand
    Rows <- MCRows
    Ours <- MCOurs
    Debits <- MCDebits
    Accounts = {"current", "pot"}
    AccountOf <- MCAccountOf
    NoRow = norow
    MaxChanges = 2
    MaxFaults = 1
    MaxShown = 2
INVARIANTS TypeOK OnlyConfirmedOrphans OrderFree CompleteMeansAligned
PROPERTIES HandsOff KeepsPairs PairsSettle
