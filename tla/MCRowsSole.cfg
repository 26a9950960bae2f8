SPECIFICATION Spec
CONSTANTS
    Payments = {p1, p2}
    LastDay = 2
    WindowDays = 7
    Keeps = {TRUE, FALSE}
    Alikes = {TRUE}
    MaxAmended = 0
    MaxEvents = 3
CHECK_DEADLOCK FALSE
SYMMETRY Alike
INVARIANTS TypeOK NoneTwiceOneSource OwnRow OneIdentity ReplayReproducesPlainly
PROPERTIES SettlementStands
