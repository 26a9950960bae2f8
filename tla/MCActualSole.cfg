SPECIFICATION Spec
CONSTANTS
    Callers = {w}
    Canonicals = {a, b}
    Namesakes = {a, b}
    Ids = {x1, x2, x3}
    NoId = noid
    Faults = {"empty stops", "empty raises"}
    MaxQueue = 2
    MaxClaims = 1
    MaxEmpties = 1
INVARIANTS TypeOK NoSharedImport
PROPERTIES KeepsLiveLinks NoPushOverARuin
SYMMETRY Alike
