SPECIFICATION FairSpec
CONSTANTS
    Callers = {w}
    Canonicals = {a, b}
    Namesakes = {a, b}
    Ids = {x1, x2, x3}
    NoId = noid
    Faults = {"push raises"}
    MaxQueue = 1
    MaxClaims = 1
    MaxEmpties = 0
PROPERTIES Converges
