SPECIFICATION PatientSpec
CONSTANTS
    Presses = {r1}
    Shells = {s1}
    MayLapse = {"pull-cycle", "post-auth-backfill"}
    MayFail = TRUE
    Beside = FALSE
INVARIANTS TypeOK StampHonest CrashStaysGuarded
PROPERTY Recovers
