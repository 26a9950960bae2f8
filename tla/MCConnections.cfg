SPECIFICATION ConnectionSpec
CONSTANTS
  Names = {a, b}
  Callers = {puller, callback}
  NoRecord = NoRecord
  Rotating = {1, 3}
  MaxConsents = 3
  MaxTurns = 2
  MaxCrashes = 1
INVARIANTS ConnectionTypeOK TokensKept OneNamePerConsent
CHECK_DEADLOCK FALSE
