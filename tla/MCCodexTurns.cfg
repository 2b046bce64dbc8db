SPECIFICATION Spec
CONSTANTS
  Sessions = {s1, s2}
  None = None
  MaxTurns = 2
  MaxQueue = 3
CHECK_DEADLOCK FALSE
INVARIANTS
  TurnsAgree
  OnlyExposedFail
