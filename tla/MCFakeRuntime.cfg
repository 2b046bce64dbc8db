SPECIFICATION FairSpec
CONSTANTS
  Sessions = {s1, s2}
  None = None
CHECK_DEADLOCK FALSE
INVARIANTS
  ChildIsReachable
PROPERTIES
  ExitIsRecorded
