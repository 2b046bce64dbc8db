SPECIFICATION Spec
CONSTANTS
  e1 = e1
  e2 = e2
  p1 = p1
  p2 = p2
  k1 = k1
  k2 = k2
  Enrollments = {e1}
  Profiles = {p1}
  Credentials = {k1}
  None = None
  MaxRevision = 3
  MaxEdits = 1
  MaxCrashes = 1
CHECK_DEADLOCK FALSE
INVARIANT RestartExpires
