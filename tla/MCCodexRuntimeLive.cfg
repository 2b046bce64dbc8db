SPECIFICATION FairSpec
CONSTANTS
  s1 = s1
  s2 = s2
  c1 = c1
  k1 = k1
  k2 = k2
  Sessions = {s1, s2}
  Reserved = {s1}
  Credentials = {c1}
  CredentialOf <- MCCredentialOf
  Callers = {k1}
  Scenarios <- MCOneCaller
  None = None
  MaxRuntimes = 1
  MaxRevision = 1
  MaxCrashes = 0
CHECK_DEADLOCK FALSE
PROPERTIES
  CrashFanout
  StartSettles
  CloseReturnsUnlessLeaked
