SPECIFICATION Spec
CONSTANTS
  s1 = s1
  s2 = s2
  c1 = c1
  k1 = k1
  k2 = k2
  Sessions = {s1, s2}
  Reserved = {s1}
  Credentials = {c1}
  CredentialOf <- MCCredentialOf
  Callers = {k1, k2}
  Scenarios <- MCScenarios
  None = None
  MaxRuntimes = 2
  MaxRevision = 2
  MaxCrashes = 1
CHECK_DEADLOCK FALSE
INVARIANTS
  RegistryConsistent
  FinalizeOnce
  SingleWriter
  DetachedIsTerminal
  StartExclusive
