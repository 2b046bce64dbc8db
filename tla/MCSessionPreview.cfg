SPECIFICATION Spec
CONSTANTS
  a1 = a1
  a2 = a2
  p1 = p1
  p2 = p2
  x = x
  y = y
  c1 = c1
  c2 = c2
  u1 = u1
  u2 = u2
  k1 = k1
  k2 = k2
  Accounts = {a1, a2}
  Profiles = {p1, p2}
  Aliases = {x, y}
  Credentials = {c1, c2}
  Previews = {1, 2}
  Homes <- MCHomes
  Owner <- MCOwner
  Requests <- MCRequests
  None = None
  MaxOpen = 1
  MaxEdits = 2
  MaxFaults = 1
CHECK_DEADLOCK FALSE
INVARIANTS
  OneSessionPerPreview
  StartedWhatWasConfirmed
PROPERTIES
  ConsumedUntouched
