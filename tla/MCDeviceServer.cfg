SPECIFICATION FairSpec
CONSTANTS
  k = k
  u = u
  v = v
  h = h
  p = p
  q1 = q1
  q2 = q2
  q3 = q3
  Commands = {k, u, v, h}
  Ledgered = {k}
  Revisioned = {u}
  Initializers = {v}
  Expected <- MCExpected
  r1 = r1
  r2 = r2
  Rows = {r1, r2}
  Target = r1
  MaxRevision = 2
  Peers = {p}
  PeerRequests = {q1, q2, q3}
  Owner = Owner
  Peer = Peer
  None = None
  Capabilities = {"read", "admin"}
  Needs <- MCNeeds
  Caps <- MCCaps
  Limits = {1, 2}
  MaxRequests = 2
  MaxChanges = 1
  MaxCalls = 2
  Rosters <- MCRosters
  MaxFaults = 1
CHECK_DEADLOCK FALSE
INVARIANTS
  RetryRunsOnce
  AnsweredIsDone
PROPERTIES
  AuthorizedIsCurrent
  SlotsReturn
