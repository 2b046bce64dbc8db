SPECIFICATION Spec
CONSTANTS
  Approvals = {a1, a2}
  NoDecision = "none"
  Keys = {k1, k2}
  NoKey = NoKey
  Callers = {w1, w2}
  NoCaller = NoCaller
  MaxCrashes = 1
INVARIANTS
  TypeOK
  AtMostOneWrite
  LedgerAgrees
PROPERTIES
  ContractSpec
CHECK_DEADLOCK FALSE
