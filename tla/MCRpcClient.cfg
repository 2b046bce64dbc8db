SPECIFICATION FairSpec
CONSTANTS
  h = h
  c1 = c1
  r = r
  Ops = {h, c1, r}
  Kind <- MCKind
  Allowed = {c1}
  Reader = Reader
  Writer = Writer
  WritesCap = 1
  StreamCap = 1
  MaxExtra = 1
CHECK_DEADLOCK FALSE
INVARIANTS
  AnsweredOnce
  WriteOutcomeKnown
PROPERTIES
  CallsReturn
  ClientEnds
