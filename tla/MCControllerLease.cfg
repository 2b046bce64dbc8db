SPECIFICATION Spec
CONSTANTS
  Clients = {c1, c2}
  NoClient = NoClient
  LeaseDuration = 2
  MaxTime = 3
  MaxRevision = 4
  MaxInputs = 3
INVARIANTS
  FencedControl
  InputsInOrder
PROPERTIES
  NeverStolen
