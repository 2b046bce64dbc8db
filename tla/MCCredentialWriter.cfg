SPECIFICATION Spec
CONSTANTS
  MaxHandles = 2
  MaxTokens = 3
  MaxCrashes = 1
  None = None
CHECK_DEADLOCK FALSE
INVARIANTS
  OneHolder
  HomeMatchesHandle
  RotationKept
PROPERTIES
  VaultForward
