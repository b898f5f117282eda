SPECIFICATION Spec
CONSTANTS
  Size = 15
  OfflineTime = 2
INVARIANTS
  MessageIsValid
