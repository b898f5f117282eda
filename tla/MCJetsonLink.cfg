SPECIFICATION Spec
CONSTANTS
  Size = 15
  OfflineTime = 2
INVARIANTS
  CleanMessageAligns
PROPERTIES
  AlignedUntilFault
  Heals
