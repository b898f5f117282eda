SPECIFICATION Spec
CONSTANTS
  DelayTime = 1
  MaxPath = 3
INVARIANTS
  DrivesForItsState
PROPERTIES
  ArrivalIsReal
  GuardReached
