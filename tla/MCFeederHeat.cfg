CONSTANTS
  Reports <- MCReports
  HeatGainedPerProjectile = 10
  ProjectileBuffer = 1
  GraceTime = 3
  UNJAM_TIMER_MS = 2
  MaxForward = 5
  MaxBack = 2
SPECIFICATION Spec
INVARIANTS RotationBudget
PROPERTIES GraceBeforeReverse ReverseEnds JamIsAnswered
