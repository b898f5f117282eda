SPECIFICATION Spec
CONSTANTS
  ChassisState = "GUARDING"
  MinimumTime = 3
  RefireTime = 5
  ChaseTime = 2
INVARIANTS
  FeedsDrivenWheels
  ChasesWhileItFires
PROPERTIES
  FeedsOnlyOnTarget
  AimedFires
  WheelsComeToRest
  PatrolResumes
