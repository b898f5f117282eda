SPECIFICATION Spec
CONSTANTS
  Commands = {"chassisToggleDrive", "matchChassis", "gimbalFieldRelative", "matchGimbal", "matchFiring", "dualBarrelsFeeder", "stopFeeder", "runShooter", "runShooterWithFeeder", "stopShooter"}
  Subsystems = {"chassis", "feeder", "gimbal", "shooter"}
  Startup = {}
  Finishing = {}
  NoCommand = "none"
  Req <- SentryReq
  Default <- SentryDefault
  Mappings <- SentryMappings
  Inputs <- SentryInputs
INVARIANTS
  ReleasedMeansRemoved
  HeldIsLeftAlone
PROPERTIES
  SilenceStopsTheRobot
