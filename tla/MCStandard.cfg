SPECIFICATION Spec
CONSTANTS
  Commands = {"chassisTokyo", "chassisToggleDrive", "gimbalChase2", "gimbalToggleAim", "runFeeder", "runFeederFromMouse", "stopFeeder", "runShooter", "runShooterWithFeeder", "stopShooter", "openHopper", "closeHopper2", "toggleHopper", "clientDisplay"}
  Subsystems = {"chassis", "feeder", "gimbal", "shooter", "hopper", "clientDisplay"}
  Startup = {"clientDisplay"}
  Finishing = {"openHopper", "closeHopper2"}
  NoCommand = "none"
  Req <- StandardReq
  Default <- StandardDefault
  Mappings <- StandardMappings
  Inputs <- StandardInputs
INVARIANTS
  ReleasedMeansRemoved
  Settles
PROPERTIES
  SilenceStopsTheRobot
  EdgeStartsCommands
