SPECIFICATION FairSpec
CONSTANTS
  Commands = {0, 1, 2, 3, 4}
  Subsystems = {0, 1, 2}
  NoCommand = NoCommand
  AlwaysReady = {0, 1, 2}
  Req <- MCReq
  Default <- MCDefault
INVARIANTS
  Ownership
  Lifecycle
  TestsOwnTheRobot
  DefaultsHold
  DisconnectedRunsNothing
PROPERTIES
  OncePerRun
  DefaultNeverInterrupts
  ScheduledCommandRuns
  FreeSubsystemRecovers
  ImplementsOwnership
  RunsAreAtomic
