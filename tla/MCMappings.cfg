SPECIFICATION Spec
CONSTANTS
  Commands = {"toggleA", "toggleB", "holdA", "pressA", "repeatB", "stopB", "limitedC", "holdBC"}
  Subsystems = {"A", "B", "C"}
  Startup = {"pressA"}
  Finishing = {"toggleA", "toggleB", "pressA", "limitedC"}
  NoCommand = "none"
  Req <- MapReq
  Default <- MapDefault
  Mappings <- MapMappings
  Inputs <- MapInputs
INVARIANTS
  ReleasedMeansRemoved
  Settles
PROPERTIES
  EdgeStartsCommands
