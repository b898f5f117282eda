SPECIFICATION Spec
CONSTANTS
  BufLen = 3
  ReadTimeout = 2
  MaxStall = 2
  FrameGap = 9
  DisconnectTimeout = 16
INVARIANTS
  WholeFrames
  SilenceIsNoticed
PROPERTIES
  Reconnects
