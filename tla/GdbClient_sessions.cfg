SPECIFICATION Spec
CONSTANTS
  Keys <- OneKey
  Modes <- AllModes
  Frames <- NoFrames
  MaxOps = 4
  MaxSessions = 2
  MaxStops = 1
  MayRefuse = TRUE
  MayClear = TRUE
  MayDie = TRUE
INVARIANT DesiredInserted
PROPERTIES LogpointsArmed DetachHonest
CHECK_DEADLOCK FALSE
