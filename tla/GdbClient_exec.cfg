SPECIFICATION FairSpec
CONSTANTS
  Keys <- OneKey
  Modes <- Launch
  Frames <- OneFrame
  MaxOps = 5
  MaxSessions = 1
  MaxStops = 2
  MayRefuse = FALSE
  MayClear = FALSE
  MayDie = FALSE
PROPERTIES PanelsFollow RunStarts
CHECK_DEADLOCK FALSE
