SPECIFICATION FairSpec
CONSTANTS
  p1 = p1
  p2 = p2
  k1 = k1
  k2 = k2
  NoPath = NoPath
  Paths <- TwoPaths
  Kinds <- OneKind
  MaxOps = 3
  MaxSessions = 1
  MayFail = FALSE
  MayDie = FALSE
  MayRename = TRUE
  MaySaveAs = TRUE
PROPERTIES PathsKept Settles
CHECK_DEADLOCK FALSE
