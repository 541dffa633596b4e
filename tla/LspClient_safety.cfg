SPECIFICATION Spec
CONSTANTS
  p1 = p1
  p2 = p2
  k1 = k1
  k2 = k2
  NoPath = NoPath
  Paths <- OnePath
  Kinds <- TwoKinds
  MaxOps = 4
  MaxSessions = 2
  MayFail = TRUE
  MayDie = TRUE
  MayRename = FALSE
  MaySaveAs = FALSE
INVARIANTS ServerInSync ProtocolKept
PROPERTY AnswersMatch
CHECK_DEADLOCK FALSE
