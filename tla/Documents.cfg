SPECIFICATION Spec
CONSTANTS
  p1 = p1
  p2 = p2
  NoPath = NoPath
  NoFile = NoFile
  Paths = {p1, p2}
  Texts = {"", "t1", "t2"}
  Empty = ""
  HistoryLimit = 2
  ClosedLimit = 1
  MaxOps = 5
  MaxExternal = 1
  Foreign = {"t2", NoFile}
  MaxCrashes = 1
  InitialDisks <- OneFile
INVARIANTS StandingKnown RecoveryCovers
PROPERTY TextsKept
