SPECIFICATION LldbSpec
CONSTANTS
  Keys <- TwoFiles
  Resolvable <- SecondLineNot
  Saved <- OneFile
  Watches = {"w"}
  Threads = {1, 2}
  Depth = 2
  Failing <- StartUp
  MayDie = TRUE
  MaxOps = 2
  MaxSessions = 2
  MaxLeft = 1
  MaxStops = 2
INVARIANTS BreakpointsAgree SessionAgrees ShownIsCurrent
CHECK_DEADLOCK FALSE
