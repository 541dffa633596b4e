SPECIFICATION Spec
CONSTANTS
  p1 = p1
  p2 = p2
  p3 = p3
  d1 = d1
  d2 = d2
  e1 = e1
  t1 = t1
  t2 = t2
  c1 = c1
  c2 = c2
  b1 = b1
  b2 = b2
  own = own
  None = None
  Bad = Bad
  Root = {p1, p2, p3}
  Marks <- Marks2
  DirsOf <- Dirs2
  DefaultDir <- Default2
  PresetFiles <- Files
  BinaryDir <- Own
  TargetLists <- Lists2
  Contents <- FirstIsOpen
  FirstPresets <- FirstIsBoth
  FirstTargets <- OneTarget
  Limit = 2
  MaxOps = 5
  MaxTrouble = 1
INVARIANTS SessionKept BuildAsSelected FilesTellTheTruth
CHECK_DEADLOCK FALSE
