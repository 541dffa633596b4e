SPECIFICATION Spec
CONSTANTS
  p = p
  q = q
  t = t
  u = u
  None = None
  Root <- MCRoot
  Tests <- MCTests
  Tools <- MCTools
  Uses <- MCUses
  FirstDisk <- MCFirstDisk
  MaxVersion = 2
  VerdictsOf <- MCVerdictsOf
INVARIANTS Exclusive LaunchFresh TestsSettle OfThisProject GitCurrent
PROPERTY OperationsEnd
CHECK_DEADLOCK FALSE
