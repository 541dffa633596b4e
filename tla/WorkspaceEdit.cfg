SPECIFICATION EditSpec
CONSTANTS
  d = d
  e = e
  None = None
  Trees <- OneTree
  Edits <- MCEdits
  Bases <- MCBases
  Requests <- MCRequests
  Changed <- MCChanged
  MaxFaults = 1
INVARIANTS RollbackRestores TextKept AllOrNothing
PROPERTY OutcomeAsRequested
CHECK_DEADLOCK FALSE
