SPECIFICATION AllSpec
CONSTANTS
  k1 = k1
  k2 = k2
  Leader = leader
  None = none
  Codes = {0, 137}
  Kids <- TwoKids
  TerminalKids <- OneKid
  TerminalCodes = {0}
  MaxStarts = 2
  MaxChunks = 2
  MayEscape = TRUE
INVARIANTS ExitPublished StopReleasesAll OutputShown DecodedWhole
PROPERTIES StreamSpec OwnerServed CallsReturn
