SPECIFICATION HostSpec
CONSTANTS
  a = a
  b = b
  Clump <- Clumps
  Programs <- HostPrograms
  Rounds = 2
CHECK_DEADLOCK FALSE
INVARIANTS
  HostTypeOK
  OwnAnswer
  PumpGoesOn
PROPERTIES
  AbortEndsAll
  CallsReturn
