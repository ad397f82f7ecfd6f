SPECIFICATION FairSpec
CONSTANTS
  MaxCcds = 12
  MaxCores = 8
  Machines <- MCMachines
  Requests <- MCRequests
  ResetsKept = {"warm", "cold"}
CHECK_DEADLOCK FALSE
INVARIANTS
  Honoured
PROPERTIES
  Settles
