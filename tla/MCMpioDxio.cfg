SPECIFICATION Spec
CONSTANTS
  Engines <- MCEngines
  Inputs <- MCInputs
  MAX_NUMBER_DPCSTATUS = 2
INVARIANTS
  ParamsReachPort
  StrapsKept
  DpcAccounted
  AsksExact
