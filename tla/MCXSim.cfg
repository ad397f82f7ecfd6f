SPECIFICATION Spec
CONSTANTS
  VarsSize = 392
  HdrSize = 12
  Uint32 = 1048576
  Boundary = 2048
  IpList <- F19M10
  HostSizes <- AllSizes
  Need <- MCNeed
  SetEnd <- MCSetEnd
  LateEnd <- MCLateEnd
INVARIANTS
  HeapConsistent QuerySuffices NothingMissing HighestResetReported
