SPECIFICATION Spec
CONSTANTS
  Bridges <- MCBridges
  FuseChoices <- MCFuses
  Inputs <- MCInputs
INVARIANTS
  TopologyExact
  SettingsHold
  AbortsAreClean
  TopOfMemoryAsMsrs
CHECK_DEADLOCK FALSE
