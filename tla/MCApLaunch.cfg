SPECIFICATION FairSpec
CONSTANTS
  Maps <- AllMaps
  Threads <- MCThreads
  Order <- MCOrder
  Launchable <- MCLaunchable
  Bit <- MCBit
  Uint16 = 16
  Is64Bit = FALSE
  Smee = {FALSE, TRUE}
CHECK_DEADLOCK FALSE
INVARIANTS
  OneApAtATime HostDataRestored
PROPERTIES LaunchImplemented AllLaunched
