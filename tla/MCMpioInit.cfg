CONSTANTS
  WrapperSizes <- MCWrapperSizes
  DefaultPortDevMap <- MCDefaultPortDevMap
  RootBridges <- MCRootBridges
  SocketOrder <- MCSocketOrder
  Platforms <- MCPlatforms
SPECIFICATION FairSpec
INVARIANTS
  CommandsInOrder
  PortsAsAsked
  TrainedAsReported
PROPERTIES
  Terminates
