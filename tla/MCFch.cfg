CONSTANTS
  Inputs <- MCInputs
  MAX_ESPI_RETRY = 2
  FCH_AOAC_RETRY = 2
  TimerStarts = {0, 200}
  PollTicks = {3}
SPECIFICATION Spec
INVARIANTS
  OptionsHold
  UsbTold
  EspiChannelsReady
PROPERTIES
  SecondaryApart
  EspiCommandsWhole
  FchEnds
CHECK_DEADLOCK FALSE
