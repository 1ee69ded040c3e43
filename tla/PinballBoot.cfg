SPECIFICATION BootFairSpec
CONSTANTS
  status = status
  menu = menu
  Pins <- SomePins
  Indicators <- TwoIndicators
  Chans <- ThreeChans
  MaxLevel = 1
  Proms <- Boards
  Requests <- MCRequests
  NButtons = 2
  LedOe = 7
  LcdReset = 8
  Half = 1
  Addresses <- BusAddresses
  InitRegs <- PanelData
  Cuts <- SomeCuts
INVARIANTS BoardKnown IndicatorsShown PanelReady
PROPERTIES NoGhostPress ReleaseTold
CHECK_DEADLOCK FALSE
