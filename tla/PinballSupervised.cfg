SPECIFICATION BootFairSpec
CONSTANTS
  status = status
  menu = menu
  Pins <- SomePins
  Indicators <- TwoIndicators
  Chans <- ThreeChans
  MaxLevel = 1
  Proms <- SmallBoards
  Requests <- BadRequest
  NButtons = 2
  LedOe = 7
  LcdReset = 8
  Half = 3
  Addresses <- BusAddresses
  InitRegs <- NoRegs
  Cuts <- OneCut
INVARIANTS BootTypeOK NoFalseAlarm
PROPERTIES HangRecovered TerminationHeeded NeverGivesUp
CHECK_DEADLOCK FALSE
