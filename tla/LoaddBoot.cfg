SPECIFICATION BootSpec
CONSTANTS
  MaxKills = 2
INVARIANTS M4NotOrphaned LoopReady
CHECK_DEADLOCK FALSE
