SPECIFICATION FairSpec
CONSTANTS
  MaxMeas = 2
  MaxFaults = 1
  InCap = 2
INVARIANTS FlipChain ConsoleBack LampsAfterTest
PROPERTIES MeasurementShown InputHandled
