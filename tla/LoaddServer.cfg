SPECIFICATION Spec
CONSTANTS
  c1 = c1
  c2 = c2
  b1 = b1
  b2 = b2
  Conns <- TwoConns
  Backlog = 2
  UpCap = 1
  DownCap = 1
  Bevs <- TwoBevs
  NoConn = NoConn
  NoBev = NoBev
  Header = 2
  Sizes <- TwoSizes
  M4Packets <- MeterAndReply
  RpmsgCap = 1
  MaxBcast = 3
INVARIANTS TypeOK ClientTable
PROPERTIES OnlyOffendersClosed ImplementsFeed
CHECK_DEADLOCK FALSE
