SPECIFICATION FairSpec
CONSTANTS
  c1 = c1
  c2 = c2
  touch = touch
  button = button
  NoConn = NoConn
  Conns <- TwoConns
  Types <- TwoTypes
  Requests <- MCRequests
  Fds <- TwoFds
  Backlog = 2
  UpCap = 1
  DownCap = 1
  MaxBcast = 1
INVARIANTS TypeOK FdTable
PROPERTIES OneClientPerStep HungUpReleased
CHECK_DEADLOCK FALSE
