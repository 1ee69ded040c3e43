SPECIFICATION RpcSpec
CONSTANTS
  c1 = c1
  c2 = c2
  touch = touch
  button = button
  NoConn = NoConn
  Conns <- TwoConns
  Types <- TwoTypes
  Requests <- SomeRequests
  Fds <- TwoFds
  Backlog = 1
  UpCap = 1
  DownCap = 2
  MaxBcast = 2
INVARIANTS EveryBroadcastHandled
CHECK_DEADLOCK FALSE
