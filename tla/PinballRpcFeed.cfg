SPECIFICATION RpcSpec
CONSTANTS
  c1 = c1
  c2 = c2
  touch = touch
  button = button
  NoConn = NoConn
  Conns <- TwoConns
  Types <- TwoTypes
  Requests <- FeedRequests
  Fds <- OneFd
  Backlog = 1
  UpCap = 1
  DownCap = 2
  MaxBcast = 3
PROPERTIES ImplementsFeed
CHECK_DEADLOCK FALSE
