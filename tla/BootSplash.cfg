SPECIFICATION FairSpec
CONSTANTS
  Conns = {c1, c2, c3}
  Fds = {4, 5}
  Backlog = 1
  UpCap = 1
  DownCap = 1
  Columns = 2
  Percents = {3}
  Texts = {1}
INVARIANTS TypeOK SocketsOpen OnlyDeadForgotten Painted
PROPERTIES QuitEnds
CHECK_DEADLOCK FALSE
