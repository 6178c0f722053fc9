SPECIFICATION FairSpec
CONSTANTS
  Workers = {w1, w2}
  Acceptor = Acceptor
  Waiter = Waiter
  Cleaner = Cleaner
  Fds = {f1}
  NoFd = NoFd
  Conns = {c1, c2}
  NoConn = NoConn
  MaxUnits = 1
CONSTRAINT MCUnshared
PROPERTIES PeerCloseReclaimed IdleReclaimed
CHECK_DEADLOCK FALSE
