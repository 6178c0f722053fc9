SPECIFICATION Spec
CONSTANTS
  Workers = {w1, w2}
  Acceptor = Acceptor
  Waiter = Waiter
  Cleaner = Cleaner
  Fds = {f1}
  NoFd = NoFd
  Conns = {c1}
  NoConn = NoConn
  MaxUnits = 2
INVARIANT TaskExclusive
CHECK_DEADLOCK FALSE
