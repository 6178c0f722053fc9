SPECIFICATION Spec
CONSTANTS
  Workers = {w1, w2}
  Acceptor = Acceptor
  Waiter = Waiter
  Cleaner = Cleaner
  Fds = {f1}
  NoFd = NoFd
  Conns = {c1, c2}
  NoConn = NoConn
  MaxUnits = 3
SYMMETRY MCSymmetry
CONSTRAINT MCUnshared
INVARIANTS TypeOK EventsHaveTasks NothingStranded FramesWhole ClosesItsOwn NoneOrphaned
  ClosedByPeer
PROPERTIES ImplementsFrameService
CHECK_DEADLOCK FALSE
