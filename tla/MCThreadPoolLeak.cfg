SPECIFICATION Spec
CONSTANTS
  Workers = {w1, w2}
  Clients = {c1}
  Tasks = {k1, k2}
  NoTask = NoTask
  NoThread = NoThread
  Destroyed = Destroyed
INVARIANT ReclaimedBySmartPointer
CHECK_DEADLOCK FALSE
