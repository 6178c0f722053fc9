SPECIFICATION FairSpec
CONSTANTS
  Workers = {w1, w2}
  Clients = {c1, c2}
  Tasks = {k1, k2, k3}
  NoTask = NoTask
  NoThread = NoThread
  Destroyed = Destroyed
INVARIANTS TypeOK QueueGuarded SoleOwner WorkConserving
PROPERTIES Served ShutdownCompletes ImplementsTaskPool
CHECK_DEADLOCK FALSE
