SPECIFICATION FairSpec
CONSTANTS
  Root = Root
  Kids = {k1, k2, k3}
  Clients = {c1}
  MaxFaults = 3
INVARIANTS OneAcceptor
PROPERTIES Recovers NobodyHangs
CHECK_DEADLOCK FALSE
