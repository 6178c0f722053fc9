SPECIFICATION Spec
CONSTANTS
  Roots = {r1, r2}
  Kids = {k1, k2}
  NoFile = NoFile
  NoProc = NoProc
INVARIANT OneInstance
CHECK_DEADLOCK FALSE
