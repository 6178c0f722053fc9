SPECIFICATION FairSpec
CONSTANTS
  Roots = {r1}
  Kids = {k1, k2}
  NoFile = NoFile
  NoProc = NoProc
PROPERTIES WorkerReplaced TermCompletes
CHECK_DEADLOCK FALSE
