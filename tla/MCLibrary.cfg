SPECIFICATION LibSpec
CONSTANTS
  Inputs <- MCInputs
  Keys <- MCKeys
  mi_xor = 28
  NoHex = NoHex
  Letters <- MCLetters
  Urls <- MCUrls
  NoPort = NoPort
  MaxPath = 10
  Requests <- MCRequests
  NoRequest = NoRequest
  Threads = {t1, t2}
  Owners = {t1, t2, t3}
  Keepers = {t1}
  NoThread = NoThread
  Moments = {1, 4, 5}
  NoMoment = NoMoment
  Summer = {4, 5}
  NoOwner = NoOwner
  MaxDepth = 3
  MaxReaders = 3
INVARIANTS
  TypeOK DecodesPrefix StandsForGiven AnswersRequest StampTraced ParsedTimeRight
  GuardsExclude
CHECK_DEADLOCK FALSE
