SPECIFICATION FairSpec
CONSTANTS
  Messages <- MCMessages
  HeadTurns = 8
  LineTurns = 6
INVARIANTS TypeOK InOrder
PROPERTIES ImplementsChannel CloseSeen
CHECK_DEADLOCK FALSE
