SPECIFICATION FairSpec
CONSTANTS
  Messages <- MCMessages
  SndBuf = 5
  i_xor = 28
  encode_key = 7
  decode_key = 1
INVARIANTS InOrder
PROPERTIES ImplementsChannel WriteReturns CloseSeen
CHECK_DEADLOCK FALSE
