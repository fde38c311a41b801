SPECIFICATION FairSessionSpec
CONSTANTS
  c1 = c1
  none = none
  Conn <- OneConn
  NoConn = none
  Line <- Lines
  MaxUnread = 2
  MaxProcessedPackets = 1
  NumOfMessages = 1
INVARIANTS
  WelcomedFinishes
  SessionInv
PROPERTIES
  NothingStaysHalfOpen
CHECK_DEADLOCK FALSE
