SPECIFICATION FairSpec
CONSTANTS
  server = server
  none = none
  Conn <- Servers
  NoConn = none
  MaxUnread = 2
  MaxProcessedPackets = 2
  NumOfMessages = 2
INVARIANTS
  IInv
  TypeOK
  AtMostOneRefused
PROPERTIES
  WaitingEnds
CHECK_DEADLOCK FALSE
