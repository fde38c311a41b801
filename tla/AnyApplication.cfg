SPECIFICATION FairSpec
CONSTANTS
  c1 = c1
  Conn <- OneConn
  Line <- Lines
  MaxUnread = 2
  MaxProcessedPackets = 2
  MaxOpens = 2
INVARIANTS
  TypeOK
  PollGroupRegistered
  ConnectedIsHeld
  IInv
  OneOpenLeavesNothing
  NullOnlyAfterPacketCallback
PROPERTIES
  PendingIsReported
CHECK_DEADLOCK FALSE
