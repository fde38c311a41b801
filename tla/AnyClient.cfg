SPECIFICATION FairAnySpec
CONSTANTS
  s1 = s1
  s2 = s2
  none = none
  Conn <- TwoConn
  NoConn = none
  MaxUnread = 1
  MaxProcessedPackets = 1
  MaxConnects = 3
INVARIANTS
  LossIsOfTheCurrent
  AnyIInv
PROPERTIES
  EndIsReported
CHECK_DEADLOCK FALSE
