SPECIFICATION FairSpec
CONSTANTS
  c1 = c1
  c2 = c2
  c3 = c3
  none = none
  Conn <- TwoConn
  NoConn = none
  Line <- Lines
  MaxUnread = 1
  MaxProcessedPackets = 1
PROPERTIES
  QuitIsObeyed
CHECK_DEADLOCK FALSE
