SPECIFICATION FairSpec
CONSTANTS
  c1 = c1
  c2 = c2
  c3 = c3
  none = none
  Conn <- TwoConn
  NoConn = none
  Line <- Lines
  MaxUnread = 1
  MaxProcessedPackets = 2
INVARIANTS
  PollGroupRegistered
  OnlyKnownAbort
  NoLeakedHandle
  NoLossIsForgotten
  TableMatchesSockets
  AbortOnlyForUnwelcomed
  IInv
PROPERTIES
  LostPeerIsReleased
  QuitStops
CHECK_DEADLOCK FALSE
