SPECIFICATION Spec
CONSTANTS
  c1 = c1
  c2 = c2
  c3 = c3
  none = none
  Conn <- ThreeConn
  NoConn = none
  Line <- NoLines
  MaxUnread = 0
  MaxProcessedPackets = 0
SYMMETRY Symmetry
INVARIANTS
  StreamsWellFormed
  RosterAgreement
PROPERTIES
  ImplementsLobby
CHECK_DEADLOCK FALSE
