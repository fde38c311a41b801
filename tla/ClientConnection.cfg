SPECIFICATION Spec
CONSTANTS
  c1 = c1
  c2 = c2
  o1 = o1
  o2 = o2
  invalid = invalid
  Conn <- TwoConn
  Object <- TwoObjects
  Invalid = invalid
  MaxUnread = 1
SYMMETRY Symmetry
INVARIANTS
  IInv
  OneOwner
  StateIsTrue
PROPERTIES
  AssertionIsExact
  UnownedOnlyWhenAssignedOver
CHECK_DEADLOCK FALSE
