SPECIFICATION FairSpec
CONSTANTS
  Line <- Lines
  MaxTyped = 2
INVARIANTS
  IInv
  TypeOK
  QueueIsExclusive
  FrontNeverEmpty
PROPERTIES
  ImplementsLineSource
  LineIsDelivered
CHECK_DEADLOCK FALSE
