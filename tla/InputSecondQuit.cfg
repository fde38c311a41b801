SPECIFICATION FairSpec
CONSTANTS
  Line <- Lines
  MaxTyped = 2
PROPERTIES
  SecondQuitIsRead
CHECK_DEADLOCK FALSE
