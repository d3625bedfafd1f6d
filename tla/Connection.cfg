SPECIFICATION FairSpec
CONSTANTS
  QueueMax = 2
  MaxItems = 4
INVARIANTS
  ControlInOrder
  BacklogIsControl
  NothingLeftBehind
  StartedIsRecorded
PROPERTY
  HandlerComesBack
CHECK_DEADLOCK FALSE
