SPECIFICATION Spec
CONSTANTS
  QueueMax = 2
  MaxItems = 1
INVARIANT
  EverySessionRecorded
CHECK_DEADLOCK FALSE
