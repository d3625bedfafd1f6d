SPECIFICATION Spec
CONSTANTS
  MaxResponses = 2
  MaxTurns = 2
  MaxFrames = 1
  MaxTools = 0
INVARIANTS
  InterruptedIsQuiet
  InterruptedOnce
PROPERTY
  FloorKept
CHECK_DEADLOCK FALSE
