SPECIFICATION Spec
CONSTANTS
  MaxResponses = 2
  MaxTurns = 2
  MaxFrames = 1
  MaxTools = 1
PROPERTY
  NoToolFromCancelled
CHECK_DEADLOCK FALSE
