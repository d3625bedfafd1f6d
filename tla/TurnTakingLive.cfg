SPECIFICATION FairSpec
CONSTANTS
  MaxResponses = 2
  MaxTurns = 1
  MaxFrames = 1
  MaxTools = 1
PROPERTY
  PumpsReturn
CHECK_DEADLOCK FALSE
