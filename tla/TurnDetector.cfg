SPECIFICATION Spec
CONSTANTS
  FrameMs = {20, 40}
  MinSpeech = 120
  MinSilence = 500
  BargeInMinSpeech = 200
  Extension = 400
  UnitMs = 4
  Window = 8
INVARIANTS
  NotLeftWaiting
  BurstIsHeard
PROPERTIES
  KeepsOrder
  NotCutOff
