SPECIFICATION AllSpec
CONSTANTS
  w1 = w1
  w2 = w2
  w3 = w3
  w4 = w4
  NoWindow = NoWindow
  Off = Off
INVARIANTS RuntimeSound PortalSound InputSound EffectsSound SwitchKeepsStacking RulesSound FramesSound
CHECK_DEADLOCK FALSE
