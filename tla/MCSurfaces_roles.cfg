SPECIFICATION AllSpec
CONSTANTS
  z1 = z1
  z2 = z2
  w1 = w1
  LayerSurfaces = {"s1"}
  LayerOutputs = {"o1"}
  LayerModes = {1, 2}
  LayerWire = 2
  OutputSizes = {z1, z2}
  NoSize = NoSize
  MaxSerial = 4
  MaxWire = 4
  MaxRude = 1
INVARIANTS LayerSound PoliteLockerKept
PROPERTIES SceneHoldsAckedPixels Settles MapsEnd
CHECK_DEADLOCK FALSE
