SPECIFICATION Spec
CONSTANTS
  One = 16
  Half32 = 512
  Half64 = 65536
  Unit = 32
  N0 = 2
  N1 = 3
  Networks <- MCNetworks
  Factors = {4, 8, 16, 32}
  Features <- MCFeatures
INVARIANTS TypeOK ActivationsClose LabelRight
CHECK_DEADLOCK FALSE
