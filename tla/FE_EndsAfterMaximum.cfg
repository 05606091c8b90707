\* EndsAfterMaximum.
SPECIFICATION Spec
CONSTANTS
  PacketSize = 3
  SizeMod = 64
  Inputs <- MCInputs
  Window = 3
  HopTwice = 3
  Many = 6
CHECK_DEADLOCK FALSE
INVARIANT EndsAfterMaximum
