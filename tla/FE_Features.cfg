\* Files of up to seven samples in packets of three, windows of three at one and a half.
SPECIFICATION Spec
CONSTANTS
  PacketSize = 3
  SizeMod = 64
  Inputs <- MCInputs
  Window = 3
  HopTwice = 3
  Many = 6
CHECK_DEADLOCK FALSE
INVARIANTS
  TypeOK
  StartsAtOnset
  TrimInFile
  FiltersFilled
  WeighsMagnitudes
  WindowsFollow
