\* Sessions of one to five features, buffers of one to almost three windows.
CONSTANTS
  Window = 6
  Totals = {6, 12, 18}
  FrameCounts = {6, 7, 8, 9, 16}
  SizeMod = 256
  MaxRead = 36
SPECIFICATION Spec
INVARIANTS
  TypeOK
  CarryBounded
  Chained
  WindowsInOrder
PROPERTY FeedAdvances
