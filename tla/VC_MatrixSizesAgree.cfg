\* Any user, MatrixSizesAgree; two outstanding rounds.
CONSTANTS
  s1 = s1
  s2 = s2
  Slot = {s1, s2}
  NoSlot = NoSlot
  Main = Main
  NumFiles = 2
  DbLen <- TwoSounds
  UserLen = {2}
  MaxScore = 1
  MaxPending = 2
  Patient = FALSE
SPECIFICATION Spec
INVARIANT MatrixSizesAgree
