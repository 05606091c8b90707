\* A patient user, two outstanding rounds.
CONSTANTS
  s1 = s1
  s2 = s2
  Slot = {s1, s2}
  NoSlot = NoSlot
  Main = Main
  NumFiles = 2
  DbLen <- TwoSounds
  UserLen = {0, 1, 2, 3}
  MaxScore = 2
  MaxPending = 3
  Patient = TRUE
SPECIFICATION Spec
SYMMETRY Symmetry
INVARIANTS
  TypeOK
  ResultIsFirstBest
  MatrixExclusive
  OwnMatrix
  OwnRecording
  OwnTimes
  ScreenAgrees
PROPERTY ImplementsRounds
