\* Any user, who touches the screen when the main queue is empty; no score is
\* positive, so that the liveness graph stays small.
CONSTANTS
  s1 = s1
  s2 = s2
  Slot = {s1, s2}
  NoSlot = NoSlot
  Main = Main
  NumFiles = 2
  DbLen <- TwoSounds
  UserLen = {2}
  MaxScore = 0
  MaxPending = 1
  Patient = FALSE
SPECIFICATION FairSpec
INVARIANTS
  OneWriter
  
  RoundOrder
  CalculatingMeansWorking
PROPERTY RoundCompletes
