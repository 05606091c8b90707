\* Two tables; sequences of one to five features, corridors of one and two.
SPECIFICATION Spec
CONSTANTS
  feature_number = 2
  Scale = 10
  Corpora <- MCCorpora
  MaxTables = 2
CHECK_DEADLOCK FALSE
INVARIANTS
  TypeOK
  ExtractedOnce
  DistanceIsLeast
  PathIsLeast
  FiniteWithinRatio
