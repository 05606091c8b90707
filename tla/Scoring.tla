------------------------------ MODULE Scoring ------------------------------
(***************************************************************************)
(* How a recording is scored against a file of the database: the matrix of *)
(* similarity of their features, the square region of it that matches      *)
(* best, and the score of that region (_scoring:databaseVoice: and         *)
(* SUTDMFCCHelperFunctions).                                               *)
(*                                                                         *)
(* A feature vector is a number, its distance to another the absolute      *)
(* difference, and a score the exact sum that the code divides by          *)
(* totalEmphasis: floats are not rounded.  One call is followed; what two  *)
(* calls at once do to the matrices they share is in ViewController.       *)
(***************************************************************************)
EXTENDS Integers, Sequences, FiniteSetsExt

CONSTANTS
  FeatureValues,   \* what a feature may be
  Threshold,       \* SUTDMFCC_MATCH_THRESHOLD
  MAXFLOAT,        \* a feature that resembles none
  UserSizes,       \* how many features a recording may have
  DatabaseSizes,   \* how many features a file may have
  SplitScorings    \* what splitRegionScoring may be; in the app, always NO

ASSUME ScoringAssumption ==
  /\ FeatureValues \subseteq Nat /\ Threshold \in Nat /\ MAXFLOAT \in Nat
  /\ \A f \in FeatureValues : MAXFLOAT - f > Threshold
  /\ UserSizes \subseteq Nat /\ DatabaseSizes \subseteq Nat
  /\ SplitScorings \subseteq BOOLEAN

VARIABLES
  split,       \* splitRegionScoring
  recording,   \* the features of the recording, as extracted
  user,        \* userVoiceFeatures
  database,    \* databaseVoiceFeatures
  matrix,      \* similarityMatrix: user features by database features
  k,           \* the next first row to try
  maxScore,    \* matchRegionMaxScore
  startRow,    \* matchRegionStartInUV
  endRow,      \* matchRegionEndInUV
  score,       \* what is returned
  pc

vars == <<split, recording, user, database, matrix, k, maxScore, startRow, endRow, score, pc>>

Unset == -1   \* an uninitialised variable

Init ==
  /\ split \in SplitScorings
  /\ recording \in UNION {[1..n -> FeatureValues] : n \in UserSizes}
  /\ user = recording
  /\ database \in UNION {[1..n -> FeatureValues] : n \in DatabaseSizes}
  /\ matrix = <<>>
  /\ k = 0
  /\ maxScore = 0
  /\ startRow = Unset
  /\ endRow = Unset
  /\ score = Unset
  /\ pc = "start"

Width == Len(database)   \* the target phoneme is the whole file

-----------------------------------------------------------------------------
(* The score of a region: rows from sr on and columns sc..ec of a matrix.  *)

Abs(n) == IF n < 0 THEN -n ELSE n

\* Mutant: the emphasis falls off one too early.
EmphasisShort(edge, i, j) == edge - 1 - Abs(j - i)

Emphasis(edge, i, j) == edge - Abs(j - i)

\* The cells that matchScoreSingleRegion reads.  Its assert(height = width)
\* assigns: as many rows are read as there are columns, whatever er is.
Cells(sc, ec, sr, er) == (sr..(sr + ec - sc)) \X (sc..ec)

\* The score, before it is divided by totalEmphasis.
matchScoreSingleRegion(M, sc, ec, sr, er, emphasizeDiagonal) ==
  LET edge == 1 + ec - sc
  IN  MapThenSumSet(LAMBDA c : M[c[1]][c[2]] * M[c[1]][c[2]]
                                 * (IF emphasizeDiagonal THEN Emphasis(edge, c[1] - sr, c[2] - sc) ELSE 1),
                    Cells(sc, ec, sr, er))

\* The four regions a region of size rows is split into, as
\* <<first column, last column, first row, last row>>.
Quarters(sc, ec, sr, er) ==
  LET half == (er - sr + 1) \div 2
  IN  << <<sc, sc + half - 1, sr, sr + half - 1>>,
         <<sc + half, ec, sr, sr + half - 1>>,
         <<sc, sc + half - 1, sr + half, er>>,
         <<sc + half, ec, sr + half, er>> >>

\* r1 * r4 - r2 * r3, each divided by its number of cells, is not negative.
matchScoreSplitRegion(M, sc, ec, sr, er) ==
  IF sr = er THEN matchScoreSingleRegion(M, sc, ec, sr, er, FALSE)
  ELSE LET Q == Quarters(sc, ec, sr, er)
           r(q) == matchScoreSingleRegion(M, Q[q][1], Q[q][2], Q[q][3], Q[q][4], FALSE)
           size(q) == (1 + Q[q][2] - Q[q][1]) * (1 + Q[q][2] - Q[q][1])
       IN  Max({0, r(1) * r(4) * size(2) * size(3) - r(2) * r(3) * size(1) * size(4)})

RegionScore(M, row) ==
  IF split THEN matchScoreSplitRegion(M, 0, Width - 1, row, row + Width - 1)
  ELSE matchScoreSingleRegion(M, 0, Width - 1, row, row + Width - 1, TRUE)

-----------------------------------------------------------------------------
(* _scoring:databaseVoice:                                                 *)

\* Nothing was recorded.
ScoreEmpty ==
  /\ pc = "start"
  /\ user = <<>>
  /\ score' = -1 /\ pc' = "done"
  /\ UNCHANGED <<split, recording, user, database, matrix, k, maxScore, startRow, endRow>>

\* A recording shorter than the file is padded to its length.  Its last feature
\* is overwritten before it is copied.
Pad ==
  /\ pc = "start"
  /\ user # <<>>
  /\ user' = IF Len(user) < Width
             THEN [i \in 1..Width |-> IF i < Len(user) THEN user[i] ELSE MAXFLOAT]
             ELSE user
  /\ pc' = "fill"
  /\ UNCHANGED <<split, recording, database, matrix, k, maxScore, startRow, endRow, score>>

euclideanDistance(a, b) == Abs(a - b)

\* Mutant: values above the threshold are not zeroed.
SimilarityUnbounded(d) == Abs(Threshold - d)

\* What normaliseMatrix makes of a distance, times the threshold.
Similarity(d) == IF d > Threshold THEN 0 ELSE Threshold - d

\* The matrix is sized, filled by genSimilarityMatrix and normalised.
FillMatrix ==
  /\ pc = "fill"
  /\ matrix' = [i \in 0..Len(user)-1 |-> [j \in 0..Width-1 |->
                  Similarity(euclideanDistance(user[i+1], database[j+1]))]]
  /\ pc' = IF Width = 0 THEN "aborted" ELSE "search"   \* endColumn < M.at(0).size()
  /\ UNCHANGED <<split, recording, user, database, k, maxScore, startRow, endRow, score>>

\* Mutant: only regions next to one another are tried.
TryRowStride ==
  /\ pc = "search" /\ k <= Len(user) - Width
  /\ IF RegionScore(matrix, k) > maxScore
     THEN startRow' = k /\ maxScore' = RegionScore(matrix, k)
     ELSE UNCHANGED <<startRow, maxScore>>
  /\ k' = k + Width
  /\ UNCHANGED <<split, recording, user, database, matrix, endRow, score, pc>>

\* Mutant: the last of equally good regions is taken.
TryRowLast ==
  /\ pc = "search" /\ k <= Len(user) - Width
  /\ IF RegionScore(matrix, k) >= maxScore
     THEN startRow' = k /\ maxScore' = RegionScore(matrix, k)
     ELSE UNCHANGED <<startRow, maxScore>>
  /\ k' = k + 1
  /\ UNCHANGED <<split, recording, user, database, matrix, endRow, score, pc>>

\* One turn of bestMatchLocation's loop.
TryRow ==
  /\ pc = "search" /\ k <= Len(user) - Width
  /\ IF RegionScore(matrix, k) > maxScore
     THEN startRow' = k /\ maxScore' = RegionScore(matrix, k)
     ELSE UNCHANGED <<startRow, maxScore>>
  /\ k' = k + 1
  /\ UNCHANGED <<split, recording, user, database, matrix, endRow, score, pc>>

\* Its end.  A start row that was never set is whatever the caller's variable
\* held: a row of the matrix, or none.
EndSearch ==
  /\ pc = "search" /\ k > Len(user) - Width
  /\ \E row \in IF startRow = Unset THEN 0..Len(user) ELSE {startRow} :
       endRow' = row + Width - 1
  /\ pc' = "score"
  /\ UNCHANGED <<split, recording, user, database, matrix, k, maxScore, startRow, score>>

\* The region's score is the result; M.at throws for a row beyond the matrix.
ScoreRegion ==
  /\ pc = "score"
  /\ IF endRow < Len(user)
     THEN score' = RegionScore(matrix, endRow - Width + 1) /\ pc' = "done"
     ELSE pc' = "aborted" /\ UNCHANGED score
  /\ UNCHANGED <<split, recording, user, database, matrix, k, maxScore, startRow, endRow>>

Next == ScoreEmpty \/ Pad \/ FillMatrix \/ TryRow \/ EndSearch \/ ScoreRegion

Spec == Init /\ [][Next]_vars
-----------------------------------------------------------------------------
Numbers == FeatureValues \cup {MAXFLOAT}

TypeOK ==
  /\ split \in SplitScorings
  /\ recording \in Seq(FeatureValues)
  /\ user \in Seq(Numbers) /\ Len(user) >= Len(recording)
  /\ database \in Seq(FeatureValues)
  /\ pc \in {"search", "score"} =>
       matrix \in [0..Len(user)-1 -> [0..Width-1 -> 0..Threshold]]
  /\ k \in 0..Len(user)+1
  /\ maxScore \in Nat
  /\ startRow \in {Unset} \cup 0..Len(user)-Width
  /\ endRow \in Int
  /\ score \in Int
  /\ pc \in {"start", "fill", "search", "score", "aborted", "done"}

RegionRows == 0..Len(user)-Width

\* The region that is scored is the first of the best ones, and the score that
\* is returned is the best there is, though the start row of a recording in
\* which nothing is similar is never set.
FirstBestRow ==
  /\ pc = "score" /\ startRow # Unset =>
       /\ RegionScore(matrix, startRow) > 0
       /\ \A row \in RegionRows : RegionScore(matrix, row) <= RegionScore(matrix, startRow)
       /\ \A row \in 0..startRow-1 : RegionScore(matrix, row) < RegionScore(matrix, startRow)
  /\ pc = "done" /\ user # <<>> =>
       score = Max({RegionScore(matrix, row) : row \in RegionRows})

\* What a file scores against itself.
PerfectScore ==
  RegionScore([i \in 0..Width-1 |-> [j \in 0..Width-1 |->
                 Similarity(euclideanDistance(database[i+1], database[j+1]))]], 0)

\* A recording in which the word of the file is spoken, wherever it begins and
\* whatever precedes and follows it, scores at least what the file itself does.
SpokenWordScores ==
  pc = "done" /\ Width > 0 /\ (\E o \in 0..Len(recording)-Width :
                                 \A i \in 1..Width : recording[o+i] = database[i]) =>
    score >= PerfectScore

\* The features of a recording that reach the matrix: all of them, but for the
\* last of a recording shorter than the file, which the padding overwrites.
Compared == IF Len(recording) < Width THEN 1..Len(recording)-1 ELSE 1..Len(recording)

\* Under single-region scoring a recording may throw only if none of its features
\* resembles one of the file, wherever the two stand and whatever region is best;
\* the last feature of a short one, lost to the padding, does not save it.
ThrowsOnlyWhenUnlike ==
  ~split /\ pc = "aborted" /\ Width > 0 =>
    \A i \in Compared, j \in 1..Width :
      Similarity(euclideanDistance(recording[i], database[j])) = 0

(* What the comments of the code say, and the code breaks.                 *)

\* "The start and end row of the match region centred around the closest
\* matching features are set as output" (SUTDMFCCHelperFunctions.cpp:80-81).
StartRowSet == pc = "score" => startRow # Unset
=============================================================================
