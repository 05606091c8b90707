----------------------------- MODULE Benchmark ------------------------------
(***************************************************************************)
(* The benchmark: the table of the distances of the utterances of several  *)
(* speakers, and the static cache of the features of their files, which    *)
(* outlives a table that an exception ends.                                *)
(***************************************************************************)
EXTENDS DTW

CONSTANTS
  Corpora,    \* what is compared: numbers of speakers and samples, features, r, and
              \* what a NaN becomes as an int
  MaxTables   \* bound: the calls of calculate_benchmark_table

Samples(c) == (0..c.speakers-1) \X (0..c.samples-1)

ASSUME CorporaAssumption ==
  /\ MaxTables \in Nat
  /\ \A c \in Corpora :
       /\ c.speakers \in Nat /\ c.samples \in Nat
       /\ c.features \in [Samples(c) -> Seq(FeatureVector)]
       /\ c.r \in Nat \ {0}   \* of zero, the constructor throws
       /\ c.nan \in Nat \cup {NaN}

VARIABLES
  corpus,     \* the files; features is a function on their speaker and sample
  cache,      \* cache_map, a function on the files it has
  tables,     \* how many tables were begun
  cell,       \* the number of the cell of the table to fill next
  table,      \* the distances so far, in the order of the loops
  status,     \* is the table being filled, done, or which exception ended it
  dtw,        \* the last DTW object, if any
  reads       \* history: how often the features of each file were extracted

vars == <<corpus, cache, tables, cell, table, status, dtw, reads>>

NoDTW == <<>>

Init ==
  /\ corpus \in Corpora
  /\ cache = <<>>
  /\ tables = 0 /\ cell = 0 /\ table = <<>>
  /\ status = "none"
  /\ dtw = NoDTW
  /\ reads = [s \in Samples(corpus) |-> 0]

calculate_benchmark_table ==
  /\ status # "filling" /\ tables < MaxTables
  /\ tables' = tables + 1
  /\ cell' = 0 /\ table' = <<>> /\ dtw' = NoDTW
  /\ status' = "filling"
  /\ UNCHANGED <<corpus, cache, reads>>

\* The loops over the two speakers and, for each pair, the two samples.
Cells == corpus.speakers * corpus.speakers * corpus.samples * corpus.samples

Row(n) == <<n \div (corpus.speakers * corpus.samples * corpus.samples),
            (n \div corpus.samples) % corpus.samples>>

Column(n) == <<(n \div (corpus.samples * corpus.samples)) % corpus.speakers, n % corpus.samples>>

Filling == status = "filling" /\ cell < Cells

Fill(distance) ==
  /\ table' = Append(table, distance)
  /\ cell' = cell + 1
  /\ UNCHANGED <<corpus, tables, status>>

SameUtterance ==
  /\ Filling /\ Row(cell) = Column(cell)
  /\ Fill(0)
  /\ UNCHANGED <<cache, dtw, reads>>

ToCompare ==
  Row(cell) # Column(cell) /\ Row(cell)[1] <= Column(cell)[1] /\ Row(cell)[2] <= Column(cell)[2]

\* Mutant: the cell is left as it is.
LeaveOutEmpty ==
  /\ Filling /\ Row(cell) # Column(cell) /\ ~ToCompare
  /\ cell' = cell + 1
  /\ UNCHANGED <<corpus, tables, status, table, cache, dtw, reads>>

LeaveOut ==
  /\ Filling /\ Row(cell) # Column(cell) /\ ~ToCompare
  /\ Fill(NaN)
  /\ UNCHANGED <<cache, dtw, reads>>

Throw(what) ==
  /\ status' = what
  /\ UNCHANGED <<corpus, tables, cell, table, dtw>>

\* Mutant: what was extracted is not inserted.
CachedNot(missing) == cache

Cached(missing) ==
  [s \in DOMAIN cache \cup missing |-> corpus.features[s]]

\* mfcc_dtw_distance, unless an exception ends it: of the files that the cache
\* lacks, the features are extracted and inserted.
Compare ==
  LET missing == {Row(cell), Column(cell)} \ DOMAIN cache
      a == corpus.features[Row(cell)]
      b == corpus.features[Column(cell)]
  IN  /\ Filling /\ ToCompare
      /\ cache' = Cached(missing)
      /\ reads' = [s \in DOMAIN reads |-> IF s \in missing THEN reads[s] + 1 ELSE reads[s]]
      /\ IF a = <<>> \/ b = <<>> THEN Throw("empty")
         ELSE /\ dtw' = Warp(a, b, corpus.r, corpus.nan)
              /\ Fill(dtw'.dist)

\* A file that cannot be read, the first or, when the first is already cached or
\* has just been inserted, the second.
ReadFails ==
  LET missing == {Row(cell), Column(cell)} \ DOMAIN cache
  IN  /\ Filling /\ ToCompare
      /\ \/ /\ missing # {}
            /\ UNCHANGED <<cache, reads>>
         \/ /\ missing = {Row(cell), Column(cell)}
            /\ cache' = Cached({Row(cell)})
            /\ reads' = [reads EXCEPT ![Row(cell)] = @ + 1]
      /\ Throw("unreadable")

Complete ==
  /\ status = "filling" /\ cell = Cells
  /\ status' = "done"
  /\ UNCHANGED <<corpus, cache, tables, cell, table, dtw, reads>>

Next ==
  calculate_benchmark_table \/ SameUtterance \/ LeaveOut \/ Compare \/ ReadFails \/ Complete

Spec == Init /\ [][Next]_vars
-----------------------------------------------------------------------------
\* Every variable that changes has its type; the table has as many distances as were filled in.
TypeOK ==
  /\ DOMAIN cache \subseteq Samples(corpus)
  /\ tables \in 0..MaxTables /\ cell \in 0..Cells /\ Len(table) = cell
  /\ \A n \in 1..cell : table[n] \in Nat \cup {NaN, Infinity}
  /\ status \in {"none", "filling", "done", "empty", "unreadable"}
  /\ reads \in [Samples(corpus) -> Nat]

\* The features of a file are extracted at most once, whatever exceptions end how
\* many tables in between, and what is cached are those of the file.
ExtractedOnce ==
  \A s \in DOMAIN reads : reads[s] <= 1 /\ (reads[s] = 1 <=> s \in DOMAIN cache)

\* The distance is the least over all warping paths in the corridor: the order of
\* the loops, the border of infinities and the corridor lose no path.
DistanceIsLeast == dtw # NoDTW /\ Comparable(dtw) => HasLeastDistance(dtw)

\* minimal_path ends such a path, from a border of the matrix on, though cells
\* outside the corridor have steps that were never assigned; and "This cannot have
\* happened" (dtw.hpp:169) does not, even without a path, unless a feature is NaN.
PathIsLeast ==
  dtw # NoDTW /\ Comparable(dtw) =>
    /\ dtw.dist # Infinity => HasLeastPath(dtw)
    /\ Lost \notin Range(dtw.path)

\* The distance is infinite exactly if the first sequence is more than r+1 times as
\* long as the second: the corridor is measured along the first only.
FiniteWithinRatio ==
  dtw # NoDTW /\ Comparable(dtw) =>
    (dtw.dist = Infinity <=> Len(dtw.a) > (dtw.r + 1) * Len(dtw.b))
=============================================================================
