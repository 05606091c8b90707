-------------------------------- MODULE DTW ---------------------------------
(***************************************************************************)
(* Dynamic time warping: the distance of two sequences of features, and    *)
(* the path that has it.  A number is counted in units, of which one has   *)
(* Scale, as a float of a fixed precision is.  A feature is a tuple of     *)
(* components, or Undefined if one is NaN; a distance is a natural number,  *)
(* or Infinity, or NaN.                                                    *)
(***************************************************************************)
EXTENDS Integers, Sequences, FiniteSetsExt, Functions

CONSTANTS
  feature_number,  \* how many components a feature has
  Scale            \* how many units there are in one

ASSUME FeatureAssumption == feature_number \in Nat /\ Scale \in Nat \ {0}

\* The distance, and the feature.
NaN == -1
Undefined == <<>>

\* numeric_limits::infinity(), larger than any sum of distances.
Infinity == -2

FeatureVector == [1..feature_number -> Int] \cup {Undefined}

Plus(x, y) ==
  CASE x = NaN \/ y = NaN -> NaN
    [] x = Infinity \/ y = Infinity -> Infinity
    [] OTHER -> x + y

Less(x, y) == x \notin {NaN, Infinity} /\ y # NaN /\ (y = Infinity \/ x < y)

\* std::accumulate from the int 0: the sum of the squares is cut to an integer at
\* each step, and undefined for NaN: it becomes nan.  The square root is cut to units.
vector_distance(x, y, nan) ==
  LET square == Scale * Scale
      sum[k \in 0..feature_number] ==
        IF k = 0 THEN 0 ELSE (square * sum[k-1] + (x[k] - y[k]) * (x[k] - y[k])) \div square
      inUnits == square * sum[feature_number]
  IN  IF x = Undefined \/ y = Undefined THEN nan
      ELSE CHOOSE n \in 0..inUnits : n * n <= inUnits /\ inUnits < (n + 1) * (n + 1)

\* Mutant: the difference of the indices, without the slope.
InCorridorSquare(i, j, I, J, r) == i - j \in -r..r

\* fabs(i - j/slope) <= r, with the slope J/I.
InCorridor(i, j, I, J, r) == i * J - j * I \in -r*J..r*J

\* Mutant: an infinite one is not found.
LeastFinite(c) ==
  LET k == IF Less(c[2], c[1]) THEN 2 ELSE 1
      m == IF Less(c[3], c[k]) THEN 3 ELSE k
  IN  [dist |-> c[m], step |-> IF c[m] \in {NaN, Infinity} THEN 3 ELSE m - 1]

\* std::min_element and index_of: nothing is less than NaN, nor equal to it.
Least(c) ==
  LET k == IF Less(c[2], c[1]) THEN 2 ELSE 1
      m == IF Less(c[3], c[k]) THEN 3 ELSE k
  IN  [dist |-> c[m], step |-> IF c[m] = NaN THEN 3 ELSE m - 1]

\* Mutant: a step along b costs twice.
WeightsUneven(left, diagonal, down, d) == <<Plus(left, d), Plus(Plus(diagonal, d), d), Plus(Plus(down, d), d)>>

Weights(left, diagonal, down, d) == <<Plus(left, d), Plus(Plus(diagonal, d), d), Plus(down, d)>>

\* The matrix g, with steps beside it, which is zero where nothing is assigned.
Global(a, b, r, nan) ==
  LET Local(i, j) == vector_distance(a[i], b[j], nan)
      g[c \in (0..Len(a)) \X (0..Len(b))] ==
        LET i == c[1]
            j == c[2]
        IN  IF i = 0 /\ j = 0 THEN [dist |-> Plus(Local(1, 1), Local(1, 1)), step |-> 0]
            ELSE IF i = 0 \/ j = 0 \/ ~InCorridor(i, j, Len(a), Len(b), r)
              THEN [dist |-> Infinity, step |-> 0]
            ELSE Least(Weights(g[<<i, j-1>>].dist, g[<<i-1, j-1>>].dist, g[<<i-1, j>>].dist, Local(i, j)))
  IN  g

\* minimal_path follows the steps back to a border; Lost is its exception.
Lost == <<-1, -1>>

\* Mutant: the diagonal is taken for the step along a, and that for it.
minimal_path_turned(g, I, J) ==
  LET back == <<<<1, 1>>, <<0, 1>>, <<1, 0>>>>
      path[c \in (0..I-1) \X (0..J-1)] ==
        LET step == g[<<c[1] + 1, c[2] + 1>>].step
            to == <<c[1] - back[step+1][1], c[2] - back[step+1][2]>>
        IN  IF c[1] = 0 \/ c[2] = 0 THEN <<>>
            ELSE IF step = 3 THEN <<Lost>>
            ELSE Append(path[to], to)
  IN  path[<<I-1, J-1>>]

minimal_path(g, I, J) ==
  LET back == <<<<0, 1>>, <<1, 1>>, <<1, 0>>>>
      path[c \in (0..I-1) \X (0..J-1)] ==
        LET step == g[<<c[1] + 1, c[2] + 1>>].step
            to == <<c[1] - back[step+1][1], c[2] - back[step+1][2]>>
        IN  IF c[1] = 0 \/ c[2] = 0 THEN <<>>
            ELSE IF step = 3 THEN <<Lost>>
            ELSE Append(path[to], to)
  IN  path[<<I-1, J-1>>]

\* The constructor and minimum_distance, as a fraction, and minimal_path.
Warp(a, b, r, nan) ==
  LET g == Global(a, b, r, nan)
  IN  [a |-> a, b |-> b, r |-> r, dist |-> g[<<Len(a), Len(b)>>].dist, of |-> Len(a) + Len(b),
       path |-> minimal_path(g, Len(a), Len(b))]
-----------------------------------------------------------------------------
(* What is said of w, the result of Warp, by looking at all warping paths. *)

Comparable(w) == Undefined \notin Range(w.a) \cup Range(w.b)

\* The sequences of cells from the first to the last by steps along a, b or both,
\* inside the corridor.
Warpings(w) ==
  LET to[c \in (1..Len(w.a)) \X (1..Len(w.b))] ==
        LET i == c[1]
            j == c[2]
        IN  IF ~InCorridor(i, j, Len(w.a), Len(w.b), w.r) THEN {}
            ELSE IF i = 1 /\ j = 1 THEN {<<c>>}
            ELSE {Append(p, c) : p \in (IF j > 1 THEN to[<<i, j-1>>] ELSE {})
                                        \cup (IF i > 1 /\ j > 1 THEN to[<<i-1, j-1>>] ELSE {})
                                        \cup (IF i > 1 THEN to[<<i-1, j>>] ELSE {})}
  IN  to[<<Len(w.a), Len(w.b)>>]

\* The first cell counts four times, another once for each sequence it advances in.
Cost(w, p) ==
  LET d(k) == vector_distance(w.a[p[k][1]], w.b[p[k][2]], NaN)
      sum[k \in 1..Len(p)] ==
        IF k = 1 THEN 4 * d(1)
        ELSE sum[k-1] + (p[k][1] + p[k][2] - p[k-1][1] - p[k-1][2]) * d(k)
  IN  sum[Len(p)]

HasLeastDistance(w) ==
  LET costs == {Cost(w, p) : p \in Warpings(w)}
  IN  w.dist = IF costs = {} THEN Infinity ELSE Min(costs)

HasLeastPath(w) ==
  LET tail == [k \in 1..Len(w.path)+1 |->
                 IF k > Len(w.path) THEN <<Len(w.a), Len(w.b)>> ELSE <<w.path[k][1] + 1, w.path[k][2] + 1>>]
  IN  /\ tail[1][1] = 1 \/ tail[1][2] = 1
      /\ \E p \in Warpings(w) :
           /\ Cost(w, p) = w.dist
           /\ Len(tail) <= Len(p)
           /\ SubSeq(p, Len(p) - Len(tail) + 1, Len(p)) = tail
=============================================================================
