-------------------------- MODULE BenchmarkProofs --------------------------
(* Proofs about Benchmark and DTW, for every number of speakers and         *)
(* samples, every features and corridor.                                   *)
EXTENDS Benchmark, TLAPS, FiniteSetTheorems, WellFoundedInduction

(* Induction over numbers.  The library's theorems take an operator, which  *)
(* the provers cannot instantiate; a set of numbers serves as well.         *)

\* A set of numbers that has 0 and the successor of each of its members has all.
LEMMA NaturalInduction ==
  ASSUME NEW N, 0 \in N, \A n \in Nat : n \in N => n + 1 \in N
  PROVE  \A n \in Nat : n \in N
  <1> DEFINE S == Nat \ N
  <1> SUFFICES ASSUME S # {} PROVE FALSE
    OBVIOUS
  <1>1. PICK m \in S : \A n \in S : ~ (<<n, m>> \in OpToRel(<, Nat))
    <2>1. S \in SUBSET Nat
      OBVIOUS
    <2> QED
      BY <2>1, NatLessThanWellFounded, WFMin
  <1>2. m \in Nat /\ m # 0 /\ m - 1 \in Nat /\ m - 1 < m /\ m = (m - 1) + 1
    OBVIOUS
  <1>3. m - 1 \notin S
    BY <1>1, <1>2 DEF OpToRel
  <1> QED
    BY <1>2, <1>3

\* What has a rank, and is in T if all of a lower rank are, is in T.
LEMMA RankInduction ==
  ASSUME NEW D, NEW rank \in [D -> Nat], NEW T,
         \A c \in D : (\A e \in D : rank[e] < rank[c] => e \in T) => c \in T
  PROVE  \A c \in D : c \in T
  <1> DEFINE N == {n \in Nat : \A c \in D : rank[c] < n => c \in T}
  <1>1. 0 \in N
    OBVIOUS
  <1>2. ASSUME NEW n \in Nat, n \in N PROVE n + 1 \in N
    <2>1. ASSUME NEW c \in D, rank[c] < n + 1 PROVE c \in T
      <3>1. ASSUME NEW e \in D, rank[e] < rank[c] PROVE e \in T
        <4>1. rank[e] \in Nat /\ rank[c] \in Nat /\ rank[e] < n
          BY <2>1, <3>1
        <4> QED
          BY <1>2, <4>1
      <3> QED
        BY <3>1
    <2> QED
      BY <2>1
  <1> HIDE DEF N
  <1>3. \A n \in Nat : n \in N
    BY <1>1, <1>2, NaturalInduction
  <1>4. ASSUME NEW c \in D PROVE c \in T
    <2>1. rank[c] + 1 \in N /\ rank[c] \in Nat /\ rank[c] < rank[c] + 1
      BY <1>3
    <2> QED
      BY <2>1 DEF N
  <1> QED
    BY <1>4

\* f and h agree on what has a lower rank than c.
Agree(D, rank, c, f, h) == \A e \in D : rank[e] < rank[c] => f[e] = h[e]

\* The value at c, of a function f from D to V, depends on what has a lower rank only.
Recursion(D, V, rank, B) ==
  /\ V # {}
  /\ rank \in [D -> Nat]
  /\ \E most \in Nat : \A c \in D : rank[c] <= most
  /\ B \in [[D -> V] \X D -> V]
  /\ \A f, h \in [D -> V], c \in D : Agree(D, rank, c, f, h) => B[<<f, c>>] = B[<<h, c>>]

\* A recursive definition, whose value at c, B[<<f, c>>], depends on values of f at
\* what has a lower rank only, defines something.
LEMMA RecursionDefines ==
  ASSUME NEW D, NEW V, NEW rank, NEW B, Recursion(D, V, rank, B)
  PROVE  \E f \in [D -> V] : f = [c \in D |-> B[<<f, c>>]]
  <1>0. /\ rank \in [D -> Nat] /\ B \in [[D -> V] \X D -> V]
        /\ \A f, h \in [D -> V], c \in D : Agree(D, rank, c, f, h) => B[<<f, c>>] = B[<<h, c>>]
    BY DEF Recursion
  <1>9. PICK v \in V, most \in Nat : \A c \in D : rank[c] <= most
    BY DEF Recursion
  <1> DEFINE N == {n \in Nat : \E f \in [D -> V] : \A c \in D : rank[c] < n => f[c] = B[<<f, c>>]}
  <1>1. 0 \in N
    <2>1. [c \in D |-> v] \in [D -> V]
      OBVIOUS
    <2>2. \A c \in D : ~(rank[c] < 0)
      BY <1>0
    <2> QED
      BY <2>1, <2>2
  <1>2. ASSUME NEW n \in Nat, n \in N PROVE n + 1 \in N
    <2>1. PICK f \in [D -> V] : \A c \in D : rank[c] < n => f[c] = B[<<f, c>>]
      BY <1>2
    <2> DEFINE h == [c \in D |-> B[<<f, c>>]]
    <2>2. h \in [D -> V]
      BY <1>0
    <2>3. ASSUME NEW c \in D, rank[c] < n + 1 PROVE h[c] = B[<<h, c>>]
      <3>1. ASSUME NEW e \in D, rank[e] < rank[c] PROVE f[e] = h[e]
        <4>1. rank[e] \in Nat /\ rank[c] \in Nat /\ rank[e] < n
          BY <1>0, <2>3, <3>1
        <4> QED
          BY <2>1, <4>1
      <3> HIDE DEF h
      <3>2. B[<<f, c>>] = B[<<h, c>>]
        BY <1>0, <2>2, <3>1 DEF Agree
      <3> QED
        BY <1>0, <3>2 DEF h
    <2> HIDE DEF h
    <2> QED
      BY <2>2, <2>3
  <1>3. most + 1 \in N
    <2> HIDE DEF N
    <2> QED
      BY <1>1, <1>2, NaturalInduction
  <1>4. PICK f \in [D -> V] : \A c \in D : rank[c] < most + 1 => f[c] = B[<<f, c>>]
    BY <1>3
  <1>5. ASSUME NEW c \in D PROVE f[c] = B[<<f, c>>]
    <2>1. rank[c] \in Nat /\ rank[c] <= most
      BY <1>0, <1>9
    <2> QED
      BY <1>4, <2>1
  <1>6. f = [c \in D |-> B[<<f, c>>]]
    BY <1>5
  <1> QED
    BY <1>6

(* Distances of two features.                                              *)

\* Of n, divided by m, q is the quotient and r the remainder.
Divides(n, m, q, r) == q \in Nat /\ r \in 0..m-1 /\ n = q * m + r

\* So are those of the operators.
LEMMA DivisionIs ==
  ASSUME NEW n \in Nat, NEW m \in Nat \ {0}
  PROVE  Divides(n, m, n \div m, n % m)
  <1> DEFINE q == n \div m
             r == n % m
  <1>1. q \in Int /\ r \in 0..m-1 /\ n = m * q + r
    OBVIOUS
  <1> HIDE DEF q, r
  <1>2. m * q = q * m
    BY <1>1
  <1>3. q >= 0
    <2> SUFFICES ASSUME q < 0 PROVE FALSE
      BY <1>1
    <2>1. PICK k \in Nat : q = -1 - k
      <3>1. -1 - q \in Nat /\ q = -1 - (-1 - q)
        BY <1>1
      <3> QED
        BY <3>1
    <2>2. m * q = -m - m * k /\ m * k \in Nat
      BY <2>1
    <2> DEFINE l == m * k
               x == m * q
    <2>3. x = -m - l /\ l \in Nat /\ n = x + r
      BY <1>1, <2>2
    <2> HIDE DEF l, x
    <2> QED
      BY <1>1, <2>3
  <1>4. Divides(n, m, q, r)
    BY <1>1, <1>2, <1>3 DEF Divides
  <1> QED
    BY <1>4, Zenon DEF q, r

\* Every number has a root, rounded down.
LEMMA RootExists ==
  \A s \in Nat : \E n \in 0..s : n * n <= s /\ s < (n + 1) * (n + 1)
  <1> DEFINE Root(n, s) == n * n <= s /\ s < (n + 1) * (n + 1)
             N == {s \in Nat : \E n \in 0..s : Root(n, s)}
  <1>1. 0 \in N
    <2>1. 0 \in 0..0 /\ Root(0, 0)
      OBVIOUS
    <2> HIDE DEF Root
    <2> QED
      BY <2>1
  <1>2. ASSUME NEW s \in Nat, s \in N PROVE s + 1 \in N
    <2>1. PICK n \in 0..s : Root(n, s)
      BY <1>2
    <2>2. n \in Nat /\ n \in 0..s+1 /\ n + 1 \in 0..s+1
      OBVIOUS
    <2>3. CASE s + 1 < (n + 1) * (n + 1)
      <3>1. n * n \in Nat
        BY <2>2
      <3>2. Root(n, s + 1)
        BY <2>1, <2>3, <3>1
      <3> HIDE DEF Root
      <3> QED
        BY <2>2, <3>2
    <2>4. CASE ~(s + 1 < (n + 1) * (n + 1))
      <3> DEFINE q == (n + 1) * (n + 1)
      <3>1. q \in Nat /\ (n + 1 + 1) * (n + 1 + 1) = q + 2 * n + 3
        BY <2>2
      <3>2. q <= s + 1 /\ s < q
        BY <2>1, <2>2, <2>4, <3>1
      <3> HIDE DEF q
      <3>3. s + 1 < (n + 1 + 1) * (n + 1 + 1)
        BY <2>2, <3>1, <3>2
      <3>4. Root(n + 1, s + 1)
        BY <3>2, <3>3 DEF q
      <3> HIDE DEF Root
      <3> QED
        BY <2>2, <3>4
    <2> QED
      BY <2>3, <2>4
  <1> HIDE DEF N
  <1>3. \A s \in Nat : s \in N
    BY <1>1, <1>2, NaturalInduction
  <1> QED
    BY <1>3 DEF N

\* A feature that is defined has its components.
LEMMA Defined ==
  ASSUME NEW x \in FeatureVector, x # Undefined
  PROVE  x \in [1..feature_number -> Int]
  BY DEF FeatureVector

\* The sum after a component.
Added(x, y, k, s) == (Scale * Scale * s + (x[k] - y[k]) * (x[k] - y[k])) \div (Scale * Scale)

\* Two features that are defined have a distance, which is a number.
LEMMA DistanceNatural ==
  ASSUME NEW x \in FeatureVector, NEW y \in FeatureVector, NEW nan, x # Undefined, y # Undefined
  PROVE  vector_distance(x, y, nan) \in Nat /\ vector_distance(x, y, nan) = vector_distance(x, y, NaN)
  <1> DEFINE D == 0..feature_number
             P(f) == f = [k \in 0..feature_number |->
                            IF k = 0 THEN 0
                            ELSE Added(x, y, k, f[k-1])]
             sum == CHOOSE f : P(f)
  <1>0. feature_number \in Nat
    BY FeatureAssumption
  <1> DEFINE square == Scale * Scale
  <1>7. square \in Nat \ {0}
    BY FeatureAssumption
  <1>1. ASSUME NEW k \in D, k # 0, NEW s \in Nat
        PROVE  Added(x, y, k, s) \in Nat
    <2>1. k \in 1..feature_number
      BY <1>0, <1>1
    <2>2. x[k] \in Int /\ y[k] \in Int
      BY <2>1, Defined
    <2> DEFINE e == x[k] - y[k]
    <2>3. e \in Int
      BY <2>2
    <2> HIDE DEF e
    <2>4. e * e \in Nat
      BY <2>3
    <2> DEFINE q == e * e
    <2> HIDE DEF q
    <2> HIDE DEF square
    <2>5. (square * s + q) \div square \in Nat
      <3> DEFINE n == square * s + q
      <3>1. n \in Nat
        BY <1>7, <2>4 DEF q
      <3> HIDE DEF n
      <3>2. n \div square \in Nat
        BY <1>7, <3>1, DivisionIs DEF Divides
      <3> QED
        BY <3>2 DEF n
    <2> QED
      BY <2>5, Zenon DEF e, q, square, Added
  <1>2. \E f : P(f)
    <2> DEFINE B == [z \in [D -> Nat] \X D |->
                       IF z[2] = 0 THEN 0
                       ELSE Added(x, y, z[2], z[1][z[2]-1])]
               rank == [k \in D |-> k]
    <2>1. ASSUME NEW f \in [D -> Nat], NEW k \in D, k # 0
          PROVE  k - 1 \in D /\ f[k-1] \in Nat /\ rank[k-1] < rank[k]
      BY <1>0, <2>1
    <2>2. ASSUME NEW f \in [D -> Nat], NEW k \in D
          PROVE  B[<<f, k>>] = IF k = 0 THEN 0
                               ELSE Added(x, y, k, f[k-1])
      OBVIOUS
    <2>3. B \in [[D -> Nat] \X D -> Nat]
      <3>1. ASSUME NEW f \in [D -> Nat], NEW k \in D PROVE B[<<f, k>>] \in Nat
        <4> HIDE DEF B
        <4>1. CASE k = 0
          BY <2>2, <4>1
        <4>2. CASE k # 0
          <5>1. f[k-1] \in Nat
            BY <2>1, <4>2
          <5> QED
            BY <1>1, <2>2, <4>2, <5>1
        <4> QED
          BY <4>1, <4>2
      <3>2. \A z \in [D -> Nat] \X D : z = <<z[1], z[2]>> /\ z[1] \in [D -> Nat] /\ z[2] \in D
        OBVIOUS
      <3>3. \A z \in [D -> Nat] \X D : B[z] \in Nat
        <4> HIDE DEF B
        <4> QED
          BY <3>1, <3>2
      <3>4. B = [z \in [D -> Nat] \X D |-> B[z]]
        OBVIOUS
      <3> QED
        BY <3>3, <3>4
    <2>4. rank \in [D -> Nat] /\ \A k \in D : rank[k] <= feature_number
      BY <1>0
    <2>5. ASSUME NEW f \in [D -> Nat], NEW h \in [D -> Nat], NEW k \in D,
                 Agree(D, rank, k, f, h)
          PROVE  B[<<f, k>>] = B[<<h, k>>]
      <3> HIDE DEF B
      <3>1. CASE k = 0
        BY <2>2, <3>1
      <3>2. CASE k # 0
        <4>1. k - 1 \in D /\ rank[k-1] < rank[k]
          BY <2>1, <3>2
        <4>2. f[k-1] = h[k-1]
          BY <2>5, <4>1 DEF Agree
        <4> QED
          BY <2>2, <3>2, <4>2
      <3> QED
        BY <3>1, <3>2
    <2>6. PICK f \in [D -> Nat] : f = [k \in D |-> B[<<f, k>>]]
      <3> HIDE DEF B, rank, D
      <3>1. Recursion(D, Nat, rank, B)
        BY <1>0, <2>3, <2>4, <2>5 DEF Recursion
      <3> QED
        BY <3>1, RecursionDefines
    <2>7. P(f)
      BY <2>2, <2>6
    <2> QED
      BY <2>7
  <1> HIDE DEF P
  <1>3. P(sum)
    BY <1>2
  <1>4. sum[feature_number] \in Nat
    <2> DEFINE N == {k \in Nat : k \in D => sum[k] \in Nat}
    <2> HIDE DEF sum
    <2>1. \A k \in D : sum[k] = IF k = 0 THEN 0
                                ELSE Added(x, y, k, sum[k-1])
      BY <1>3 DEF P
    <2>2. 0 \in N
      BY <1>0, <2>1
    <2>3. ASSUME NEW k \in Nat, k \in N PROVE k + 1 \in N
      <3>1. CASE k + 1 \in D
        <4>1. k \in D /\ sum[k] \in Nat /\ k + 1 # 0 /\ (k + 1) - 1 = k
          BY <1>0, <2>3, <3>1
        <4>2. sum[k+1] \in Nat
          BY <1>1, <2>1, <3>1, <4>1
        <4> QED
          BY <4>2
      <3> QED
        BY <3>1
    <2> HIDE DEF N
    <2>4. feature_number \in N
      BY <1>0, <2>2, <2>3, NaturalInduction
    <2> QED
      BY <1>0, <2>4 DEF N
  <1> DEFINE inUnits == square * sum[feature_number]
             root == CHOOSE n \in 0..inUnits : n * n <= inUnits /\ inUnits < (n + 1) * (n + 1)
  <1>5. root \in Nat
    <2>1. inUnits \in Nat
      <3> HIDE DEF sum, square
      <3> QED
        BY <1>7, <1>4
    <2> HIDE DEF inUnits
    <2>2. root \in 0..inUnits
      BY <2>1, RootExists
    <2> HIDE DEF root
    <2> QED
      BY <2>1, <2>2
  <1>6. vector_distance(x, y, nan) = root /\ vector_distance(x, y, NaN) = root
    BY DEF vector_distance, P, Added
  <1> QED
    BY <1>5, <1>6

\* The distance from one that is not is what a NaN becomes.
LEMMA DistanceUndefined ==
  ASSUME NEW x, NEW y, NEW nan, x = Undefined \/ y = Undefined
  PROVE  vector_distance(x, y, nan) = nan
  BY DEF vector_distance

(* The matrix g.                                                           *)

Distances == Nat \cup {NaN, Infinity}

Entries == [dist : Distances, step : 0..3]

\* What the sequences of features may be.
Sequences(a, b, r, nan) ==
  /\ a \in Seq(FeatureVector) \ {<<>>} /\ b \in Seq(FeatureVector) \ {<<>>}
  /\ r \in Nat \ {0} /\ nan \in Nat \cup {NaN}

Corners(a, b) == (0..Len(a)) \X (0..Len(b))

\* The definition of g at a cell.
GlobalAt(a, b, r, nan, g, i, j) ==
  IF i = 0 /\ j = 0
    THEN [dist |-> Plus(vector_distance(a[1], b[1], nan), vector_distance(a[1], b[1], nan)), step |-> 0]
  ELSE IF i = 0 \/ j = 0 \/ ~InCorridor(i, j, Len(a), Len(b), r) THEN [dist |-> Infinity, step |-> 0]
  ELSE Least(Weights(g[<<i, j-1>>].dist, g[<<i-1, j-1>>].dist, g[<<i-1, j>>].dist,
                     vector_distance(a[i], b[j], nan)))

\* A sum of two distances is one.
LEMMA PlusType ==
  ASSUME NEW x \in Distances, NEW y \in Distances
  PROVE  Plus(x, y) \in Distances
  BY DEF Plus, Distances, NaN, Infinity

\* Least returns a distance and a step.
LEMMA LeastType ==
  ASSUME NEW x \in Distances, NEW y \in Distances, NEW z \in Distances
  PROVE  Least(<<x, y, z>>) \in Entries
  BY DEF Least, Entries

\* The distance of two features is one, whatever a NaN becomes.
LEMMA LocalType ==
  ASSUME NEW a, NEW b, NEW r, NEW nan, Sequences(a, b, r, nan), NEW i \in 1..Len(a), NEW j \in 1..Len(b)
  PROVE  vector_distance(a[i], b[j], nan) \in Distances
  <1>1. a[i] \in FeatureVector /\ b[j] \in FeatureVector /\ nan \in Distances
    BY DEF Sequences, Distances
  <1>2. CASE a[i] = Undefined \/ b[j] = Undefined
    BY <1>1, <1>2, DistanceUndefined
  <1>3. CASE a[i] # Undefined /\ b[j] # Undefined
    BY <1>1, <1>3, DistanceNatural DEF Distances
  <1> QED
    BY <1>2, <1>3

\* What the definition says of a cell is a distance and a step, if that of the cells before is.
LEMMA GlobalAtType ==
  ASSUME NEW a, NEW b, NEW r, NEW nan, Sequences(a, b, r, nan),
         NEW g, NEW i \in 0..Len(a), NEW j \in 0..Len(b),
         i # 0 /\ j # 0 =>
           g[<<i, j-1>>] \in Entries /\ g[<<i-1, j-1>>] \in Entries /\ g[<<i-1, j>>] \in Entries
  PROVE  GlobalAt(a, b, r, nan, g, i, j) \in Entries
  <1>1. Len(a) \in Nat \ {0} /\ Len(b) \in Nat \ {0} /\ 0 \in 0..3 /\ Infinity \in Distances
    BY DEF Sequences, Distances
  <1>2. CASE i = 0 /\ j = 0
    <2>1. vector_distance(a[1], b[1], nan) \in Distances
      BY <1>1, LocalType
    <2>2. Plus(vector_distance(a[1], b[1], nan), vector_distance(a[1], b[1], nan)) \in Distances
      BY <2>1, PlusType
    <2> QED
      BY <1>1, <1>2, <2>2 DEF GlobalAt, Entries
  <1>3. CASE i = 0 \/ j = 0
    BY <1>1, <1>2, <1>3 DEF GlobalAt, Entries
  <1>4. CASE ~(i = 0 \/ j = 0)
    <2> DEFINE x == g[<<i, j-1>>].dist
               y == g[<<i-1, j-1>>].dist
               z == g[<<i-1, j>>].dist
               d == vector_distance(a[i], b[j], nan)
    <2>1. x \in Distances /\ y \in Distances /\ z \in Distances
      BY <1>4 DEF Entries
    <2>2. d \in Distances
      <3>1. i \in 1..Len(a) /\ j \in 1..Len(b)
        BY <1>1, <1>4
      <3> QED
        BY <3>1, LocalType
    <2>3. \/ GlobalAt(a, b, r, nan, g, i, j) = Least(Weights(x, y, z, d))
          \/ GlobalAt(a, b, r, nan, g, i, j) = [dist |-> Infinity, step |-> 0]
      BY <1>4 DEF GlobalAt
    <2> HIDE DEF x, y, z, d
    <2>4. Least(Weights(x, y, z, d)) \in Entries
      BY <2>1, <2>2, PlusType, LeastType DEF Weights
    <2>5. [dist |-> Infinity, step |-> 0] \in Entries
      BY <1>1 DEF Entries
    <2> QED
      BY <2>3, <2>4, <2>5
  <1> QED
    BY <1>2, <1>3, <1>4

\* The rank of a cell: how many steps lead there at most.
Steps(D) == [c \in D |-> c[1] + c[2]]

\* Each cell of g has a distance and a step, as defined.
LEMMA GlobalEquation ==
  ASSUME NEW a, NEW b, NEW r, NEW nan, Sequences(a, b, r, nan), NEW g, g = Global(a, b, r, nan)
  PROVE  \A i \in 0..Len(a), j \in 0..Len(b) :
           g[<<i, j>>] \in Entries /\ g[<<i, j>>] = GlobalAt(a, b, r, nan, g, i, j)
  <1> DEFINE D == Corners(a, b)
             P(f) == f = [c \in Corners(a, b) |-> GlobalAt(a, b, r, nan, f, c[1], c[2])]
             rank == Steps(D)
  <1>0. Len(a) \in Nat /\ Len(b) \in Nat
    BY DEF Sequences
  <1>1. \A c \in D : c = <<c[1], c[2]>> /\ c[1] \in 0..Len(a) /\ c[2] \in 0..Len(b)
    BY DEF Corners
  <1>2. \A i \in 0..Len(a), j \in 0..Len(b) : <<i, j>> \in D /\ rank[<<i, j>>] = i + j
    BY DEF Corners, Steps
  <1>3. rank \in [D -> Nat] /\ \A c \in D : rank[c] <= Len(a) + Len(b)
    BY <1>0 DEF Corners, Steps
  <1>4. ASSUME NEW i \in 0..Len(a), NEW j \in 0..Len(b), i # 0, j # 0
        PROVE  /\ i - 1 \in 0..Len(a) /\ j - 1 \in 0..Len(b)
               /\ <<i, j-1>> \in D /\ rank[<<i, j-1>>] < rank[<<i, j>>]
               /\ <<i-1, j-1>> \in D /\ rank[<<i-1, j-1>>] < rank[<<i, j>>]
               /\ <<i-1, j>> \in D /\ rank[<<i-1, j>>] < rank[<<i, j>>]
    <2>1. i - 1 \in 0..Len(a) /\ j - 1 \in 0..Len(b)
      BY <1>0, <1>4
    <2> HIDE DEF D, rank
    <2>2. /\ rank[<<i, j>>] = i + j /\ rank[<<i-1, j>>] = (i - 1) + j
          /\ rank[<<i, j-1>>] = i + (j - 1) /\ rank[<<i-1, j-1>>] = (i - 1) + (j - 1)
      BY <1>2, <2>1
    <2> QED
      BY <1>0, <1>2, <2>1, <2>2
  <1>5. \E f : P(f)
    <2> DEFINE B == [z \in [D -> Entries] \X D |-> GlobalAt(a, b, r, nan, z[1], z[2][1], z[2][2])]
    <2> HIDE DEF D, rank
    <2>1. ASSUME NEW f \in [D -> Entries], NEW c \in D
          PROVE  B[<<f, c>>] = GlobalAt(a, b, r, nan, f, c[1], c[2])
      OBVIOUS
    <2>2. B \in [[D -> Entries] \X D -> Entries]
      <3>1. ASSUME NEW f \in [D -> Entries], NEW c \in D
            PROVE  GlobalAt(a, b, r, nan, f, c[1], c[2]) \in Entries
        <4> DEFINE i == c[1]
                   j == c[2]
        <4>1. i \in 0..Len(a) /\ j \in 0..Len(b)
          BY <1>1
        <4> HIDE DEF i, j
        <4>2. i # 0 /\ j # 0 =>
                f[<<i, j-1>>] \in Entries /\ f[<<i-1, j-1>>] \in Entries /\ f[<<i-1, j>>] \in Entries
          BY <1>4, <4>1
        <4>3. GlobalAt(a, b, r, nan, f, i, j) \in Entries
          BY <4>1, <4>2, GlobalAtType
        <4> QED
          BY <4>3 DEF i, j
      <3> QED
        BY <3>1
    <2>3. ASSUME NEW f \in [D -> Entries], NEW h \in [D -> Entries], NEW c \in D, Agree(D, rank, c, f, h)
          PROVE  B[<<f, c>>] = B[<<h, c>>]
      <3> DEFINE i == c[1]
                 j == c[2]
      <3>1. i \in 0..Len(a) /\ j \in 0..Len(b) /\ c = <<i, j>>
        BY <1>1
      <3> HIDE DEF i, j, B
      <3>2. i # 0 /\ j # 0 => /\ f[<<i, j-1>>] = h[<<i, j-1>>]
                             /\ f[<<i-1, j-1>>] = h[<<i-1, j-1>>]
                             /\ f[<<i-1, j>>] = h[<<i-1, j>>]
        BY <1>4, <2>3, <3>1 DEF Agree
      <3>3. GlobalAt(a, b, r, nan, f, i, j) = GlobalAt(a, b, r, nan, h, i, j)
        BY <3>2 DEF GlobalAt
      <3> QED
        BY <2>1, <3>3 DEF i, j
    <2>4. PICK f \in [D -> Entries] : f = [c \in D |-> B[<<f, c>>]]
      <3>1. Len(a) + Len(b) \in Nat /\ Entries # {}
        <4>1. [dist |-> NaN, step |-> 0] \in Entries
          BY DEF Entries, Distances
        <4> QED
          BY <1>0, <4>1
      <3> HIDE DEF B
      <3>2. Recursion(D, Entries, rank, B)
        BY <1>3, <2>2, <2>3, <3>1 DEF Recursion
      <3> QED
        BY <3>2, RecursionDefines
    <2>5. P(f)
      BY <2>1, <2>4 DEF D
    <2> QED
      BY <2>5
  <1>6. g = CHOOSE f : P(f)
    BY DEF Global, GlobalAt, Corners
  <1> HIDE DEF P
  <1>7. P(g)
    BY <1>5, <1>6
  <1>8. \A i \in 0..Len(a), j \in 0..Len(b) : g[<<i, j>>] = GlobalAt(a, b, r, nan, g, i, j)
    BY <1>7 DEF P, Corners
  <1>9. \A c \in D : g[c] \in Entries
    <2> DEFINE T == {c \in D : g[c] \in Entries}
    <2> HIDE DEF D, rank
    <2>1. ASSUME NEW c \in D, \A e \in D : rank[e] < rank[c] => e \in T PROVE c \in T
      <3> DEFINE i == c[1]
                 j == c[2]
      <3>1. i \in 0..Len(a) /\ j \in 0..Len(b) /\ c = <<i, j>>
        BY <1>1
      <3> HIDE DEF i, j
      <3>2. i # 0 /\ j # 0 =>
              g[<<i, j-1>>] \in Entries /\ g[<<i-1, j-1>>] \in Entries /\ g[<<i-1, j>>] \in Entries
        BY <1>4, <2>1, <3>1
      <3>3. g[<<i, j>>] \in Entries
        BY <1>8, <3>1, <3>2, GlobalAtType
      <3> QED
        BY <3>1, <3>3
    <2> HIDE DEF T
    <2>2. \A c \in D : c \in T
      BY <1>3, <2>1, RankInduction
    <2> QED
      BY <2>2 DEF T
  <1> QED
    BY <1>2, <1>8, <1>9

(* The warping paths.                                                      *)

\* What Warp returns, of features that can be compared.
Warped(w) ==
  /\ \E nan \in Nat \cup {NaN} : Sequences(w.a, w.b, w.r, nan) /\ w = Warp(w.a, w.b, w.r, nan)
  /\ Comparable(w)

Rows(w) == Len(w.a)

Columns(w) == Len(w.b)

Places(w) == (1..Rows(w)) \X (1..Columns(w))

\* The definition of the paths to a cell, and the paths to all.
WaysAt(w, to, c) ==
  IF ~InCorridor(c[1], c[2], Rows(w), Columns(w), w.r) THEN {}
  ELSE IF c[1] = 1 /\ c[2] = 1 THEN {<<c>>}
  ELSE {Append(p, c) : p \in (IF c[2] > 1 THEN to[<<c[1], c[2]-1>>] ELSE {})
                              \cup (IF c[1] > 1 /\ c[2] > 1 THEN to[<<c[1]-1, c[2]-1>>] ELSE {})
                              \cup (IF c[1] > 1 THEN to[<<c[1]-1, c[2]>>] ELSE {})}

Ways(w) == CHOOSE to : to = [c \in Places(w) |-> WaysAt(w, to, c)]

\* The cells one step before another.
Before(w, i, j) == {<<i, j-1>>, <<i-1, j-1>>, <<i-1, j>>} \cap Places(w)

\* The steps there are before a cell.
LEMMA BeforeIs ==
  ASSUME NEW w, Rows(w) \in Nat, Columns(w) \in Nat, NEW i \in 1..Rows(w), NEW j \in 1..Columns(w)
  PROVE  /\ <<i, j-1>> \in Before(w, i, j) <=> j > 1
         /\ <<i-1, j-1>> \in Before(w, i, j) <=> i > 1 /\ j > 1
         /\ <<i-1, j>> \in Before(w, i, j) <=> i > 1
         /\ \A e \in Before(w, i, j) :
              e \in Places(w) /\ (e = <<i, j-1>> \/ e = <<i-1, j-1>> \/ e = <<i-1, j>>)
  BY DEF Before, Places

\* The ways to a cell are sequences of cells.
LEMMA WaysEquation ==
  ASSUME NEW w, Rows(w) \in Nat, Columns(w) \in Nat
  PROVE  \A c \in Places(w) : Ways(w)[c] \in SUBSET Seq(Places(w)) /\ Ways(w)[c] = WaysAt(w, Ways(w), c)
  <1> DEFINE D == Places(w)
             V == SUBSET Seq(D)
             P(f) == f = [c \in Places(w) |-> WaysAt(w, f, c)]
             rank == Steps(D)
  <1>0. \A c \in D : c = <<c[1], c[2]>> /\ c[1] \in 1..Rows(w) /\ c[2] \in 1..Columns(w)
    BY DEF Places
  <1>1. rank \in [D -> Nat] /\ \A c \in D : rank[c] <= Rows(w) + Columns(w) /\ rank[c] = c[1] + c[2]
    <2>1. \A c \in D : rank[c] = c[1] + c[2] /\ c[1] \in 1..Rows(w) /\ c[2] \in 1..Columns(w)
      BY DEF Places, Steps
    <2> HIDE DEF D, rank
    <2>2. \A c \in D : rank[c] \in Nat /\ rank[c] <= Rows(w) + Columns(w)
      BY <2>1
    <2>3. rank = [c \in D |-> rank[c]]
      BY DEF rank, Steps
    <2> QED
      BY <2>1, <2>2, <2>3
  <1>2. ASSUME NEW c \in D
        PROVE  /\ c[2] > 1 => <<c[1], c[2]-1>> \in D /\ rank[<<c[1], c[2]-1>>] < rank[c]
               /\ c[1] > 1 /\ c[2] > 1 => <<c[1]-1, c[2]-1>> \in D /\ rank[<<c[1]-1, c[2]-1>>] < rank[c]
               /\ c[1] > 1 => <<c[1]-1, c[2]>> \in D /\ rank[<<c[1]-1, c[2]>>] < rank[c]
    <2> DEFINE i == c[1]
               j == c[2]
    <2>1. i \in 1..Rows(w) /\ j \in 1..Columns(w) /\ rank[c] = i + j
      BY <1>0, <1>1
    <2>9. \A k, l \in Nat : <<k, l>> \in D => rank[<<k, l>>] = k + l
      BY <1>1
    <2> HIDE DEF i, j, rank
    <2>8. /\ i \in Nat /\ j \in Nat /\ (j > 1 => j - 1 \in 1..Columns(w)) /\ (i > 1 => i - 1 \in 1..Rows(w))
      BY <2>1
    <2>7. /\ j > 1 => <<i, j-1>> \in D
          /\ i > 1 /\ j > 1 => <<i-1, j-1>> \in D
          /\ i > 1 => <<i-1, j>> \in D
      BY <2>1, <2>8 DEF Places
    <2> HIDE DEF D
    <2>2. /\ j > 1 => <<i, j-1>> \in D /\ rank[<<i, j-1>>] = i + (j - 1)
          /\ i > 1 /\ j > 1 => <<i-1, j-1>> \in D /\ rank[<<i-1, j-1>>] = (i - 1) + (j - 1)
          /\ i > 1 => <<i-1, j>> \in D /\ rank[<<i-1, j>>] = (i - 1) + j
      BY <2>7, <2>8, <2>9
    <2>3. /\ j > 1 => <<i, j-1>> \in D /\ rank[<<i, j-1>>] < rank[c]
          /\ i > 1 /\ j > 1 => <<i-1, j-1>> \in D /\ rank[<<i-1, j-1>>] < rank[c]
          /\ i > 1 => <<i-1, j>> \in D /\ rank[<<i-1, j>>] < rank[c]
      BY <2>1, <2>2
    <2> QED
      BY <2>3 DEF i, j
  <1>3. ASSUME NEW f, NEW c \in D, \A e \in D : rank[e] < rank[c] => f[e] \in V
        PROVE  WaysAt(w, f, c) \in V
    <2> DEFINE U == (IF c[2] > 1 THEN f[<<c[1], c[2]-1>>] ELSE {})
                      \cup (IF c[1] > 1 /\ c[2] > 1 THEN f[<<c[1]-1, c[2]-1>>] ELSE {})
                      \cup (IF c[1] > 1 THEN f[<<c[1]-1, c[2]>>] ELSE {})
    <2> HIDE DEF D, rank
    <2>1. /\ c[2] > 1 => f[<<c[1], c[2]-1>>] \in V
          /\ c[1] > 1 /\ c[2] > 1 => f[<<c[1]-1, c[2]-1>>] \in V
          /\ c[1] > 1 => f[<<c[1]-1, c[2]>>] \in V
      BY <1>2, <1>3
    <2>2. U \in SUBSET Seq(D)
      BY <2>1
    <2>3. {} \in V /\ {<<c>>} \in V
      OBVIOUS
    <2> HIDE DEF U
    <2>4. {Append(p, c) : p \in U} \in V
      BY <2>2
    <2>5. WaysAt(w, f, c) \in {{}, {<<c>>}, {Append(p, c) : p \in U}}
      BY DEF WaysAt, U
    <2> HIDE DEF V
    <2> QED
      BY <2>3, <2>4, <2>5
  <1>4. \E f : P(f)
    <2> DEFINE B == [z \in [D -> V] \X D |-> WaysAt(w, z[1], z[2])]
    <2> HIDE DEF D, rank, V
    <2>1. \A f \in [D -> V], c \in D : B[<<f, c>>] = WaysAt(w, f, c)
      OBVIOUS
    <2>2. B \in [[D -> V] \X D -> V]
      BY <1>3
    <2>3. ASSUME NEW f \in [D -> V], NEW h \in [D -> V], NEW c \in D, Agree(D, rank, c, f, h)
          PROVE  B[<<f, c>>] = B[<<h, c>>]
      <3> HIDE DEF B
      <3>1. /\ c[2] > 1 => f[<<c[1], c[2]-1>>] = h[<<c[1], c[2]-1>>]
            /\ c[1] > 1 /\ c[2] > 1 => f[<<c[1]-1, c[2]-1>>] = h[<<c[1]-1, c[2]-1>>]
            /\ c[1] > 1 => f[<<c[1]-1, c[2]>>] = h[<<c[1]-1, c[2]>>]
        BY <1>2, <2>3 DEF Agree
      <3>2. WaysAt(w, f, c) = WaysAt(w, h, c)
        BY <3>1 DEF WaysAt
      <3> QED
        BY <2>1, <3>2
    <2>4. PICK f \in [D -> V] : f = [c \in D |-> B[<<f, c>>]]
      <3>0. {} \in V
        BY DEF V
      <3>1. Rows(w) + Columns(w) \in Nat
        OBVIOUS
      <3> HIDE DEF B
      <3>2. Recursion(D, V, rank, B)
        BY <1>1, <2>2, <2>3, <3>0, <3>1 DEF Recursion
      <3> QED
        BY <3>2, RecursionDefines
    <2>5. P(f)
      BY <2>1, <2>4 DEF D
    <2> QED
      BY <2>5
  <1> DEFINE to == Ways(w)
  <1>5. to = CHOOSE f : P(f)
    BY DEF Ways
  <1> HIDE DEF P, to
  <1>6. P(to)
    BY <1>4, <1>5
  <1>7. \A c \in D : to[c] = WaysAt(w, to, c)
    BY <1>6 DEF P
  <1>8. \A c \in D : to[c] \in V
    <2> DEFINE T == {c \in D : to[c] \in V}
    <2> HIDE DEF D, rank, V
    <2>1. ASSUME NEW c \in D, \A e \in D : rank[e] < rank[c] => e \in T PROVE c \in T
      <3>1. \A e \in D : rank[e] < rank[c] => to[e] \in V
        BY <2>1
      <3>2. WaysAt(w, to, c) \in V
        BY <1>3, <3>1
      <3> QED
        BY <1>7, <3>2
    <2> HIDE DEF T
    <2>2. \A c \in D : c \in T
      BY <1>1, <2>1, RankInduction
    <2> QED
      BY <2>2 DEF T
  <1> QED
    BY <1>7, <1>8 DEF to

\* All paths are the ways to the last cell.
LEMMA WarpingsAreWays ==
  ASSUME NEW w
  PROVE  Warpings(w) = Ways(w)[<<Rows(w), Columns(w)>>]
  BY DEF Warpings, Ways, WaysAt, Places, Rows, Columns

\* A way to a cell in the corridor ends there, and is a way to one before it but
\* for its end.
LEMMA WaysAre ==
  ASSUME NEW w, Rows(w) \in Nat, Columns(w) \in Nat, NEW i \in 1..Rows(w), NEW j \in 1..Columns(w)
  PROVE  /\ ~InCorridor(i, j, Rows(w), Columns(w), w.r) => Ways(w)[<<i, j>>] = {}
         /\ InCorridor(i, j, Rows(w), Columns(w), w.r) =>
              /\ i = 1 /\ j = 1 => Ways(w)[<<i, j>>] = {<<<<i, j>>>>}
              /\ i # 1 \/ j # 1 =>
                   Ways(w)[<<i, j>>] = {Append(p, <<i, j>>) : p \in UNION {Ways(w)[e] : e \in Before(w, i, j)}}
  <1> DEFINE U == (IF j > 1 THEN Ways(w)[<<i, j-1>>] ELSE {})
                    \cup (IF i > 1 /\ j > 1 THEN Ways(w)[<<i-1, j-1>>] ELSE {})
                    \cup (IF i > 1 THEN Ways(w)[<<i-1, j>>] ELSE {})
  <1>1. <<i, j>> \in Places(w)
    BY DEF Places
  <1>2. Ways(w)[<<i, j>>] = WaysAt(w, Ways(w), <<i, j>>)
    BY <1>1, WaysEquation
  <1>3. U = UNION {Ways(w)[e] : e \in Before(w, i, j)}
    <2>1. ASSUME NEW x \in U PROVE \E e \in Before(w, i, j) : x \in Ways(w)[e]
      <3>1. \/ j > 1 /\ x \in Ways(w)[<<i, j-1>>]
            \/ i > 1 /\ j > 1 /\ x \in Ways(w)[<<i-1, j-1>>]
            \/ i > 1 /\ x \in Ways(w)[<<i-1, j>>]
        OBVIOUS
      <3> QED
        BY <3>1, BeforeIs
    <2>2. ASSUME NEW e \in Before(w, i, j), NEW x \in Ways(w)[e] PROVE x \in U
      <3>1. e = <<i, j-1>> \/ e = <<i-1, j-1>> \/ e = <<i-1, j>>
        BY Zenon DEF Before
      <3>2. CASE e = <<i, j-1>>
        <4>1. <<i, j-1>> \in Before(w, i, j)
          BY <3>2, Zenon
        <4>2. j > 1
          BY <4>1, BeforeIs
        <4> QED
          BY <3>2, <4>2
      <3>3. CASE e = <<i-1, j-1>>
        <4>1. <<i-1, j-1>> \in Before(w, i, j)
          BY <3>3, Zenon
        <4>2. i > 1 /\ j > 1
          BY <4>1, BeforeIs
        <4> QED
          BY <3>3, <4>2
      <3>4. CASE e = <<i-1, j>>
        <4>1. <<i-1, j>> \in Before(w, i, j)
          BY <3>4, Zenon
        <4>2. i > 1
          BY <4>1, BeforeIs
        <4> QED
          BY <3>4, <4>2
      <3> QED
        BY <3>1, <3>2, <3>3, <3>4
    <2> HIDE DEF U
    <2> QED
      BY <2>1, <2>2
  <1>4. WaysAt(w, Ways(w), <<i, j>>) =
          IF ~InCorridor(i, j, Rows(w), Columns(w), w.r) THEN {}
          ELSE IF i = 1 /\ j = 1 THEN {<<<<i, j>>>>}
          ELSE {Append(p, <<i, j>>) : p \in U}
    BY DEF WaysAt
  <1> HIDE DEF U
  <1> QED
    BY <1>2, <1>3, <1>4

(* Costs.                                                                  *)

Local(w, i, j) == vector_distance(w.a[i], w.b[j], NaN)

\* How often a step to c from e counts.
Weight(e, c) == c[1] + c[2] - e[1] - e[2]

\* The definition of the cost of the first k cells of p.
CostAt(w, p, sum, k) ==
  IF k = 1 THEN 4 * vector_distance(w.a[p[1][1]], w.b[p[1][2]], NaN)
  ELSE sum[k-1] + (p[k][1] + p[k][2] - p[k-1][1] - p[k-1][2]) * vector_distance(w.a[p[k][1]], w.b[p[k][2]], NaN)

Costs(w, p) == CHOOSE sum : sum = [k \in 1..Len(p) |-> CostAt(w, p, sum, k)]

\* What Warp is applied to has rows and columns, and distances between them.
LEMMA WarpedType ==
  ASSUME NEW w, Warped(w)
  PROVE  /\ Rows(w) \in Nat \ {0} /\ Columns(w) \in Nat \ {0}
         /\ w.r \in Nat \ {0}
         /\ \A i \in 1..Rows(w), j \in 1..Columns(w) :
              Local(w, i, j) \in Nat /\ \A nan : vector_distance(w.a[i], w.b[j], nan) = Local(w, i, j)
  <1> DEFINE a == w.a
             b == w.b
  <1>1. /\ a \in Seq(FeatureVector) \ {<<>>} /\ b \in Seq(FeatureVector) \ {<<>>} /\ w.r \in Nat \ {0}
        /\ Undefined \notin Range(a) \cup Range(b)
    BY DEF Warped, Sequences, Comparable
  <1>2. Rows(w) = Len(a) /\ Columns(w) = Len(b)
    BY DEF Rows, Columns
  <1>3. ASSUME NEW i \in 1..Len(a), NEW j \in 1..Len(b)
        PROVE  Local(w, i, j) \in Nat /\ \A nan : vector_distance(a[i], b[j], nan) = Local(w, i, j)
    <2> HIDE DEF a, b
    <2>1. a[i] \in FeatureVector /\ b[j] \in FeatureVector /\ i \in DOMAIN a /\ j \in DOMAIN b
      BY <1>1
    <2>2. a[i] # Undefined /\ b[j] # Undefined
      BY <1>1, <2>1 DEF Range
    <2>3. Local(w, i, j) = vector_distance(a[i], b[j], NaN)
      BY DEF Local, a, b
    <2> QED
      BY <2>1, <2>2, <2>3, DistanceNatural
  <1> HIDE DEF a, b
  <1>4. Len(a) \in Nat \ {0} /\ Len(b) \in Nat \ {0}
    BY <1>1
  <1>5. \A i \in 1..Rows(w), j \in 1..Columns(w) :
          Local(w, i, j) \in Nat /\ \A nan : vector_distance(w.a[i], w.b[j], nan) = Local(w, i, j)
    BY <1>2, <1>3 DEF a, b
  <1> QED
    BY <1>1, <1>2, <1>4, <1>5

\* The cost of a sequence of cells, cell by cell.
LEMMA CostEquation ==
  ASSUME NEW w, NEW p, Warped(w), p \in Seq(Places(w))
  PROVE  /\ \A k \in 1..Len(p) : Costs(w, p)[k] \in Int /\ Costs(w, p)[k] = CostAt(w, p, Costs(w, p), k)
         /\ Cost(w, p) = Costs(w, p)[Len(p)]
  <1> DEFINE D == 1..Len(p)
             P(f) == f = [k \in 1..Len(p) |-> CostAt(w, p, f, k)]
             rank == [k \in D |-> k]
  <1>0. Len(p) \in Nat
    OBVIOUS
  <1>1. ASSUME NEW k \in D
        PROVE  p[k][1] \in 1..Rows(w) /\ p[k][2] \in 1..Columns(w) /\ p[k][1] \in Int /\ p[k][2] \in Int
    <2>1. p[k] \in Places(w)
      OBVIOUS
    <2>2. p[k][1] \in 1..Rows(w) /\ p[k][2] \in 1..Columns(w)
      BY <2>1 DEF Places
    <2> QED
      BY <2>2
  <1>2. ASSUME NEW k \in D, NEW f, k # 1 => f[k-1] \in Int PROVE CostAt(w, p, f, k) \in Int
    <2> DEFINE d == vector_distance(w.a[p[k][1]], w.b[p[k][2]], NaN)
    <2>1. d \in Nat
      BY <1>1, WarpedType DEF Local
    <2> HIDE DEF d
    <2>2. CASE k = 1
      <3>1. CostAt(w, p, f, k) = 4 * d
        BY <2>2 DEF CostAt, d
      <3> QED
        BY <2>1, <3>1
    <2>3. CASE k # 1
      <3>1. k - 1 \in D /\ f[k-1] \in Int
        BY <1>2, <2>3
      <3> DEFINE o == p[k][1] + p[k][2] - p[k-1][1] - p[k-1][2]
                 s == f[k-1]
      <3>2. o \in Int
        BY <1>1, <3>1
      <3>3. CostAt(w, p, f, k) = s + o * d
        BY <2>3 DEF CostAt, d
      <3>4. s \in Int
        BY <3>1
      <3> HIDE DEF o, s
      <3>5. o * d \in Int
        BY <2>1, <3>2
      <3> QED
        BY <3>3, <3>4, <3>5
    <2> QED
      BY <2>2, <2>3
  <1>3. \E f : P(f)
    <2> DEFINE B == [z \in [D -> Int] \X D |-> CostAt(w, p, z[1], z[2])]
    <2>1. ASSUME NEW f \in [D -> Int], NEW k \in D, k # 1
          PROVE  k - 1 \in D /\ f[k-1] \in Int /\ rank[k-1] < rank[k]
      BY <1>0, <2>1
    <2>2. \A f \in [D -> Int], k \in D : B[<<f, k>>] = CostAt(w, p, f, k)
      OBVIOUS
    <2>3. B \in [[D -> Int] \X D -> Int]
      <3>1. ASSUME NEW f \in [D -> Int], NEW k \in D PROVE CostAt(w, p, f, k) \in Int
        BY <1>2, <2>1
      <3> HIDE DEF D
      <3> QED
        BY <3>1
    <2>4. rank \in [D -> Nat] /\ \A k \in D : rank[k] <= Len(p)
      BY <1>0
    <2>5. ASSUME NEW f \in [D -> Int], NEW h \in [D -> Int], NEW k \in D, Agree(D, rank, k, f, h)
          PROVE  B[<<f, k>>] = B[<<h, k>>]
      <3> HIDE DEF B
      <3>1. k # 1 => f[k-1] = h[k-1]
        <4> SUFFICES ASSUME k # 1 PROVE f[k-1] = h[k-1]
          OBVIOUS
        <4>1. k - 1 \in D /\ rank[k-1] < rank[k]
          BY <2>1
        <4> QED
          BY <2>5, <4>1 DEF Agree
      <3>2. CostAt(w, p, f, k) = CostAt(w, p, h, k)
        BY <3>1 DEF CostAt
      <3> QED
        BY <2>2, <3>2
    <2>6. PICK f \in [D -> Int] : f = [k \in D |-> B[<<f, k>>]]
      <3> HIDE DEF B, rank, D
      <3>0. 0 \in Int
        OBVIOUS
      <3>1. Recursion(D, Int, rank, B)
        BY <1>0, <3>0, <2>3, <2>4, <2>5 DEF Recursion
      <3> QED
        BY <3>1, RecursionDefines
    <2>7. P(f)
      BY <2>2, <2>6
    <2> QED
      BY <2>7
  <1> DEFINE sum == Costs(w, p)
  <1>4. sum = CHOOSE f : P(f)
    BY DEF Costs
  <1> HIDE DEF P, sum
  <1>5. P(sum)
    BY <1>3, <1>4
  <1>6. \A k \in D : sum[k] = CostAt(w, p, sum, k)
    BY <1>5 DEF P
  <1>7. \A k \in D : sum[k] \in Int
    <2> DEFINE T == {k \in D : sum[k] \in Int}
    <2>1. ASSUME NEW k \in D, \A e \in D : rank[e] < rank[k] => e \in T PROVE k \in T
      <3>1. k # 1 => sum[k-1] \in Int
        <4> SUFFICES ASSUME k # 1 PROVE sum[k-1] \in Int
          OBVIOUS
        <4>1. k - 1 \in D /\ rank[k-1] < rank[k]
          BY <1>0
        <4> QED
          BY <2>1, <4>1
      <3>2. CostAt(w, p, sum, k) \in Int
        BY <1>2, <3>1
      <3> QED
        BY <1>6, <3>2
    <2>2. rank \in [D -> Nat]
      BY <1>0
    <2> HIDE DEF T, D, rank
    <2>3. \A k \in D : k \in T
      BY <2>1, <2>2, RankInduction
    <2> QED
      BY <2>3 DEF T
  <1>8. Cost(w, p) = sum[Len(p)]
    BY DEF Cost, sum, Costs, CostAt
  <1> QED
    BY <1>6, <1>7, <1>8 DEF sum

\* A path of one cell.
LEMMA CostOfOne ==
  ASSUME NEW w, Warped(w), NEW c, c \in Places(w)
  PROVE  Cost(w, <<c>>) = 4 * Local(w, c[1], c[2])
  <1> DEFINE p == <<c>>
  <1>1. p \in Seq(Places(w)) /\ Len(p) = 1 /\ 1 \in 1..Len(p) /\ p[1] = c
    OBVIOUS
  <1> HIDE DEF p
  <1>2. Cost(w, p) = CostAt(w, p, Costs(w, p), 1)
    <2>1. \A k \in 1..Len(p) : Costs(w, p)[k] = CostAt(w, p, Costs(w, p), k)
      BY <1>1, CostEquation
    <2>2. Cost(w, p) = Costs(w, p)[Len(p)]
      BY <1>1, CostEquation
    <2> QED
      BY <1>1, <2>1, <2>2
  <1> QED
    BY <1>1, <1>2 DEF CostAt, Local, p

\* A path that is one cell longer.
LEMMA CostOfLonger ==
  ASSUME NEW w, NEW p, NEW c, Warped(w), p \in Seq(Places(w)), Len(p) # 0, c \in Places(w)
  PROVE  /\ Cost(w, p) \in Int
         /\ Cost(w, Append(p, c)) = Cost(w, p) + Weight(p[Len(p)], c) * Local(w, c[1], c[2])
  <1> DEFINE q == Append(p, c)
             n == Len(p)
  <1>1. n \in Nat \ {0} /\ q \in Seq(Places(w)) /\ Len(q) = n + 1 /\ q[n+1] = c /\ \A k \in 1..n : q[k] = p[k]
    OBVIOUS
  <1> HIDE DEF q
  <1>2. \A k \in 1..n : Costs(w, q)[k] = Costs(w, p)[k]
    <2> DEFINE N == {k \in Nat : k + 1 \in 1..n => Costs(w, q)[k+1] = Costs(w, p)[k+1]}
    <2>0. /\ \A k \in 1..n : Costs(w, p)[k] = CostAt(w, p, Costs(w, p), k)
          /\ \A k \in 1..n+1 : Costs(w, q)[k] = CostAt(w, q, Costs(w, q), k)
      BY <1>1, CostEquation
    <2> HIDE DEF n
    <2>1. 0 \in N
      <3>1. 1 \in 1..n /\ 1 \in 1..n+1 /\ q[1] = p[1]
        BY <1>1
      <3>2. CostAt(w, q, Costs(w, q), 1) = CostAt(w, p, Costs(w, p), 1)
        BY <3>1 DEF CostAt
      <3> QED
        BY <2>0, <3>1, <3>2
    <2>2. ASSUME NEW k \in Nat, k \in N PROVE k + 1 \in N
      <3> DEFINE m == k + 2
      <3> SUFFICES ASSUME m \in 1..n PROVE Costs(w, q)[m] = Costs(w, p)[m]
        BY <2>2
      <3>1. m \in 1..n /\ m \in 1..n+1 /\ m - 1 \in 1..n /\ m # 1 /\ m - 1 = k + 1
        BY <1>1
      <3>2. q[m] = p[m] /\ q[m-1] = p[m-1] /\ Costs(w, q)[m-1] = Costs(w, p)[m-1]
        BY <1>1, <2>2, <3>1
      <3> HIDE DEF m
      <3>3. CostAt(w, q, Costs(w, q), m) = CostAt(w, p, Costs(w, p), m)
        BY <3>1, <3>2 DEF CostAt
      <3> QED
        BY <2>0, <3>1, <3>3
    <2> HIDE DEF N
    <2>3. \A k \in Nat : k \in N
      BY <2>1, <2>2, NaturalInduction
    <2>4. ASSUME NEW k \in 1..n PROVE Costs(w, q)[k] = Costs(w, p)[k]
      <3>1. k - 1 \in N /\ (k - 1) + 1 = k
        BY <2>3
      <3> QED
        BY <3>1 DEF N
    <2> QED
      BY <2>4
  <1>3. Cost(w, p) = Costs(w, p)[n] /\ Costs(w, p)[n] \in Int
    BY <1>1, CostEquation
  <1>4. Cost(w, q) = CostAt(w, q, Costs(w, q), n + 1)
    BY <1>1, CostEquation
  <1>5. n + 1 # 1 /\ (n + 1) - 1 = n /\ n \in 1..n
    BY <1>1
  <1> HIDE DEF n
  <1>6. CostAt(w, q, Costs(w, q), n + 1) = Costs(w, q)[n] + Weight(p[n], c) * Local(w, c[1], c[2])
    BY <1>1, <1>5 DEF CostAt, Weight, Local
  <1> QED
    BY <1>2, <1>3, <1>4, <1>5, <1>6 DEF n, q

(* The matrix of features that can be compared.                            *)

\* g is the matrix of w.
MatrixOf(w, g) ==
  \E nan \in Nat \cup {NaN} :
    Sequences(w.a, w.b, w.r, nan) /\ w = Warp(w.a, w.b, w.r, nan) /\ g = Global(w.a, w.b, w.r, nan)

\* The entries of the matrix.
Entry(g, i, j) == g[<<i, j>>]
Dist(g, i, j) == g[<<i, j>>].dist
StepOf(g, i, j) == g[<<i, j>>].step

Lengths == Nat \cup {Infinity}

\* Two steps along both, a step along one.
Sums(x, y, z, d) == <<Plus(x, d), Plus(Plus(y, d), d), Plus(z, d)>>

\* A cell of the matrix that is not at its border.
Inner(w, g, i, j) ==
  IF InCorridor(i, j, Rows(w), Columns(w), w.r)
    THEN Entry(g, i, j) = Least(Sums(Dist(g, i, j-1), Dist(g, i-1, j-1), Dist(g, i-1, j), Local(w, i, j)))
    ELSE Dist(g, i, j) = Infinity /\ StepOf(g, i, j) = 0

\* What Warp returns was read off a matrix.
LEMMA HasMatrix ==
  ASSUME NEW w, Warped(w)
  PROVE  \E g : MatrixOf(w, g) /\ Comparable(w)
  BY DEF Warped, MatrixOf

\* Plus adds, unless one is infinite.
LEMMA PlusLength ==
  ASSUME NEW x \in Lengths, NEW d \in Nat
  PROVE  /\ Plus(x, d) \in Lengths
         /\ x = Infinity => Plus(x, d) = Infinity
         /\ x # Infinity => Plus(x, d) = x + d
  BY DEF Lengths, Plus, NaN, Infinity

\* The least of three, none of them NaN, is one of them.
LEMMA LeastIs ==
  ASSUME NEW x \in Lengths, NEW y \in Lengths, NEW z \in Lengths, NEW l, l = Least(<<x, y, z>>)
  PROVE  /\ l.dist \in Lengths /\ l.step \in 0..2
         /\ l.step = 0 => l.dist = x
         /\ l.step = 1 => l.dist = y
         /\ l.step = 2 => l.dist = z
         /\ x # Infinity => l.dist # Infinity /\ l.dist <= x
         /\ y # Infinity => l.dist # Infinity /\ l.dist <= y
         /\ z # Infinity => l.dist # Infinity /\ l.dist <= z
  <1>1. /\ x # NaN /\ y # NaN /\ z # NaN /\ Infinity \notin Nat
        /\ (x = Infinity \/ x \in Nat) /\ (y = Infinity \/ y \in Nat) /\ (z = Infinity \/ z \in Nat)
    BY DEF Lengths, NaN, Infinity
  <1>2. \/ l = [dist |-> x, step |-> 0] /\ ~Less(y, x) /\ ~Less(z, x)
        \/ l = [dist |-> y, step |-> 1] /\ Less(y, x) /\ ~Less(z, y)
        \/ l = [dist |-> z, step |-> 2] /\ ~Less(y, x) /\ Less(z, x)
        \/ l = [dist |-> z, step |-> 2] /\ Less(y, x) /\ Less(z, y)
    BY <1>1 DEF Least
  <1>3. l.dist \in {x, y, z} /\ l.dist \in Lengths /\ l.step \in 0..2
    BY <1>2
  <1>4. l.step = 0 => l.dist = x
    BY <1>2
  <1>5. l.step = 1 => l.dist = y
    BY <1>2
  <1>6. l.step = 2 => l.dist = z
    BY <1>2
  <1>7. /\ x # Infinity => l.dist # Infinity /\ l.dist <= x
        /\ y # Infinity => l.dist # Infinity /\ l.dist <= y
        /\ z # Infinity => l.dist # Infinity /\ l.dist <= z
    <2> DEFINE m == l.dist
    <2>1. \/ m = x /\ ~Less(y, x) /\ ~Less(z, x)
          \/ m = y /\ Less(y, x) /\ ~Less(z, y)
          \/ m = z /\ ~Less(y, x) /\ Less(z, x)
          \/ m = z /\ Less(y, x) /\ Less(z, y)
      BY <1>2
    <2> HIDE DEF m
    <2>2. /\ x # Infinity => m # Infinity /\ m <= x
          /\ y # Infinity => m # Infinity /\ m <= y
          /\ z # Infinity => m # Infinity /\ m <= z
      BY <1>1, <2>1 DEF Less
    <2> QED
      BY <2>2 DEF m
  <1> QED
    BY <1>3, <1>4, <1>5, <1>6, <1>7

\* The cells of the matrix.
LEMMA CellsAre ==
  ASSUME NEW w, NEW g, Warped(w), MatrixOf(w, g)
  PROVE  /\ Dist(g, 0, 0) = Plus(Local(w, 1, 1), Local(w, 1, 1))
         /\ StepOf(g, 0, 0) = 0
         /\ \A i \in 1..Rows(w) : Dist(g, i, 0) = Infinity /\ StepOf(g, i, 0) = 0
         /\ \A j \in 1..Columns(w) : Dist(g, 0, j) = Infinity /\ StepOf(g, 0, j) = 0
         /\ \A i \in 1..Rows(w), j \in 1..Columns(w) : Inner(w, g, i, j)
  <1>1. PICK nan \in Nat \cup {NaN} : Sequences(w.a, w.b, w.r, nan) /\ g = Global(w.a, w.b, w.r, nan)
    BY DEF MatrixOf
  <1>2. Rows(w) \in Nat \ {0} /\ Columns(w) \in Nat \ {0}
    BY WarpedType
  <1>3. \A i \in 0..Rows(w), j \in 0..Columns(w) : g[<<i, j>>] = GlobalAt(w.a, w.b, w.r, nan, g, i, j)
    <2> DEFINE a == w.a
               b == w.b
               r == w.r
    <2>1. Sequences(a, b, r, nan) /\ g = Global(a, b, r, nan) /\ Rows(w) = Len(a) /\ Columns(w) = Len(b)
      BY <1>1 DEF Rows, Columns
    <2> HIDE DEF a, b, r
    <2>2. \A i \in 0..Len(a), j \in 0..Len(b) : g[<<i, j>>] = GlobalAt(a, b, r, nan, g, i, j)
      BY <2>1, GlobalEquation
    <2> QED
      BY <2>1, <2>2 DEF a, b, r
  <1>4. \A i \in 1..Rows(w), j \in 1..Columns(w) : vector_distance(w.a[i], w.b[j], nan) = Local(w, i, j)
    BY WarpedType
  <1>5. Dist(g, 0, 0) = Plus(Local(w, 1, 1), Local(w, 1, 1)) /\ StepOf(g, 0, 0) = 0
    <2>1. g[<<0, 0>>] = GlobalAt(w.a, w.b, w.r, nan, g, 0, 0)
      BY <1>2, <1>3
    <2>2. vector_distance(w.a[1], w.b[1], nan) = Local(w, 1, 1)
      BY <1>2, <1>4
    <2> QED
      BY <2>1, <2>2 DEF GlobalAt, Dist, StepOf
  <1>6. ASSUME NEW i \in 1..Rows(w) PROVE Dist(g, i, 0) = Infinity /\ StepOf(g, i, 0) = 0
    <2>1. i \in 0..Rows(w) /\ 0 \in 0..Columns(w) /\ i # 0
      BY <1>2
    <2>2. g[<<i, 0>>] = GlobalAt(w.a, w.b, w.r, nan, g, i, 0)
      BY <1>3, <2>1
    <2> QED
      BY <2>1, <2>2 DEF GlobalAt, Dist, StepOf
  <1>7. ASSUME NEW j \in 1..Columns(w) PROVE Dist(g, 0, j) = Infinity /\ StepOf(g, 0, j) = 0
    <2>1. j \in 0..Columns(w) /\ 0 \in 0..Rows(w) /\ j # 0
      BY <1>2
    <2>2. g[<<0, j>>] = GlobalAt(w.a, w.b, w.r, nan, g, 0, j)
      BY <1>3, <2>1
    <2> QED
      BY <2>1, <2>2 DEF GlobalAt, Dist, StepOf
  <1>8. ASSUME NEW i \in 1..Rows(w), NEW j \in 1..Columns(w)
        PROVE  Inner(w, g, i, j)
    <2>1. i \in 0..Rows(w) /\ j \in 0..Columns(w) /\ i # 0 /\ j # 0
      BY <1>2
    <2>2. g[<<i, j>>] = GlobalAt(w.a, w.b, w.r, nan, g, i, j)
      BY <1>3, <2>1
    <2>3. vector_distance(w.a[i], w.b[j], nan) = Local(w, i, j)
      BY <1>4
    <2> QED
      BY <2>1, <2>2, <2>3 DEF Inner, Entry, Dist, StepOf, GlobalAt, Weights, Sums, Rows, Columns
  <1> QED
    BY <1>5, <1>6, <1>7, <1>8

\* None of its distances is NaN, and each step was found.
LEMMA CellsType ==
  ASSUME NEW w, NEW g, Warped(w), MatrixOf(w, g)
  PROVE  \A i \in 0..Rows(w), j \in 0..Columns(w) : Dist(g, i, j) \in Lengths /\ StepOf(g, i, j) \in 0..2
  <1> DEFINE D == (0..Rows(w)) \X (0..Columns(w))
             rank == Steps(D)
             T == {c \in D : Dist(g, c[1], c[2]) \in Lengths /\ StepOf(g, c[1], c[2]) \in 0..2}
  <1>1. Rows(w) \in Nat \ {0} /\ Columns(w) \in Nat \ {0}
    BY WarpedType
  <1>2. \A c \in D : c = <<c[1], c[2]>> /\ c[1] \in 0..Rows(w) /\ c[2] \in 0..Columns(w)
    OBVIOUS
  <1>3. \A i \in 0..Rows(w), j \in 0..Columns(w) : <<i, j>> \in D /\ rank[<<i, j>>] = i + j
    BY DEF Steps
  <1>4. rank \in [D -> Nat]
    BY <1>1 DEF Steps
  <1>5. 0 \in 0..2 /\ Infinity \in Lengths
    BY DEF Lengths
  <1> HIDE DEF D, rank
  <1>6. ASSUME NEW c \in D, \A e \in D : rank[e] < rank[c] => e \in T PROVE c \in T
    <2> DEFINE i == c[1]
               j == c[2]
    <2>1. i \in 0..Rows(w) /\ j \in 0..Columns(w) /\ c = <<i, j>>
      BY <1>2
    <2> SUFFICES Dist(g, i, j) \in Lengths /\ StepOf(g, i, j) \in 0..2
      OBVIOUS
    <2> HIDE DEF i, j
    <2>2. CASE i = 0 /\ j = 0
      <3>1. Local(w, 1, 1) \in Nat
        BY <1>1, WarpedType
      <3>2. Local(w, 1, 1) \in Lengths
        BY <3>1 DEF Lengths
      <3>3. Dist(g, 0, 0) \in Lengths
        BY <3>1, <3>2, CellsAre, PlusLength
      <3> QED
        BY <1>5, <2>1, <2>2, <3>3, CellsAre
    <2>3. CASE i # 0 /\ j = 0
      <3>1. i \in 1..Rows(w)
        BY <1>1, <2>1, <2>3
      <3> QED
        BY <1>5, <2>1, <2>3, <3>1, CellsAre
    <2>4. CASE i = 0 /\ j # 0
      <3>1. j \in 1..Columns(w)
        BY <1>1, <2>1, <2>4
      <3> QED
        BY <1>5, <2>1, <2>4, <3>1, CellsAre
    <2>5. CASE i # 0 /\ j # 0
      <3>1. /\ i \in 1..Rows(w) /\ j \in 1..Columns(w)
            /\ i - 1 \in 0..Rows(w) /\ j - 1 \in 0..Columns(w)
            /\ i + (j - 1) < i + j /\ (i - 1) + (j - 1) < i + j /\ (i - 1) + j < i + j
        BY <1>1, <2>1, <2>5
      <3> DEFINE x == Dist(g, i, j-1)
                 y == Dist(g, i-1, j-1)
                 z == Dist(g, i-1, j)
                 d == Local(w, i, j)
      <3>2. x \in Lengths /\ y \in Lengths /\ z \in Lengths
        <4>1. <<i, j-1>> \in T /\ <<i-1, j-1>> \in T /\ <<i-1, j>> \in T
          <5> HIDE DEF T
          <5> QED
            BY <1>3, <1>6, <2>1, <3>1
        <4> QED
          BY <4>1
      <3> HIDE DEF T
      <3>3. d \in Nat
        BY <3>1, WarpedType
      <3>4. \/ Entry(g, i, j) = Least(Sums(x, y, z, d))
            \/ Dist(g, i, j) = Infinity /\ StepOf(g, i, j) = 0
        <4>1. Inner(w, g, i, j)
          BY <3>1, CellsAre
        <4> QED
          BY <4>1 DEF Inner
      <3> HIDE DEF x, y, z, d
      <3>5. Plus(x, d) \in Lengths /\ Plus(Plus(y, d), d) \in Lengths /\ Plus(z, d) \in Lengths
        BY <3>2, <3>3, PlusLength
      <3>6. Least(Sums(x, y, z, d)).dist \in Lengths /\ Least(Sums(x, y, z, d)).step \in 0..2
        BY <3>5, LeastIs DEF Sums
      <3>7. Dist(g, i, j) = Entry(g, i, j).dist /\ StepOf(g, i, j) = Entry(g, i, j).step
        BY DEF Dist, StepOf, Entry
      <3> QED
        BY <1>5, <3>4, <3>6, <3>7
    <2> QED
      BY <2>2, <2>3, <2>4, <2>5
  <1> HIDE DEF T
  <1>7. \A c \in D : c \in T
    BY <1>4, <1>6, RankInduction
  <1> QED
    BY <1>3, <1>7 DEF T

\* A cell in the corridor but the first is as far as one before it and the step.
LEMMA StepInto ==
  ASSUME NEW w, NEW g, NEW i, NEW j, Warped(w), MatrixOf(w, g), i \in 1..Rows(w), j \in 1..Columns(w),
         i # 1 \/ j # 1, InCorridor(i, j, Rows(w), Columns(w), w.r)
  PROVE  /\ Dist(g, i, j) # Infinity =>
              \/ /\ StepOf(g, i, j) = 0 /\ j > 1 /\ Dist(g, i, j-1) # Infinity
                 /\ Dist(g, i, j) = Dist(g, i, j-1) + Local(w, i, j)
              \/ /\ StepOf(g, i, j) = 1 /\ i > 1 /\ j > 1 /\ Dist(g, i-1, j-1) # Infinity
                 /\ Dist(g, i, j) = Dist(g, i-1, j-1) + Local(w, i, j) + Local(w, i, j)
              \/ /\ StepOf(g, i, j) = 2 /\ i > 1 /\ Dist(g, i-1, j) # Infinity
                 /\ Dist(g, i, j) = Dist(g, i-1, j) + Local(w, i, j)
         /\ Dist(g, i, j-1) # Infinity =>
              Dist(g, i, j) # Infinity /\ Dist(g, i, j) <= Dist(g, i, j-1) + Local(w, i, j)
         /\ Dist(g, i-1, j-1) # Infinity =>
              Dist(g, i, j) # Infinity /\ Dist(g, i, j) <= Dist(g, i-1, j-1) + Local(w, i, j) + Local(w, i, j)
         /\ Dist(g, i-1, j) # Infinity =>
              Dist(g, i, j) # Infinity /\ Dist(g, i, j) <= Dist(g, i-1, j) + Local(w, i, j)
  <1> DEFINE x == Dist(g, i, j-1)
             y == Dist(g, i-1, j-1)
             z == Dist(g, i-1, j)
             d == Local(w, i, j)
             l == Entry(g, i, j)
             m == Dist(g, i, j)
             s == StepOf(g, i, j)
  <1>1. Rows(w) \in Nat \ {0} /\ Columns(w) \in Nat \ {0} /\ d \in Nat
    BY WarpedType
  <1>2. i - 1 \in 0..Rows(w) /\ j - 1 \in 0..Columns(w) /\ i \in 0..Rows(w) /\ j \in 0..Columns(w)
    BY <1>1
  <1>3. x \in Lengths /\ y \in Lengths /\ z \in Lengths
    BY <1>2, CellsType
  <1>4. j = 1 => x = Infinity
    BY CellsAre
  <1>5. i = 1 => z = Infinity
    BY CellsAre
  <1>6. i = 1 \/ j = 1 => y = Infinity
    <2>1. CASE i = 1 /\ j # 1
      <3>1. j - 1 \in 1..Columns(w) /\ i - 1 = 0
        BY <1>1, <2>1
      <3> QED
        BY <3>1, CellsAre
    <2>2. CASE i # 1 /\ j = 1
      <3>1. i - 1 \in 1..Rows(w) /\ j - 1 = 0
        BY <1>1, <2>2
      <3> QED
        BY <3>1, CellsAre
    <2> QED
      BY <2>1, <2>2
  <1>7. l = Least(Sums(x, y, z, d))
    <2>1. Inner(w, g, i, j)
      BY CellsAre
    <2> QED
      BY <2>1 DEF Inner
  <1>8. m = l.dist /\ s = l.step
    BY DEF Dist, StepOf, Entry
  <1> HIDE DEF x, y, z, d, l, m, s
  <1> DEFINE xx == Plus(x, d)
             yy == Plus(Plus(y, d), d)
             zz == Plus(z, d)
  <1>9. /\ xx \in Lengths /\ yy \in Lengths /\ zz \in Lengths
        /\ x = Infinity => xx = Infinity
        /\ y = Infinity => yy = Infinity
        /\ z = Infinity => zz = Infinity
        /\ x # Infinity => xx = x + d /\ xx # Infinity
        /\ y # Infinity => yy = y + d + d /\ yy # Infinity
        /\ z # Infinity => zz = z + d /\ zz # Infinity
    <2>1. ASSUME NEW q \in Lengths
          PROVE  /\ Plus(q, d) \in Lengths
                 /\ q = Infinity => Plus(q, d) = Infinity
                 /\ q # Infinity => Plus(q, d) = q + d /\ Plus(q, d) # Infinity
      <3>1. q # Infinity => q + d # Infinity
        BY <1>1 DEF Lengths, Infinity
      <3> QED
        BY <1>1, <3>1, PlusLength
    <2>2. y # Infinity => y \in Nat
      BY <1>3 DEF Lengths
    <2> QED
      BY <1>1, <1>3, <2>1, <2>2
  <1>10. l = Least(<<xx, yy, zz>>)
    BY <1>7 DEF Sums
  <1> HIDE DEF xx, yy, zz
  <1>11. /\ m \in Lengths /\ s \in 0..2
         /\ s = 0 => m = xx
         /\ s = 1 => m = yy
         /\ s = 2 => m = zz
         /\ xx # Infinity => m # Infinity /\ m <= xx
         /\ yy # Infinity => m # Infinity /\ m <= yy
         /\ zz # Infinity => m # Infinity /\ m <= zz
    BY <1>8, <1>9, <1>10, LeastIs
  <1>12. i \in Nat /\ j \in Nat /\ (i # 1 => i > 1) /\ (j # 1 => j > 1)
    BY <1>1
  <1>13. m # Infinity =>
           \/ s = 0 /\ j > 1 /\ x # Infinity /\ m = x + d
           \/ s = 1 /\ i > 1 /\ j > 1 /\ y # Infinity /\ m = y + d + d
           \/ s = 2 /\ i > 1 /\ z # Infinity /\ m = z + d
    <2> SUFFICES ASSUME m # Infinity
                 PROVE  \/ s = 0 /\ j > 1 /\ x # Infinity /\ m = x + d
                        \/ s = 1 /\ i > 1 /\ j > 1 /\ y # Infinity /\ m = y + d + d
                        \/ s = 2 /\ i > 1 /\ z # Infinity /\ m = z + d
      OBVIOUS
    <2>1. CASE s = 0
      BY <1>4, <1>9, <1>11, <1>12, <2>1
    <2>2. CASE s = 1
      BY <1>6, <1>9, <1>11, <1>12, <2>2
    <2>3. CASE s = 2
      BY <1>5, <1>9, <1>11, <1>12, <2>3
    <2> QED
      BY <1>11, <2>1, <2>2, <2>3
  <1>14. /\ x # Infinity => m # Infinity /\ m <= x + d
         /\ y # Infinity => m # Infinity /\ m <= y + d + d
         /\ z # Infinity => m # Infinity /\ m <= z + d
    BY <1>9, <1>11
  <1> QED
    BY <1>13, <1>14 DEF x, y, z, d, m, s

\* The first cell, if it is in the corridor.
LEMMA StepFirst ==
  ASSUME NEW w, NEW g, Warped(w), MatrixOf(w, g), InCorridor(1, 1, Rows(w), Columns(w), w.r)
  PROVE  Dist(g, 1, 1) = 4 * Local(w, 1, 1) /\ Local(w, 1, 1) \in Nat
  <1> DEFINE d == Local(w, 1, 1)
             l == Entry(g, 1, 1)
             yy == Plus(Plus(Plus(d, d), d), d)
  <1>1. Rows(w) \in Nat \ {0} /\ Columns(w) \in Nat \ {0} /\ 1 \in 1..Rows(w) /\ 1 \in 1..Columns(w) /\ d \in Nat
    BY WarpedType
  <1>2. Dist(g, 1, 0) = Infinity /\ Dist(g, 0, 1) = Infinity /\ Dist(g, 0, 0) = Plus(d, d)
    BY <1>1, CellsAre
  <1>3. l = Least(Sums(Infinity, Plus(d, d), Infinity, d))
    <2>1. Inner(w, g, 1, 1)
      BY <1>1, CellsAre
    <2>2. l = Least(Sums(Dist(g, 1, 1-1), Dist(g, 1-1, 1-1), Dist(g, 1-1, 1), d))
      BY <2>1 DEF Inner
    <2>3. 1 - 1 = 0
      OBVIOUS
    <2> HIDE DEF l, d
    <2> QED
      BY <1>2, <2>2, <2>3
  <1> HIDE DEF d, l
  <1>4. d \in Lengths /\ d # Infinity /\ Infinity \in Lengths
    BY <1>1 DEF Lengths, Infinity
  <1>5. yy = 4 * d /\ yy \in Lengths /\ yy # Infinity
    BY <1>1 DEF Plus, Lengths, NaN, Infinity
  <1>6. Plus(Infinity, d) = Infinity
    BY <1>1, <1>4, PlusLength
  <1>7. l = Least(<<Infinity, yy, Infinity>>)
    BY <1>3, <1>6 DEF Sums
  <1> HIDE DEF yy
  <1>8. l.dist = yy
    BY <1>4, <1>5, <1>7, LeastIs
  <1> QED
    BY <1>1, <1>5, <1>8 DEF d, l, Dist, Entry

\* The same with the cell before as one value.
Far(g, c) == Dist(g, c[1], c[2])

\* A cell that can be reached has a step to a cell before it that can be, and costs the step more.
LEMMA StepBefore ==
  ASSUME NEW w, NEW g, NEW i, NEW j, Warped(w), MatrixOf(w, g), i \in 1..Rows(w), j \in 1..Columns(w),
         i # 1 \/ j # 1, InCorridor(i, j, Rows(w), Columns(w), w.r)
  PROVE  /\ Dist(g, i, j) # Infinity =>
              \E e \in Before(w, i, j) :
                Far(g, e) # Infinity /\ Dist(g, i, j) = Far(g, e) + Weight(e, <<i, j>>) * Local(w, i, j)
         /\ \A e \in Before(w, i, j) :
              Far(g, e) # Infinity =>
                /\ Dist(g, i, j) # Infinity
                /\ Dist(g, i, j) <= Far(g, e) + Weight(e, <<i, j>>) * Local(w, i, j)
  <1> DEFINE d == Local(w, i, j)
             x == Dist(g, i, j-1)
             y == Dist(g, i-1, j-1)
             z == Dist(g, i-1, j)
  <1>1. Rows(w) \in Nat \ {0} /\ Columns(w) \in Nat \ {0} /\ d \in Nat /\ i \in Nat /\ j \in Nat
    BY WarpedType
  <1>2. /\ Far(g, <<i, j-1>>) = x /\ Far(g, <<i-1, j-1>>) = y /\ Far(g, <<i-1, j>>) = z
    BY DEF Far
  <1>3. /\ Weight(<<i, j-1>>, <<i, j>>) = 1
        /\ Weight(<<i-1, j-1>>, <<i, j>>) = 2
        /\ Weight(<<i-1, j>>, <<i, j>>) = 1
    BY <1>1 DEF Weight
  <1>4. 1 * d = d /\ 2 * d = d + d
    BY <1>1
  <1>5. (x # Infinity => x \in Nat) /\ (y # Infinity => y \in Nat) /\ (z # Infinity => z \in Nat)
    <2>1. i - 1 \in 0..Rows(w) /\ j - 1 \in 0..Columns(w) /\ i \in 0..Rows(w) /\ j \in 0..Columns(w)
      BY <1>1
    <2>2. x \in Lengths /\ y \in Lengths /\ z \in Lengths
      BY <2>1, CellsType
    <2> QED
      BY <2>2 DEF Lengths
  <1>6. y # Infinity => y + d + d = y + (d + d)
    BY <1>1, <1>5
  <1>7. Dist(g, i, j) # Infinity =>
          \E e \in Before(w, i, j) :
            Far(g, e) # Infinity /\ Dist(g, i, j) = Far(g, e) + Weight(e, <<i, j>>) * d
    <2> SUFFICES ASSUME Dist(g, i, j) # Infinity
                 PROVE  \E e \in Before(w, i, j) :
                          Far(g, e) # Infinity /\ Dist(g, i, j) = Far(g, e) + Weight(e, <<i, j>>) * d
      OBVIOUS
    <2>1. \/ j > 1 /\ x # Infinity /\ Dist(g, i, j) = x + d
          \/ i > 1 /\ j > 1 /\ y # Infinity /\ Dist(g, i, j) = y + d + d
          \/ i > 1 /\ z # Infinity /\ Dist(g, i, j) = z + d
      BY StepInto
    <2> HIDE DEF d, x, y, z
    <2>2. CASE j > 1 /\ x # Infinity /\ Dist(g, i, j) = x + d
      <3>1. <<i, j-1>> \in Before(w, i, j)
        BY <1>1, <2>2, BeforeIs
      <3> QED
        BY <1>2, <1>3, <1>4, <2>2, <3>1
    <2>3. CASE i > 1 /\ j > 1 /\ y # Infinity /\ Dist(g, i, j) = y + d + d
      <3>1. <<i-1, j-1>> \in Before(w, i, j)
        BY <1>1, <2>3, BeforeIs
      <3> QED
        BY <1>2, <1>3, <1>4, <1>6, <2>3, <3>1
    <2>4. CASE i > 1 /\ z # Infinity /\ Dist(g, i, j) = z + d
      <3>1. <<i-1, j>> \in Before(w, i, j)
        BY <1>1, <2>4, BeforeIs
      <3> QED
        BY <1>2, <1>3, <1>4, <2>4, <3>1
    <2> QED
      BY <2>1, <2>2, <2>3, <2>4
  <1>8. ASSUME NEW e \in Before(w, i, j), Far(g, e) # Infinity
        PROVE  /\ Dist(g, i, j) # Infinity
               /\ Dist(g, i, j) <= Far(g, e) + Weight(e, <<i, j>>) * d
    <2>1. e = <<i, j-1>> \/ e = <<i-1, j-1>> \/ e = <<i-1, j>>
      BY Zenon DEF Before
    <2>2. /\ x # Infinity => Dist(g, i, j) # Infinity /\ Dist(g, i, j) <= x + d
          /\ y # Infinity => Dist(g, i, j) # Infinity /\ Dist(g, i, j) <= y + d + d
          /\ z # Infinity => Dist(g, i, j) # Infinity /\ Dist(g, i, j) <= z + d
      BY StepInto
    <2> HIDE DEF d, x, y, z
    <2>3. CASE e = <<i, j-1>>
      BY <1>2, <1>3, <1>4, <1>8, <2>2, <2>3
    <2>4. CASE e = <<i-1, j-1>>
      BY <1>2, <1>3, <1>4, <1>6, <1>8, <2>2, <2>4
    <2>5. CASE e = <<i-1, j>>
      BY <1>2, <1>3, <1>4, <1>8, <2>2, <2>5
    <2> QED
      BY <2>1, <2>3, <2>4, <2>5
  <1> QED
    BY <1>7, <1>8

(* The distance is the least cost of a path.                               *)

\* What is far from a cell: all ways there end there and cost as much or more.
Right(w, g, c) ==
  /\ Far(g, c) # Infinity => \E p \in Ways(w)[c] : Cost(w, p) = Far(g, c)
  /\ \A p \in Ways(w)[c] :
       /\ p \in Seq(Places(w)) /\ Len(p) # 0 /\ p[Len(p)] = c
       /\ Far(g, c) # Infinity /\ Far(g, c) <= Cost(w, p)

\* A way to a cell and one that is longer by a step.
LEMMA LongerWay ==
  ASSUME NEW w, NEW g, NEW e, NEW c, NEW p, Warped(w), p \in Ways(w)[e], Right(w, g, e), c \in Places(w)
  PROVE  /\ Append(p, c) \in Seq(Places(w)) /\ Len(Append(p, c)) # 0
         /\ Append(p, c)[Len(Append(p, c))] = c
         /\ Cost(w, p) \in Int
         /\ Cost(w, Append(p, c)) = Cost(w, p) + Weight(e, c) * Local(w, c[1], c[2])
  <1>1. p \in Seq(Places(w)) /\ Len(p) # 0 /\ p[Len(p)] = e
    BY DEF Right
  <1>2. /\ Append(p, c) \in Seq(Places(w)) /\ Len(Append(p, c)) # 0
        /\ Append(p, c)[Len(Append(p, c))] = c
    BY <1>1
  <1>3. /\ Cost(w, p) \in Int
        /\ Cost(w, Append(p, c)) = Cost(w, p) + Weight(e, c) * Local(w, c[1], c[2])
    BY <1>1, CostOfLonger
  <1> QED
    BY <1>2, <1>3

\* Cell by cell.
LEMMA RightAt ==
  ASSUME NEW w, NEW g, NEW i, NEW j, Warped(w), MatrixOf(w, g), i \in 1..Rows(w), j \in 1..Columns(w),
         \A e \in Before(w, i, j) : Right(w, g, e)
  PROVE  Right(w, g, <<i, j>>)
  <1> DEFINE c == <<i, j>>
             d == Local(w, i, j)
  <1> SUFFICES Right(w, g, c)
    OBVIOUS
  <1>1. Rows(w) \in Nat \ {0} /\ Columns(w) \in Nat \ {0} /\ d \in Nat
    BY WarpedType
  <1>2. c \in Places(w) /\ Far(g, c) = Dist(g, i, j) /\ Local(w, c[1], c[2]) = d
    BY DEF Places, Far
  <1>3. CASE ~InCorridor(i, j, Rows(w), Columns(w), w.r)
    <2>1. Ways(w)[c] = {}
      BY <1>1, <1>3, WaysAre
    <2>2. Inner(w, g, i, j)
      BY CellsAre
    <2>3. Far(g, c) = Infinity
      BY <1>2, <1>3, <2>2 DEF Inner
    <2> HIDE DEF c
    <2> QED
      BY <2>1, <2>3 DEF Right
  <1>4. CASE InCorridor(i, j, Rows(w), Columns(w), w.r) /\ i = 1 /\ j = 1
    <2>1. Ways(w)[c] = {<<c>>}
      BY <1>1, <1>4, WaysAre
    <2>2. Far(g, c) = 4 * d
      BY <1>2, <1>4, StepFirst
    <2>3. Cost(w, <<c>>) = 4 * d
      BY <1>2, CostOfOne
    <2>4. <<c>> \in Seq(Places(w)) /\ Len(<<c>>) # 0 /\ <<c>>[Len(<<c>>)] = c
      BY <1>2
    <2>5. 4 * d # Infinity /\ 4 * d <= 4 * d
      BY <1>1 DEF Infinity
    <2> DEFINE p == <<c>>
    <2> HIDE DEF c, p, d
    <2> QED
      BY <2>1, <2>2, <2>3, <2>4, <2>5 DEF Right, p
  <1>5. CASE InCorridor(i, j, Rows(w), Columns(w), w.r) /\ (i # 1 \/ j # 1)
    <2>1. Ways(w)[c] = {Append(p, c) : p \in UNION {Ways(w)[e] : e \in Before(w, i, j)}}
      BY <1>1, <1>5, WaysAre
    <2>2. /\ Far(g, c) # Infinity =>
               \E e \in Before(w, i, j) : Far(g, e) # Infinity /\ Far(g, c) = Far(g, e) + Weight(e, c) * d
          /\ \A e \in Before(w, i, j) :
               Far(g, e) # Infinity => Far(g, c) # Infinity /\ Far(g, c) <= Far(g, e) + Weight(e, c) * d
      BY <1>2, <1>5, StepBefore
    <2>3. ASSUME NEW e \in Before(w, i, j)
          PROVE  (Far(g, e) = Infinity \/ Far(g, e) \in Int) /\ Weight(e, c) \in Int
      <3>1. e[1] \in 1..Rows(w) /\ e[2] \in 1..Columns(w)
        BY DEF Before, Places
      <3>2. e[1] \in 0..Rows(w) /\ e[2] \in 0..Columns(w)
        BY <1>1, <3>1
      <3>3. Far(g, e) \in Lengths
        BY <3>2, CellsType DEF Far
      <3>4. Weight(e, c) \in Int
        BY <3>1 DEF Weight
      <3> QED
        BY <3>3, <3>4 DEF Lengths
    <2>4. (Far(g, c) = Infinity \/ Far(g, c) \in Int)
      <3>1. i \in 0..Rows(w) /\ j \in 0..Columns(w)
        BY <1>1
      <3> QED
        BY <1>2, <3>1, CellsType DEF Lengths
    <2> HIDE DEF c, d
    <2>5. ASSUME Far(g, c) # Infinity PROVE \E p \in Ways(w)[c] : Cost(w, p) = Far(g, c)
      <3>1. PICK e \in Before(w, i, j) : Far(g, e) # Infinity /\ Far(g, c) = Far(g, e) + Weight(e, c) * d
        BY <2>2, <2>5
      <3>2. PICK p \in Ways(w)[e] : Cost(w, p) = Far(g, e)
        BY <3>1 DEF Right
      <3>3. Cost(w, Append(p, c)) = Cost(w, p) + Weight(e, c) * d
        BY <1>2, LongerWay
      <3>4. Append(p, c) \in Ways(w)[c]
        BY <2>1
      <3> QED
        BY <3>1, <3>2, <3>3, <3>4
    <2>6. ASSUME NEW q \in Ways(w)[c]
          PROVE  /\ q \in Seq(Places(w)) /\ Len(q) # 0 /\ q[Len(q)] = c
                 /\ Far(g, c) # Infinity /\ Far(g, c) <= Cost(w, q)
      <3>1. PICK p \in UNION {Ways(w)[e] : e \in Before(w, i, j)} : q = Append(p, c)
        BY <2>1
      <3>2. PICK e \in Before(w, i, j) : p \in Ways(w)[e]
        BY <3>1
      <3>3. /\ q \in Seq(Places(w)) /\ Len(q) # 0 /\ q[Len(q)] = c
            /\ Cost(w, p) \in Int
            /\ Cost(w, q) = Cost(w, p) + Weight(e, c) * d
        BY <1>2, <3>1, <3>2, LongerWay
      <3>4. Far(g, e) # Infinity /\ Far(g, e) <= Cost(w, p)
        BY <3>2 DEF Right
      <3>5. Far(g, c) # Infinity /\ Far(g, c) <= Far(g, e) + Weight(e, c) * d
        BY <2>2, <3>4
      <3> DEFINE s == Weight(e, c) * d
      <3>6. s \in Int /\ Far(g, e) \in Int /\ Far(g, c) \in Int
        BY <1>1, <2>3, <2>4, <3>4, <3>5 DEF d
      <3> HIDE DEF s
      <3>7. Far(g, c) <= Far(g, e) + s /\ Cost(w, q) = Cost(w, p) + s
        BY <3>3, <3>5 DEF s
      <3>8. Far(g, c) <= Cost(w, q)
        BY <3>3, <3>4, <3>6, <3>7
      <3> QED
        BY <3>3, <3>5, <3>8
    <2> QED
      BY <2>5, <2>6 DEF Right
  <1> QED
    BY <1>3, <1>4, <1>5

\* Every cell has the least cost of the paths to it, and is infinite if there is none.
LEMMA RightEverywhere ==
  ASSUME NEW w, NEW g, Warped(w), MatrixOf(w, g)
  PROVE  \A c \in Places(w) : Right(w, g, c)
  <1> DEFINE D == Places(w)
             rank == Steps(D)
             T == {c \in D : Right(w, g, c)}
  <1>1. Rows(w) \in Nat \ {0} /\ Columns(w) \in Nat \ {0}
    BY WarpedType
  <1>2. \A c \in D : c = <<c[1], c[2]>> /\ c[1] \in 1..Rows(w) /\ c[2] \in 1..Columns(w)
    BY DEF Places
  <1>3. \A i \in 1..Rows(w), j \in 1..Columns(w) : <<i, j>> \in D => rank[<<i, j>>] = i + j
    BY DEF Steps, Places
  <1>4. rank \in [D -> Nat]
    BY <1>1 DEF Steps, Places
  <1> HIDE DEF D, rank
  <1>5. ASSUME NEW c \in D, \A e \in D : rank[e] < rank[c] => e \in T PROVE c \in T
    <2> DEFINE i == c[1]
               j == c[2]
    <2>1. i \in 1..Rows(w) /\ j \in 1..Columns(w) /\ c = <<i, j>>
      BY <1>2
    <2> HIDE DEF i, j
    <2>2. ASSUME NEW e \in Before(w, i, j) PROVE Right(w, g, e)
      <3>1. e \in D /\ (e = <<i, j-1>> \/ e = <<i-1, j-1>> \/ e = <<i-1, j>>)
        BY Zenon DEF Before, D
      <3>2. e = <<e[1], e[2]>> /\ e[1] \in 1..Rows(w) /\ e[2] \in 1..Columns(w)
        BY <1>2, <3>1
      <3>3. rank[e] = e[1] + e[2] /\ rank[c] = i + j
        BY <1>3, <2>1, <3>1, <3>2
      <3>4. \/ e[1] = i /\ e[2] = j - 1
            \/ e[1] = i - 1 /\ e[2] = j - 1
            \/ e[1] = i - 1 /\ e[2] = j
        BY <3>1
      <3>5. i \in Nat /\ j \in Nat
        BY <1>1, <2>1
      <3>6. rank[e] < rank[c]
        BY <3>3, <3>4, <3>5
      <3>7. e \in T
        BY <1>5, <3>1, <3>6
      <3> QED
        BY <3>7
    <2>3. Right(w, g, <<i, j>>)
      BY <2>1, <2>2, RightAt
    <2> QED
      BY <2>1, <2>3
  <1> HIDE DEF T
  <1>6. \A c \in D : c \in T
    BY <1>4, <1>5, RankInduction
  <1> QED
    BY <1>6 DEF T, D

\* What Warp returns is read off the last cell.
LEMMA WarpIs ==
  ASSUME NEW w, NEW g, MatrixOf(w, g)
  PROVE  w.dist = Dist(g, Rows(w), Columns(w)) /\ w.path = minimal_path(g, Rows(w), Columns(w))
  <1>1. PICK nan \in Nat \cup {NaN} : w = Warp(w.a, w.b, w.r, nan) /\ g = Global(w.a, w.b, w.r, nan)
    BY DEF MatrixOf
  <1> DEFINE a == w.a
             b == w.b
             r == w.r
  <1>2. w = Warp(a, b, r, nan) /\ g = Global(a, b, r, nan) /\ Rows(w) = Len(a) /\ Columns(w) = Len(b)
    BY <1>1 DEF Rows, Columns
  <1> HIDE DEF a, b, r
  <1>3. w.dist = g[<<Len(a), Len(b)>>].dist /\ w.path = minimal_path(g, Len(a), Len(b))
    BY <1>2 DEF Warp
  <1> QED
    BY <1>2, <1>3 DEF Dist

\* So has the last.
LEMMA LeastDistance ==
  ASSUME NEW w, Warped(w)
  PROVE  HasLeastDistance(w)
  <1>1. PICK g : MatrixOf(w, g)
    BY HasMatrix
  <1> DEFINE c == <<Rows(w), Columns(w)>>
             costs == {Cost(w, p) : p \in Warpings(w)}
  <1>2. Rows(w) \in Nat \ {0} /\ Columns(w) \in Nat \ {0}
    BY WarpedType
  <1>3. c \in Places(w)
    BY <1>2 DEF Places
  <1>4. Right(w, g, c) /\ w.dist = Far(g, c) /\ Warpings(w) = Ways(w)[c]
    BY <1>1, <1>3, RightEverywhere, WarpIs, WarpingsAreWays DEF Far, Rows, Columns
  <1>5. Far(g, c) \in Lengths
    <2>1. Rows(w) \in 0..Rows(w) /\ Columns(w) \in 0..Columns(w)
      BY <1>2
    <2> QED
      BY <1>1, <2>1, CellsType DEF Far
  <1> HIDE DEF c
  <1>6. CASE Far(g, c) = Infinity
    BY <1>4, <1>6 DEF HasLeastDistance, Right
  <1>7. CASE Far(g, c) # Infinity
    <2>1. Far(g, c) \in costs
      BY <1>4, <1>7 DEF Right
    <2>2. \A x \in costs : Far(g, c) <= x
      BY <1>4 DEF Right
    <2>3. \A x \in costs : x \in Int
      <3>1. ASSUME NEW p \in Ways(w)[c] PROVE Cost(w, p) \in Int
        <4>1. p \in Seq(Places(w)) /\ Len(p) # 0
          BY <1>4 DEF Right
        <4> QED
          BY <4>1, <1>3, CostOfLonger DEF c
      <3> QED
        BY <1>4, <3>1
    <2> HIDE DEF costs
    <2>4. Min(costs) = Far(g, c)
      <3>1. Min(costs) \in costs /\ \A x \in costs : Min(costs) <= x
        BY <2>1, <2>2 DEF Min
      <3> QED
        BY <2>1, <2>2, <2>3, <3>1
    <2> QED
      BY <1>4, <2>1, <2>4 DEF HasLeastDistance, costs
  <1> QED
    BY <1>6, <1>7

(* The corridor.                                                           *)

\* The products in the corridor's condition.
LEMMA CorridorIs ==
  ASSUME NEW i \in Int, NEW j \in Int, NEW I \in Int, NEW J \in Int, NEW r \in Int
  PROVE  InCorridor(i, j, I, J, r) <=> i * J - j * I <= r * J /\ -(r * J) <= i * J - j * I
  <1> DEFINE P == i * J
             Q == j * I
             K == r * J
  <1>1. P \in Int /\ Q \in Int /\ K \in Int /\ -r*J = -K
    OBVIOUS
  <1>2. InCorridor(i, j, I, J, r) <=> P - Q \in -K..K
    BY <1>1 DEF InCorridor
  <1> HIDE DEF P, Q, K
  <1>3. P - Q \in -K..K <=> P - Q <= K /\ -K <= P - Q
    BY <1>1
  <1> QED
    BY <1>2, <1>3 DEF P, Q, K

\* It holds the last cell, and the first unless a is more than r+1 times as long as b.
LEMMA CorridorEnds ==
  ASSUME NEW I \in Nat \ {0}, NEW J \in Nat \ {0}, NEW r \in Nat \ {0}
  PROVE  /\ InCorridor(I, J, I, J, r)
         /\ InCorridor(1, 1, I, J, r) <=> I <= (r + 1) * J
  <1> DEFINE K == r * J
  <1>1. K \in Nat /\ J <= K /\ (r + 1) * J = K + J
    <2>1. PICK k \in Nat : r = k + 1
      <3>1. r - 1 \in Nat /\ r = (r - 1) + 1
        OBVIOUS
      <3> QED
        BY <3>1
    <2>2. r * J = k * J + J /\ k * J \in Nat
      BY <2>1
    <2> DEFINE L == k * J
    <2> HIDE DEF L
    <2>3. r * J = L + J /\ L \in Nat /\ (r + 1) * J = r * J + J
      BY <2>2 DEF L
    <2> QED
      BY <2>3
  <1>2. I * J - J * I = 0
    BY Z3
  <1>3. InCorridor(I, J, I, J, r) <=> I * J - J * I <= K /\ -K <= I * J - J * I
    BY CorridorIs
  <1>4. InCorridor(1, 1, I, J, r) <=> 1 * J - 1 * I <= K /\ -K <= 1 * J - 1 * I
    BY CorridorIs
  <1>5. 1 * J = J /\ 1 * I = I
    OBVIOUS
  <1> HIDE DEF K
  <1>6. InCorridor(I, J, I, J, r)
    BY <1>1, <1>2, <1>3
  <1>7. InCorridor(1, 1, I, J, r) <=> I <= K + J
    BY <1>1, <1>4, <1>5
  <1> QED
    BY <1>1, <1>6, <1>7

\* If it holds the first, then one before each of its other cells.
LEMMA CorridorConnects ==
  ASSUME NEW I \in Nat \ {0}, NEW J \in Nat \ {0}, NEW r \in Nat \ {0}, NEW i \in 1..I, NEW j \in 1..J,
         InCorridor(1, 1, I, J, r), InCorridor(i, j, I, J, r), i # 1 \/ j # 1
  PROVE  \/ j > 1 /\ InCorridor(i, j-1, I, J, r)
         \/ i > 1 /\ j > 1 /\ InCorridor(i-1, j-1, I, J, r)
         \/ i > 1 /\ InCorridor(i-1, j, I, J, r)
  <1> DEFINE P == i * J
             Q == j * I
             K == r * J
  <1>1. P \in Int /\ Q \in Int /\ K \in Nat /\ J <= K
    <2>1. K \in Nat /\ J <= K
      <3>1. PICK k \in Nat : r = k + 1
        <4>1. r - 1 \in Nat /\ r = (r - 1) + 1
          OBVIOUS
        <4> QED
          BY <4>1
      <3>2. r * J = k * J + J /\ k * J \in Nat
        BY <3>1
      <3> DEFINE L == k * J
      <3> HIDE DEF L
      <3>3. r * J = L + J /\ L \in Nat
        BY <3>2 DEF L
      <3> QED
        BY <3>3
    <2> QED
      BY <2>1
  <1>2. (i - 1) * J = P - J /\ (j - 1) * I = Q - I
    OBVIOUS
  <1>3. (i = 1 => P = J) /\ (j = 1 => Q = I)
    OBVIOUS
  <1>4. (i > 1 => J <= P - J) /\ (j > 1 => I <= Q - I)
    <2>1. ASSUME NEW n \in Nat, NEW k \in Nat, n > 1 PROVE k <= n * k - k
      <3>1. PICK m \in Nat : n = m + 2
        <4>1. n - 2 \in Nat /\ n = (n - 2) + 2
          BY <2>1
        <4> QED
          BY <4>1
      <3>2. n * k = m * k + 2 * k /\ m * k \in Nat
        BY <3>1
      <3> DEFINE L == m * k
      <3> HIDE DEF L
      <3>3. n * k = L + 2 * k /\ L \in Nat
        BY <3>2 DEF L
      <3> QED
        BY <3>3
    <2>2. i \in Nat /\ j \in Nat /\ I \in Nat /\ J \in Nat
      OBVIOUS
    <2>3. i > 1 => J <= i * J - J
      BY <2>1, <2>2
    <2>4. j > 1 => I <= j * I - I
      BY <2>1, <2>2
    <2> QED
      BY <2>3, <2>4
  <1>5. i \in Nat /\ j \in Nat /\ i >= 1 /\ j >= 1 /\ i - 1 \in Int /\ j - 1 \in Int
    OBVIOUS
  <1>6. /\ InCorridor(i, j, I, J, r) <=> P - Q <= K /\ -K <= P - Q
        /\ InCorridor(i, j-1, I, J, r) <=> P - (j - 1) * I <= K /\ -K <= P - (j - 1) * I
        /\ InCorridor(i-1, j-1, I, J, r) <=> (i - 1) * J - (j - 1) * I <= K /\ -K <= (i - 1) * J - (j - 1) * I
        /\ InCorridor(i-1, j, I, J, r) <=> (i - 1) * J - Q <= K /\ -K <= (i - 1) * J - Q
    <2>1. \A x, y \in Int : InCorridor(x, y, I, J, r) <=> x * J - y * I <= K /\ -K <= x * J - y * I
      BY CorridorIs
    <2> HIDE DEF K
    <2>2. InCorridor(i, j, I, J, r) <=> P - Q <= K /\ -K <= P - Q
      BY <1>5, <2>1
    <2>3. InCorridor(i, j-1, I, J, r) <=> P - (j - 1) * I <= K /\ -K <= P - (j - 1) * I
      BY <1>5, <2>1
    <2>4. InCorridor(i-1, j-1, I, J, r) <=> (i - 1) * J - (j - 1) * I <= K /\ -K <= (i - 1) * J - (j - 1) * I
      BY <1>5, <2>1
    <2>5. InCorridor(i-1, j, I, J, r) <=> (i - 1) * J - Q <= K /\ -K <= (i - 1) * J - Q
      BY <1>5, <2>1
    <2> QED
      BY <2>2, <2>3, <2>4, <2>5
  <1>7. InCorridor(1, 1, I, J, r) <=> J - I <= K /\ -K <= J - I
    <2>1. InCorridor(1, 1, I, J, r) <=> 1 * J - 1 * I <= K /\ -K <= 1 * J - 1 * I
      BY CorridorIs
    <2>2. 1 * J = J /\ 1 * I = I
      OBVIOUS
    <2> HIDE DEF K
    <2> QED
      BY <2>1, <2>2
  <1> DEFINE Pi == (i - 1) * J
             Qj == (j - 1) * I
  <1>8. Pi = P - J /\ Qj = Q - I
    BY <1>2
  <1>9. /\ P - Q <= K /\ -K <= P - Q
        /\ InCorridor(i, j-1, I, J, r) <=> P - Qj <= K /\ -K <= P - Qj
        /\ InCorridor(i-1, j-1, I, J, r) <=> Pi - Qj <= K /\ -K <= Pi - Qj
        /\ InCorridor(i-1, j, I, J, r) <=> Pi - Q <= K /\ -K <= Pi - Q
        /\ J - I <= K /\ -K <= J - I
    BY <1>6, <1>7
  <1>10. I \in Nat /\ J \in Nat /\ I > 0 /\ J > 0
    OBVIOUS
  <1> HIDE DEF P, Q, K, Pi, Qj
  <1>11. CASE j = 1
    BY <1>1, <1>3, <1>4, <1>5, <1>8, <1>9, <1>10, <1>11
  <1>12. CASE i = 1
    BY <1>1, <1>3, <1>4, <1>5, <1>8, <1>9, <1>10, <1>12
  <1>13. CASE i > 1 /\ j > 1 /\ P >= Q
    BY <1>1, <1>8, <1>9, <1>10, <1>13
  <1>14. CASE i > 1 /\ j > 1 /\ P < Q /\ I >= J
    BY <1>1, <1>8, <1>9, <1>10, <1>14
  <1>15. CASE i > 1 /\ j > 1 /\ P < Q /\ I < J
    BY <1>1, <1>8, <1>9, <1>10, <1>15
  <1> QED
    BY <1>1, <1>5, <1>10, <1>11, <1>12, <1>13, <1>14, <1>15

\* A matrix has finite distances where it has the first.
LEMMA FiniteIfFirst ==
  ASSUME NEW w, NEW g, Warped(w), MatrixOf(w, g)
  PROVE  \A c \in Places(w) :
           InCorridor(c[1], c[2], Rows(w), Columns(w), w.r) =>
             (Far(g, c) # Infinity <=> InCorridor(1, 1, Rows(w), Columns(w), w.r))
  <1> DEFINE D == Places(w)
             rank == Steps(D)
             r == w.r
             In(i, j) == InCorridor(i, j, Rows(w), Columns(w), w.r)
             T == {c \in D : In(c[1], c[2]) => (Far(g, c) # Infinity <=> In(1, 1))}
  <1>1. Rows(w) \in Nat \ {0} /\ Columns(w) \in Nat \ {0} /\ r \in Nat \ {0}
    BY WarpedType
  <1>2. \A c \in D : c = <<c[1], c[2]>> /\ c[1] \in 1..Rows(w) /\ c[2] \in 1..Columns(w)
    BY DEF Places
  <1>3. \A i \in 1..Rows(w), j \in 1..Columns(w) : <<i, j>> \in D => rank[<<i, j>>] = i + j
    BY DEF Steps, Places
  <1>4. rank \in [D -> Nat]
    BY <1>1 DEF Steps, Places
  <1> HIDE DEF D, rank
  <1>5. ASSUME NEW c \in D, \A e \in D : rank[e] < rank[c] => e \in T PROVE c \in T
    <2> DEFINE i == c[1]
               j == c[2]
    <2>1. i \in 1..Rows(w) /\ j \in 1..Columns(w) /\ c = <<i, j>> /\ Far(g, c) = Dist(g, i, j)
      BY <1>2 DEF Far
    <2> SUFFICES ASSUME In(i, j) PROVE Far(g, c) # Infinity <=> In(1, 1)
      OBVIOUS
    <2>2. ASSUME NEW e \in Before(w, i, j)
          PROVE  In(e[1], e[2]) => (Far(g, e) # Infinity <=> In(1, 1))
      <3>1. e \in D /\ (e = <<i, j-1>> \/ e = <<i-1, j-1>> \/ e = <<i-1, j>>)
        BY Zenon DEF Before, D
      <3>2. e = <<e[1], e[2]>> /\ e[1] \in 1..Rows(w) /\ e[2] \in 1..Columns(w)
        BY <1>2, <3>1
      <3> HIDE DEF i, j, In
      <3>3. rank[e] = e[1] + e[2] /\ rank[c] = i + j
        BY <1>3, <2>1, <3>1, <3>2
      <3>4. \/ e[1] = i /\ e[2] = j - 1
            \/ e[1] = i - 1 /\ e[2] = j - 1
            \/ e[1] = i - 1 /\ e[2] = j
        BY <3>1
      <3>5. i \in Nat /\ j \in Nat
        BY <1>1, <2>1
      <3>6. rank[e] < rank[c]
        BY <3>3, <3>4, <3>5
      <3>7. e \in T
        BY <1>5, <3>1, <3>6
      <3> QED
        BY <3>7
    <2> HIDE DEF i, j, T
    <2>3. CASE i = 1 /\ j = 1
      <3>1. Dist(g, 1, 1) = 4 * Local(w, 1, 1) /\ Local(w, 1, 1) \in Nat
        BY <2>3, StepFirst
      <3>2. Dist(g, 1, 1) # Infinity
        BY <3>1 DEF Infinity
      <3> QED
        BY <2>1, <2>3, <3>2
    <2>4. CASE i # 1 \/ j # 1
      <3>1. ASSUME In(1, 1) PROVE Far(g, c) # Infinity
        <4>1. \/ j > 1 /\ In(i, j-1)
              \/ i > 1 /\ j > 1 /\ In(i-1, j-1)
              \/ i > 1 /\ In(i-1, j)
          BY <1>1, <2>1, <2>4, <3>1, CorridorConnects
        <4> HIDE DEF In
        <4>2. \E e \in Before(w, i, j) : In(e[1], e[2])
          <5>1. CASE j > 1 /\ In(i, j-1)
            <6>1. <<i, j-1>> \in Before(w, i, j)
              BY <1>1, <2>1, <5>1, BeforeIs
            <6>2. In(<<i, j-1>>[1], <<i, j-1>>[2])
              BY <5>1
            <6> QED
              BY <6>1, <6>2
          <5>2. CASE i > 1 /\ j > 1 /\ In(i-1, j-1)
            <6>1. <<i-1, j-1>> \in Before(w, i, j)
              BY <1>1, <2>1, <5>2, BeforeIs
            <6>2. In(<<i-1, j-1>>[1], <<i-1, j-1>>[2])
              BY <5>2
            <6> QED
              BY <6>1, <6>2
          <5>3. CASE i > 1 /\ In(i-1, j)
            <6>1. <<i-1, j>> \in Before(w, i, j)
              BY <1>1, <2>1, <5>3, BeforeIs
            <6>2. In(<<i-1, j>>[1], <<i-1, j>>[2])
              BY <5>3
            <6> QED
              BY <6>1, <6>2
          <5> QED
            BY <4>1, <5>1, <5>2, <5>3
        <4>3. PICK e \in Before(w, i, j) : Far(g, e) # Infinity
          BY <2>2, <3>1, <4>2
        <4> QED
          BY <2>1, <2>4, <4>3, StepBefore DEF In
      <3>2. ASSUME Far(g, c) # Infinity PROVE In(1, 1)
        <4>1. PICK e \in Before(w, i, j) : Far(g, e) # Infinity
          BY <2>1, <2>4, <3>2, StepBefore
        <4>2. e[1] \in 1..Rows(w) /\ e[2] \in 1..Columns(w)
          BY DEF Before, Places
        <4>3. In(e[1], e[2])
          <5>1. Inner(w, g, e[1], e[2])
            BY <4>2, CellsAre
          <5> QED
            BY <4>1, <5>1 DEF Inner, Far
        <4> QED
          BY <2>2, <4>1, <4>3
      <3> QED
        BY <3>1, <3>2
    <2> QED
      BY <2>3, <2>4
  <1> HIDE DEF T, In
  <1>6. \A c \in D : c \in T
    BY <1>4, <1>5, RankInduction
  <1> QED
    BY <1>6 DEF T, D, In

\* There is a path to the last cell unless the first sequence is too long.
LEMMA FiniteRatio ==
  ASSUME NEW w, Warped(w)
  PROVE  w.dist = Infinity <=> Len(w.a) > (w.r + 1) * Len(w.b)
  <1>1. PICK g : MatrixOf(w, g)
    BY HasMatrix
  <1> DEFINE c == <<Rows(w), Columns(w)>>
             r == w.r
  <1>2. Rows(w) \in Nat \ {0} /\ Columns(w) \in Nat \ {0} /\ r \in Nat \ {0}
    BY WarpedType
  <1>3. c \in Places(w) /\ w.dist = Far(g, c)
    BY <1>1, <1>2, WarpIs DEF Places, Far
  <1> HIDE DEF r
  <1>4. /\ InCorridor(Rows(w), Columns(w), Rows(w), Columns(w), r)
        /\ InCorridor(1, 1, Rows(w), Columns(w), r) <=> Rows(w) <= (r + 1) * Columns(w)
    BY <1>2, CorridorEnds
  <1>5. InCorridor(Rows(w), Columns(w), Rows(w), Columns(w), r) =>
          (Far(g, c) # Infinity <=> InCorridor(1, 1, Rows(w), Columns(w), r))
    BY <1>1, <1>3, FiniteIfFirst DEF r
  <1> DEFINE K == (r + 1) * Columns(w)
  <1>6. K \in Nat
    BY <1>2
  <1>7. w.dist = Infinity <=> ~(Rows(w) <= K)
    BY <1>3, <1>4, <1>5
  <1> HIDE DEF K
  <1>8. w.dist = Infinity <=> Rows(w) > K
    BY <1>2, <1>6, <1>7
  <1> QED
    BY <1>8 DEF K, r, Rows, Columns

(* The path back.                                                          *)

\* Where the steps of a cell lead from.
Came(g, i, j) ==
  LET back == <<<<0, 1>>, <<1, 1>>, <<1, 0>>>>
  IN  <<i - back[StepOf(g, i, j) + 1][1], j - back[StepOf(g, i, j) + 1][2]>>

\* Which cell a step leads from.
LEMMA CameIs ==
  ASSUME NEW g, NEW i, NEW j, NEW s, s = StepOf(g, i, j)
  PROVE  /\ s = 0 => Came(g, i, j) = <<i - 0, j - 1>>
         /\ s = 1 => Came(g, i, j) = <<i - 1, j - 1>>
         /\ s = 2 => Came(g, i, j) = <<i - 1, j - 0>>
  <1>1. CASE s = 0
    BY <1>1 DEF Came
  <1>2. CASE s = 1
    BY <1>2 DEF Came
  <1>3. CASE s = 2
    BY <1>3 DEF Came
  <1> QED
    BY <1>1, <1>2, <1>3

\* The step of a cell within reach leads from one before it that is within reach.
LEMMA StepTaken ==
  ASSUME NEW w, NEW g, NEW i, NEW j, Warped(w), MatrixOf(w, g), i \in 1..Rows(w), j \in 1..Columns(w),
         i # 1, j # 1, Dist(g, i, j) # Infinity, NEW e, e = Came(g, i, j)
  PROVE  /\ e \in Before(w, i, j) /\ Far(g, e) # Infinity
         /\ Dist(g, i, j) = Far(g, e) + Weight(e, <<i, j>>) * Local(w, i, j)
  <1> DEFINE d == Local(w, i, j)
             x == Dist(g, i, j-1)
             y == Dist(g, i-1, j-1)
             z == Dist(g, i-1, j)
             s == StepOf(g, i, j)
  <1>1. Rows(w) \in Nat \ {0} /\ Columns(w) \in Nat \ {0} /\ d \in Nat /\ i \in Nat /\ j \in Nat
    BY WarpedType
  <1>2. i > 1 /\ j > 1 /\ i - 0 = i /\ j - 0 = j
    BY <1>1
  <1>3. InCorridor(i, j, Rows(w), Columns(w), w.r)
    <2>1. Inner(w, g, i, j)
      BY CellsAre
    <2> QED
      BY <2>1 DEF Inner
  <1>4. \/ s = 0 /\ x # Infinity /\ Dist(g, i, j) = x + d
        \/ s = 1 /\ y # Infinity /\ Dist(g, i, j) = y + d + d
        \/ s = 2 /\ z # Infinity /\ Dist(g, i, j) = z + d
    <2>1. \/ /\ StepOf(g, i, j) = 0 /\ j > 1 /\ Dist(g, i, j-1) # Infinity
             /\ Dist(g, i, j) = Dist(g, i, j-1) + Local(w, i, j)
          \/ /\ StepOf(g, i, j) = 1 /\ i > 1 /\ j > 1 /\ Dist(g, i-1, j-1) # Infinity
             /\ Dist(g, i, j) = Dist(g, i-1, j-1) + Local(w, i, j) + Local(w, i, j)
          \/ /\ StepOf(g, i, j) = 2 /\ i > 1 /\ Dist(g, i-1, j) # Infinity
             /\ Dist(g, i, j) = Dist(g, i-1, j) + Local(w, i, j)
      BY <1>3, StepInto
    <2> QED
      BY <2>1
  <1>5. /\ s = 0 => e = <<i, j-1>>
        /\ s = 1 => e = <<i-1, j-1>>
        /\ s = 2 => e = <<i-1, j>>
    BY <1>2, CameIs
  <1>6. /\ Far(g, <<i, j-1>>) = x /\ Far(g, <<i-1, j-1>>) = y /\ Far(g, <<i-1, j>>) = z
    BY DEF Far
  <1>7. /\ Weight(<<i, j-1>>, <<i, j>>) = 1
        /\ Weight(<<i-1, j-1>>, <<i, j>>) = 2
        /\ Weight(<<i-1, j>>, <<i, j>>) = 1
    BY <1>1 DEF Weight
  <1>8. 1 * d = d /\ 2 * d = d + d /\ (y # Infinity => y + d + d = y + (d + d))
    <2>1. i - 1 \in 0..Rows(w) /\ j - 1 \in 0..Columns(w)
      BY <1>1
    <2>2. y \in Lengths
      BY <2>1, CellsType
    <2>3. y # Infinity => y \in Nat
      BY <2>2 DEF Lengths
    <2> QED
      BY <1>1, <2>3
  <1>9. <<i, j-1>> \in Before(w, i, j) /\ <<i-1, j-1>> \in Before(w, i, j) /\ <<i-1, j>> \in Before(w, i, j)
    BY <1>1, <1>2, BeforeIs
  <1> HIDE DEF d, x, y, z, s
  <1>10. CASE s = 0 /\ x # Infinity /\ Dist(g, i, j) = x + d
    BY <1>5, <1>6, <1>7, <1>8, <1>9, <1>10 DEF d
  <1>11. CASE s = 1 /\ y # Infinity /\ Dist(g, i, j) = y + d + d
    BY <1>5, <1>6, <1>7, <1>8, <1>9, <1>11 DEF d
  <1>12. CASE s = 2 /\ z # Infinity /\ Dist(g, i, j) = z + d
    BY <1>5, <1>6, <1>7, <1>8, <1>9, <1>12 DEF d
  <1> QED
    BY <1>4, <1>10, <1>11, <1>12

\* The positions in the matrix of steps.
Positions(I, J) == (0..I-1) \X (0..J-1)

\* The definition of the path to a position, and the paths to all.
Previous(g, c) ==
  LET back == <<<<0, 1>>, <<1, 1>>, <<1, 0>>>>
  IN  <<c[1] - back[g[<<c[1] + 1, c[2] + 1>>].step + 1][1],
        c[2] - back[g[<<c[1] + 1, c[2] + 1>>].step + 1][2]>>

PathAt(g, path, c) ==
  IF c[1] = 0 \/ c[2] = 0 THEN <<>>
  ELSE IF g[<<c[1] + 1, c[2] + 1>>].step = 3 THEN <<Lost>>
  ELSE Append(path[Previous(g, c)], Previous(g, c))

Paths(g, I, J) == CHOOSE path : path = [c \in Positions(I, J) |-> PathAt(g, path, c)]

\* The position before.
LEMMA PreviousIs ==
  ASSUME NEW w, NEW g, NEW c, Warped(w), MatrixOf(w, g),
         c \in Positions(Rows(w), Columns(w)), c[1] # 0, c[2] # 0
  PROVE  /\ Previous(g, c) \in Positions(Rows(w), Columns(w))
         /\ Previous(g, c)[1] + Previous(g, c)[2] < c[1] + c[2]
         /\ Previous(g, c)[1] + 1 = Came(g, c[1] + 1, c[2] + 1)[1]
         /\ Previous(g, c)[2] + 1 = Came(g, c[1] + 1, c[2] + 1)[2]
         /\ g[<<c[1] + 1, c[2] + 1>>].step # 3
  <1> DEFINE i == c[1]
             j == c[2]
             s == StepOf(g, i + 1, j + 1)
  <1>1. Rows(w) \in Nat \ {0} /\ Columns(w) \in Nat \ {0}
    BY WarpedType
  <1>2. i \in 0..Rows(w)-1 /\ j \in 0..Columns(w)-1 /\ i # 0 /\ j # 0
    BY DEF Positions
  <1>3. s \in 0..2 /\ s = g[<<c[1] + 1, c[2] + 1>>].step
    <2>1. i + 1 \in 0..Rows(w) /\ j + 1 \in 0..Columns(w)
      BY <1>1, <1>2
    <2> QED
      BY <2>1, CellsType DEF StepOf
  <1> DEFINE back == <<<<0, 1>>, <<1, 1>>, <<1, 0>>>>
             p == back[s+1][1]
             q == back[s+1][2]
  <1>4. Previous(g, c) = <<i - p, j - q>>
    BY <1>3 DEF Previous
  <1>5. Came(g, i + 1, j + 1) = <<(i + 1) - p, (j + 1) - q>>
    BY DEF Came
  <1> HIDE DEF s
  <1>6. p \in 0..1 /\ q \in 0..1 /\ p + q >= 1
    <2>1. CASE s = 0
      BY <2>1
    <2>2. CASE s = 1
      BY <2>2
    <2>3. CASE s = 2
      BY <2>3
    <2> QED
      BY <1>3, <2>1, <2>2, <2>3
  <1> HIDE DEF p, q, i, j
  <1>7. i - p \in 0..Rows(w)-1 /\ j - q \in 0..Columns(w)-1
    BY <1>1, <1>2, <1>6
  <1>8. (i - p) + (j - q) < i + j /\ (i - p) + 1 = (i + 1) - p /\ (j - q) + 1 = (j + 1) - q
    BY <1>1, <1>2, <1>6
  <1>9. Previous(g, c) \in Positions(Rows(w), Columns(w))
    BY <1>4, <1>7 DEF Positions
  <1>10. Previous(g, c)[1] = i - p /\ Previous(g, c)[2] = j - q
    BY <1>4
  <1>11. Came(g, i + 1, j + 1)[1] = (i + 1) - p /\ Came(g, i + 1, j + 1)[2] = (j + 1) - q
    BY <1>5
  <1>12. /\ Previous(g, c)[1] + Previous(g, c)[2] < i + j
         /\ Previous(g, c)[1] + 1 = Came(g, i + 1, j + 1)[1]
         /\ Previous(g, c)[2] + 1 = Came(g, i + 1, j + 1)[2]
    BY <1>8, <1>10, <1>11
  <1>13. s # 3
    BY <1>3
  <1> QED
    BY <1>3, <1>9, <1>12, <1>13 DEF i, j

\* The path to a position.
PathIs(w, g, path, c) ==
  /\ path[c] \in Seq(Positions(Rows(w), Columns(w)))
  /\ c[1] = 0 \/ c[2] = 0 => path[c] = <<>>
  /\ c[1] # 0 /\ c[2] # 0 => path[c] = Append(path[Previous(g, c)], Previous(g, c))

\* Paths is as minimal_path defines it at every cell, and has the path it returns.
LEMMA PathsAre ==
  ASSUME NEW w, NEW g, NEW path, Warped(w), MatrixOf(w, g), path = Paths(g, Rows(w), Columns(w))
  PROVE  /\ \A c \in Positions(Rows(w), Columns(w)) : PathIs(w, g, path, c)
         /\ minimal_path(g, Rows(w), Columns(w)) = path[<<Rows(w) - 1, Columns(w) - 1>>]
  <1> DEFINE D == Positions(Rows(w), Columns(w))
             V == Seq(D)
             P(f) == f = [c \in Positions(Rows(w), Columns(w)) |-> PathAt(g, f, c)]
             rank == Steps(D)
  <1>0. Rows(w) \in Nat \ {0} /\ Columns(w) \in Nat \ {0}
    BY WarpedType
  <1>1. \A c \in D : c = <<c[1], c[2]>> /\ c[1] \in 0..Rows(w)-1 /\ c[2] \in 0..Columns(w)-1
    BY DEF Positions
  <1>2. rank \in [D -> Nat] /\ \A c \in D : rank[c] <= Rows(w) + Columns(w) /\ rank[c] = c[1] + c[2]
    <2>1. \A c \in D : rank[c] = c[1] + c[2]
      BY DEF Steps
    <2>2. \A c \in D : rank[c] \in Nat /\ rank[c] <= Rows(w) + Columns(w)
      <3> HIDE DEF D, rank
      <3> QED
        BY <1>0, <1>1, <2>1
    <2>3. rank = [c \in D |-> rank[c]]
      BY DEF Steps
    <2> HIDE DEF D, rank
    <2> QED
      BY <2>1, <2>2, <2>3
  <1>3. ASSUME NEW c \in D, c[1] # 0, c[2] # 0
        PROVE  Previous(g, c) \in D /\ rank[Previous(g, c)] < rank[c] /\ g[<<c[1] + 1, c[2] + 1>>].step # 3
    <2>1. /\ Previous(g, c) \in D /\ Previous(g, c)[1] + Previous(g, c)[2] < c[1] + c[2]
          /\ g[<<c[1] + 1, c[2] + 1>>].step # 3
      BY <1>3, PreviousIs
    <2> HIDE DEF D, rank
    <2> QED
      BY <1>2, <2>1
  <1>4. ASSUME NEW f, NEW c \in D
        PROVE  /\ c[1] = 0 \/ c[2] = 0 => PathAt(g, f, c) = <<>>
               /\ c[1] # 0 /\ c[2] # 0 => PathAt(g, f, c) = Append(f[Previous(g, c)], Previous(g, c))
    <2>1. c[1] = 0 \/ c[2] = 0 => PathAt(g, f, c) = <<>>
      BY DEF PathAt
    <2>2. ASSUME c[1] # 0, c[2] # 0 PROVE PathAt(g, f, c) = Append(f[Previous(g, c)], Previous(g, c))
      <3>1. g[<<c[1] + 1, c[2] + 1>>].step # 3
        BY <1>3, <2>2
      <3> QED
        BY <2>2, <3>1, Zenon DEF PathAt
    <2> QED
      BY <2>1, <2>2
  <1>5. ASSUME NEW f, NEW c \in D, \A e \in D : rank[e] < rank[c] => f[e] \in V
        PROVE  PathAt(g, f, c) \in V
    <2> HIDE DEF D, rank
    <2>1. CASE c[1] = 0 \/ c[2] = 0
      <3>1. PathAt(g, f, c) = <<>>
        BY <1>4, <2>1
      <3> QED
        BY <3>1
    <2>2. CASE c[1] # 0 /\ c[2] # 0
      <3>1. Previous(g, c) \in D /\ f[Previous(g, c)] \in V
        BY <1>3, <1>5, <2>2
      <3> QED
        BY <1>4, <2>2, <3>1
    <2> QED
      BY <2>1, <2>2
  <1>6. \E f : P(f)
    <2> DEFINE B == [z \in [D -> V] \X D |-> PathAt(g, z[1], z[2])]
    <2>0. <<>> \in V
      OBVIOUS
    <2> HIDE DEF D, rank, V
    <2>1. \A f \in [D -> V], c \in D : B[<<f, c>>] = PathAt(g, f, c)
      OBVIOUS
    <2>2. B \in [[D -> V] \X D -> V]
      BY <1>5
    <2>3. ASSUME NEW f \in [D -> V], NEW h \in [D -> V], NEW c \in D, Agree(D, rank, c, f, h)
          PROVE  B[<<f, c>>] = B[<<h, c>>]
      <3> HIDE DEF B
      <3>1. c[1] # 0 /\ c[2] # 0 => f[Previous(g, c)] = h[Previous(g, c)]
        BY <1>3, <2>3 DEF Agree
      <3>2. PathAt(g, f, c) = PathAt(g, h, c)
        BY <1>4, <3>1
      <3> QED
        BY <2>1, <3>2
    <2>4. PICK f \in [D -> V] : f = [c \in D |-> B[<<f, c>>]]
      <3>1. Rows(w) + Columns(w) \in Nat
        BY <1>0
      <3> HIDE DEF B
      <3>2. Recursion(D, V, rank, B)
        BY <1>2, <2>0, <2>2, <2>3, <3>1 DEF Recursion
      <3> QED
        BY <3>2, RecursionDefines
    <2>5. P(f)
      BY <2>1, <2>4 DEF D
    <2> QED
      BY <2>5
  <1>7. path = CHOOSE f : P(f)
    BY DEF Paths
  <1> HIDE DEF P
  <1>8. P(path)
    BY <1>6, <1>7
  <1>9. \A c \in D : path[c] = PathAt(g, path, c)
    BY <1>8 DEF P
  <1>10. \A c \in D : path[c] \in V
    <2> DEFINE T == {c \in D : path[c] \in V}
    <2> HIDE DEF D, rank, V
    <2>1. ASSUME NEW c \in D, \A e \in D : rank[e] < rank[c] => e \in T PROVE c \in T
      <3>1. \A e \in D : rank[e] < rank[c] => path[e] \in V
        BY <2>1
      <3>2. PathAt(g, path, c) \in V
        BY <1>5, <3>1
      <3> QED
        BY <1>9, <3>2
    <2> HIDE DEF T
    <2>2. \A c \in D : c \in T
      BY <1>2, <2>1, RankInduction
    <2> QED
      BY <2>2 DEF T
  <1>11. minimal_path(g, Rows(w), Columns(w)) = path[<<Rows(w) - 1, Columns(w) - 1>>]
    BY DEF minimal_path, Paths, PathAt, Previous, Positions
  <1> QED
    BY <1>4, <1>9, <1>10, <1>11 DEF PathIs

\* The paths are sequences of positions.
LEMMA PathsType ==
  ASSUME NEW w, NEW g, NEW path, NEW c, Warped(w), MatrixOf(w, g), path = Paths(g, Rows(w), Columns(w)),
         c \in Positions(Rows(w), Columns(w))
  PROVE  path[c] \in Seq(Positions(Rows(w), Columns(w)))
  <1>1. PathIs(w, g, path, c)
    BY PathsAre
  <1> QED
    BY <1>1 DEF PathIs

\* From a border there is none.
LEMMA PathsAtBorder ==
  ASSUME NEW w, NEW g, NEW path, NEW c, Warped(w), MatrixOf(w, g), path = Paths(g, Rows(w), Columns(w)),
         c \in Positions(Rows(w), Columns(w)), c[1] = 0 \/ c[2] = 0
  PROVE  path[c] = <<>>
  <1>1. PathIs(w, g, path, c)
    BY PathsAre
  <1> QED
    BY <1>1 DEF PathIs

\* From elsewhere it is one from the position before, and that.
LEMMA PathsInside ==
  ASSUME NEW w, NEW g, NEW path, NEW c, Warped(w), MatrixOf(w, g), path = Paths(g, Rows(w), Columns(w)),
         c \in Positions(Rows(w), Columns(w)), c[1] # 0, c[2] # 0
  PROVE  path[c] = Append(path[Previous(g, c)], Previous(g, c))
  <1>1. PathIs(w, g, path, c)
    BY PathsAre
  <1> QED
    BY <1>1 DEF PathIs

\* The cell at a position.
Raised(o) == <<o[1] + 1, o[2] + 1>>

\* The cells that a path back from c runs through, and c.
Ending(q, c) ==
  [k \in 1..Len(q)+1 |-> IF k > Len(q) THEN c ELSE Raised(q[k])]

\* p has t as its end.
Ends(p, t) ==
  Len(t) <= Len(p) /\ \A k \in 1..Len(t) : p[(Len(p) - Len(t)) + k] = t[k]

\* The path with the last cell, counted from one.
LEMMA EndingIs ==
  ASSUME NEW S, NEW q, NEW c, q \in Seq(S)
  PROVE  Len(Ending(q, c)) = Len(q) + 1 /\ Ending(q, c)[Len(q) + 1] = c
  <1>1. Len(q) \in Nat
    OBVIOUS
  <1>2. Len(Ending(q, c)) = Len(q) + 1
    BY <1>1 DEF Ending
  <1>3. Len(q) + 1 \in 1..Len(q)+1 /\ Len(q) + 1 > Len(q)
    BY <1>1
  <1> QED
    BY <1>2, <1>3 DEF Ending

\* Its cells before the last, each raised by one.
LEMMA EndingBefore ==
  ASSUME NEW S, NEW q, NEW c, NEW k, q \in Seq(S), k \in 1..Len(q)
  PROVE  Ending(q, c)[k] = Raised(q[k])
  <1>1. Len(q) \in Nat
    OBVIOUS
  <1>2. k \in 1..Len(q)+1 /\ ~(k > Len(q))
    BY <1>1
  <1> QED
    BY <1>2 DEF Ending

\* A path that ends in c ends in the path back from c if that is empty.
LEMMA EndsHere ==
  ASSUME NEW S, NEW p, NEW c, p \in Seq(S), Len(p) # 0, p[Len(p)] = c
  PROVE  Ends(p, Ending(<<>>, c)) /\ Ending(<<>>, c)[1] = c
  <1> DEFINE q == <<>>
             t == Ending(q, c)
  <1>1. Len(q) = 0 /\ q \in Seq(S)
    OBVIOUS
  <1> HIDE DEF q
  <1>2. Len(t) = 1 /\ t[1] = c
    <2>1. Len(t) = Len(q) + 1 /\ t[Len(q)+1] = c
      BY <1>1, EndingIs
    <2>2. Len(q) + 1 = 1
      BY <1>1
    <2> HIDE DEF t
    <2> QED
      BY <2>1, <2>2
  <1>3. Len(p) \in Nat \ {0}
    OBVIOUS
  <1> HIDE DEF t
  <1>4. ASSUME NEW k \in 1..Len(t) PROVE p[(Len(p) - Len(t)) + k] = t[k]
    <2>1. k = 1 /\ (Len(p) - Len(t)) + k = Len(p)
      BY <1>2, <1>3
    <2> QED
      BY <1>2, <2>1
  <1>5. Ends(p, t)
    BY <1>2, <1>3, <1>4 DEF Ends
  <1> QED
    BY <1>2, <1>5 DEF t, q

\* A path and a path back that both go on by a cell.
LEMMA EndsAfter ==
  ASSUME NEW S, NEW R, NEW p, NEW q, NEW e, NEW c, NEW o,
         p \in Seq(S), q \in Seq(R), c \in S, o \in R, e = Raised(o), Ends(p, Ending(q, e))
  PROVE  /\ Ends(Append(p, c), Ending(Append(q, o), c))
         /\ Ending(Append(q, o), c)[1] = Ending(q, e)[1]
  <1> DEFINE pp == Append(p, c)
             qq == Append(q, o)
             t == Ending(q, e)
             tt == Ending(qq, c)
             n == Len(q)
             m == Len(p)
  <1>1. n \in Nat /\ m \in Nat
    OBVIOUS
  <1>2. pp \in Seq(S) /\ Len(pp) = m + 1 /\ pp[m+1] = c /\ \A k \in 1..m : pp[k] = p[k]
    OBVIOUS
  <1>3. qq \in Seq(R) /\ Len(qq) = n + 1 /\ qq[n+1] = o /\ \A k \in 1..n : qq[k] = q[k]
    OBVIOUS
  <1>4. Len(t) = n + 1 /\ t[n+1] = e /\ \A k \in 1..n : t[k] = Raised(q[k])
    BY EndingIs, EndingBefore
  <1> HIDE DEF pp, qq, t
  <1>5. /\ Len(tt) = Len(qq) + 1 /\ tt[Len(qq)+1] = c
        /\ \A k \in 1..Len(qq) : tt[k] = Raised(qq[k])
    BY <1>3, EndingIs, EndingBefore
  <1>6. n + 1 <= m /\ \A k \in 1..n+1 : p[(m - (n + 1)) + k] = t[k]
    BY <1>4 DEF Ends, t
  <1> HIDE DEF tt, n, m
  <1>7. \A k \in 1..n+1 : tt[k] = t[k]
    <2>1. tt[n+1] = t[n+1]
      <3>1. n + 1 \in 1..Len(qq)
        BY <1>1, <1>3
      <3> QED
        BY <1>3, <1>4, <1>5, <3>1
    <2>2. ASSUME NEW k \in 1..n PROVE tt[k] = t[k]
      <3>1. k \in 1..Len(qq)
        BY <1>1, <1>3
      <3>2. tt[k] = Raised(qq[k]) /\ qq[k] = q[k]
        BY <1>3, <1>5, <3>1
      <3> QED
        BY <1>4, <3>2
    <2>3. \A k \in 1..n+1 : k = n + 1 \/ k \in 1..n
      BY <1>1
    <2> QED
      BY <2>1, <2>2, <2>3
  <1>8. Len(tt) = n + 2 /\ tt[n+2] = c
    BY <1>1, <1>3, <1>5
  <1>9. ASSUME NEW k \in 1..n+2 PROVE pp[((m + 1) - (n + 2)) + k] = tt[k]
    <2>1. CASE k = n + 2
      <3>1. ((m + 1) - (n + 2)) + k = m + 1
        BY <1>1, <2>1
      <3> QED
        BY <1>2, <1>8, <2>1, <3>1
    <2>2. CASE k # n + 2
      <3>1. k \in 1..n+1 /\ ((m + 1) - (n + 2)) + k = (m - (n + 1)) + k /\ (m - (n + 1)) + k \in 1..m
        BY <1>1, <1>6, <2>2
      <3> DEFINE x == (m - (n + 1)) + k
      <3>2. x \in 1..m /\ p[x] = t[k] /\ ((m + 1) - (n + 2)) + k = x
        BY <1>6, <3>1
      <3> HIDE DEF x
      <3>3. pp[x] = p[x]
        BY <1>2, <3>2
      <3> QED
        BY <1>7, <3>1, <3>2, <3>3
    <2> QED
      BY <2>1, <2>2
  <1>10. n + 2 <= m + 1
    BY <1>1, <1>6
  <1>11. Ends(pp, tt)
    BY <1>2, <1>8, <1>9, <1>10 DEF Ends
  <1>12. tt[1] = t[1]
    <2>1. 1 \in 1..n+1
      BY <1>1
    <2> QED
      BY <1>7, <2>1
  <1> QED
    BY <1>11, <1>12 DEF pp, qq, t, tt

\* Among the shortest ways to a cell is one that ends in the path back, which
\* begins at a border.
Traced(w, g, path, c) ==
  Far(g, c) # Infinity =>
    /\ Ending(path[<<c[1] - 1, c[2] - 1>>], c)[1] \in {e \in Places(w) : e[1] = 1 \/ e[2] = 1}
    /\ \E p \in Ways(w)[c] :
         Cost(w, p) = Far(g, c) /\ Ends(p, Ending(path[<<c[1] - 1, c[2] - 1>>], c))

\* What is traced from a cell ends a path to it, if that is so of the cells before.
LEMMA TracedAt ==
  ASSUME NEW w, NEW g, NEW path, NEW i, NEW j, Warped(w), MatrixOf(w, g),
         path = Paths(g, Rows(w), Columns(w)),
         i \in 1..Rows(w), j \in 1..Columns(w),
         \A e \in Before(w, i, j) : Traced(w, g, path, e)
  PROVE  Traced(w, g, path, <<i, j>>)
  <1> DEFINE c == <<i, j>>
             o == <<i - 1, j - 1>>
             d == Local(w, i, j)
  <1> SUFFICES ASSUME Far(g, c) # Infinity
               PROVE  /\ Ending(path[o], c)[1] \in {e \in Places(w) : e[1] = 1 \/ e[2] = 1}
                      /\ \E p \in Ways(w)[c] : Cost(w, p) = Far(g, c) /\ Ends(p, Ending(path[o], c))
    BY DEF Traced
  <1>1. Rows(w) \in Nat \ {0} /\ Columns(w) \in Nat \ {0} /\ d \in Nat
    BY WarpedType
  <1>2. c \in Places(w) /\ Far(g, c) = Dist(g, i, j) /\ Local(w, c[1], c[2]) = d /\ c[1] = i /\ c[2] = j
    BY DEF Places, Far
  <1>3. o \in Positions(Rows(w), Columns(w)) /\ o[1] = i - 1 /\ o[2] = j - 1
    BY <1>1 DEF Positions
  <1>4. /\ path[o] \in Seq(Positions(Rows(w), Columns(w)))
        /\ o[1] = 0 \/ o[2] = 0 => path[o] = <<>>
        /\ o[1] # 0 /\ o[2] # 0 => path[o] = Append(path[Previous(g, o)], Previous(g, o))
    <2> HIDE DEF o
    <2>1. path[o] \in Seq(Positions(Rows(w), Columns(w)))
      BY <1>3, PathsType
    <2>2. o[1] = 0 \/ o[2] = 0 => path[o] = <<>>
      BY <1>3, PathsAtBorder
    <2>3. o[1] # 0 /\ o[2] # 0 => path[o] = Append(path[Previous(g, o)], Previous(g, o))
      BY <1>3, PathsInside
    <2> QED
      BY <2>1, <2>2, <2>3
  <1>5. CASE i = 1 \/ j = 1
    <2>1. path[o] = <<>>
      <3>1. o[1] = 0 \/ o[2] = 0
        BY <1>3, <1>5
      <3> QED
        BY <1>4, <3>1
    <2>2. Right(w, g, c)
      BY <1>2, RightEverywhere
    <2> HIDE DEF c, o
    <2>3. PICK p \in Ways(w)[c] : Cost(w, p) = Far(g, c)
      BY <2>2 DEF Right
    <2>4. p \in Seq(Places(w)) /\ Len(p) # 0 /\ p[Len(p)] = c
      BY <2>2 DEF Right
    <2>5. Ends(p, Ending(<<>>, c)) /\ Ending(<<>>, c)[1] = c
      BY <2>4, EndsHere
    <2>6. c \in {e \in Places(w) : e[1] = 1 \/ e[2] = 1}
      BY <1>2, <1>5
    <2> QED
      BY <2>1, <2>3, <2>5, <2>6
  <1>6. CASE i # 1 /\ j # 1
    <2> DEFINE e == Came(g, i, j)
               b == Previous(g, o)
    <2>0. Dist(g, i, j) # Infinity
      BY <1>2
    <2>1. /\ e \in Before(w, i, j) /\ Far(g, e) # Infinity
          /\ Dist(g, i, j) = Far(g, e) + Weight(e, c) * d
      BY <1>6, <2>0, StepTaken
    <2>2. o[1] # 0 /\ o[2] # 0 /\ o[1] + 1 = i /\ o[2] + 1 = j
      BY <1>1, <1>3, <1>6
    <2>3. /\ b \in Positions(Rows(w), Columns(w))
          /\ b[1] + 1 = e[1] /\ b[2] + 1 = e[2]
      <3> HIDE DEF o
      <3>1. /\ Previous(g, o) \in Positions(Rows(w), Columns(w))
            /\ Previous(g, o)[1] + 1 = Came(g, o[1] + 1, o[2] + 1)[1]
            /\ Previous(g, o)[2] + 1 = Came(g, o[1] + 1, o[2] + 1)[2]
        BY <1>3, <2>2, PreviousIs, ZenonT(60)
      <3>2. Came(g, o[1] + 1, o[2] + 1) = e
        BY <2>2
      <3>3. Previous(g, o) = b
        OBVIOUS
      <3> HIDE DEF b, e
      <3> QED
        BY <3>1, <3>2, <3>3, Zenon
    <2>4. e \in Places(w) /\ e[1] \in 1..Rows(w) /\ e[2] \in 1..Columns(w) /\ e = <<e[1], e[2]>>
      BY <2>1 DEF Before, Places
    <2> HIDE DEF c, o, e, b, d
    <2>5. b[1] \in Int /\ b[2] \in Int /\ b = <<b[1], b[2]>>
      BY <2>3 DEF Positions
    <2>6. e[1] - 1 = b[1] /\ e[2] - 1 = b[2] /\ e = Raised(b)
      BY <1>1, <2>3, <2>4, <2>5 DEF Raised
    <2>7. <<e[1] - 1, e[2] - 1>> = b
      BY <2>5, <2>6
    <2>8. /\ Ending(path[b], e)[1] \in {x \in Places(w) : x[1] = 1 \/ x[2] = 1}
          /\ \E p \in Ways(w)[e] : Cost(w, p) = Far(g, e) /\ Ends(p, Ending(path[b], e))
      <3>1. Traced(w, g, path, e)
        BY <2>1
      <3> QED
        BY <2>1, <2>7, <3>1 DEF Traced
    <2>9. PICK p \in Ways(w)[e] : Cost(w, p) = Far(g, e) /\ Ends(p, Ending(path[b], e))
      BY <2>8
    <2>10. Right(w, g, e)
      BY <2>4, RightEverywhere
    <2>11. p \in Seq(Places(w))
      BY <2>10 DEF Right
    <2>12. Cost(w, Append(p, c)) = Far(g, c)
      <3>1. Cost(w, Append(p, c)) = Cost(w, p) + Weight(e, c) * d
        BY <1>2, <2>10, LongerWay
      <3> QED
        BY <1>2, <2>1, <2>9, <3>1
    <2>13. path[o] = Append(path[b], b)
      BY <1>4, <2>2 DEF b
    <2>14. path[b] \in Seq(Positions(Rows(w), Columns(w)))
      BY <2>3, PathsType
    <2>15. /\ Ends(Append(p, c), Ending(path[o], c))
           /\ Ending(path[o], c)[1] = Ending(path[b], e)[1]
      <3> DEFINE q == path[b]
      <3>1. q \in Seq(Positions(Rows(w), Columns(w))) /\ Ends(p, Ending(q, e))
        BY <2>9, <2>14
      <3> HIDE DEF q
      <3>2. /\ Ends(Append(p, c), Ending(Append(q, b), c))
            /\ Ending(Append(q, b), c)[1] = Ending(q, e)[1]
        BY <1>2, <2>3, <2>6, <2>11, <3>1, EndsAfter
      <3> QED
        BY <2>13, <3>2 DEF q
    <2>16. Append(p, c) \in Ways(w)[c]
      <3>1. InCorridor(i, j, Rows(w), Columns(w), w.r)
        <4>1. Inner(w, g, i, j)
          BY CellsAre
        <4> QED
          BY <2>0, <4>1 DEF Inner
      <3>2. Ways(w)[<<i, j>>] = {Append(q, <<i, j>>) : q \in UNION {Ways(w)[x] : x \in Before(w, i, j)}}
        BY <1>1, <1>6, <3>1, WaysAre
      <3>3. Ways(w)[c] = {Append(q, c) : q \in UNION {Ways(w)[x] : x \in Before(w, i, j)}}
        BY <3>2 DEF c
      <3> QED
        BY <2>1, <3>3
    <2> QED
      BY <2>8, <2>12, <2>15, <2>16
  <1> QED
    BY <1>5, <1>6

\* So it is of every cell.
LEMMA TracedEverywhere ==
  ASSUME NEW w, NEW g, NEW path, Warped(w), MatrixOf(w, g), path = Paths(g, Rows(w), Columns(w))
  PROVE  \A c \in Places(w) : Traced(w, g, path, c)
  <1> DEFINE D == Places(w)
             rank == Steps(D)
             T == {c \in D : Traced(w, g, path, c)}
  <1>1. Rows(w) \in Nat \ {0} /\ Columns(w) \in Nat \ {0}
    BY WarpedType
  <1>2. \A c \in D : c = <<c[1], c[2]>> /\ c[1] \in 1..Rows(w) /\ c[2] \in 1..Columns(w)
    BY DEF Places
  <1>3. \A i \in 1..Rows(w), j \in 1..Columns(w) : <<i, j>> \in D => rank[<<i, j>>] = i + j
    BY DEF Steps, Places
  <1>4. rank \in [D -> Nat]
    BY <1>1 DEF Steps, Places
  <1> HIDE DEF D, rank
  <1>5. ASSUME NEW c \in D, \A e \in D : rank[e] < rank[c] => e \in T PROVE c \in T
    <2> DEFINE i == c[1]
               j == c[2]
    <2>1. i \in 1..Rows(w) /\ j \in 1..Columns(w) /\ c = <<i, j>>
      BY <1>2
    <2> HIDE DEF i, j
    <2>2. ASSUME NEW e \in Before(w, i, j) PROVE Traced(w, g, path, e)
      <3>1. e \in D /\ (e = <<i, j-1>> \/ e = <<i-1, j-1>> \/ e = <<i-1, j>>)
        BY Zenon DEF Before, D
      <3>2. e = <<e[1], e[2]>> /\ e[1] \in 1..Rows(w) /\ e[2] \in 1..Columns(w)
        BY <1>2, <3>1
      <3>3. rank[e] = e[1] + e[2] /\ rank[c] = i + j
        BY <1>3, <2>1, <3>1, <3>2
      <3>4. \/ e[1] = i /\ e[2] = j - 1
            \/ e[1] = i - 1 /\ e[2] = j - 1
            \/ e[1] = i - 1 /\ e[2] = j
        BY <3>1
      <3>5. i \in Nat /\ j \in Nat
        BY <1>1, <2>1
      <3>6. rank[e] < rank[c]
        BY <3>3, <3>4, <3>5
      <3>7. e \in T
        BY <1>5, <3>1, <3>6
      <3> QED
        BY <3>7
    <2>3. Traced(w, g, path, <<i, j>>)
      BY <2>1, <2>2, TracedAt
    <2> QED
      BY <2>1, <2>3
  <1> HIDE DEF T
  <1>6. \A c \in D : c \in T
    BY <1>4, <1>5, RankInduction
  <1> QED
    BY <1>6 DEF T, D

\* What ends a path is a part of it.
LEMMA EndsIsSubSeq ==
  ASSUME NEW S, NEW p, NEW t, p \in Seq(S), Len(t) \in Nat \ {0}, t = [k \in 1..Len(t) |-> t[k]], Ends(p, t)
  PROVE  Len(t) <= Len(p) /\ SubSeq(p, Len(p) - Len(t) + 1, Len(p)) = t
  <1> DEFINE m == Len(p)
             n == Len(t)
             l == (m - n) + 1
  <1>1. m \in Nat /\ n \in Nat \ {0} /\ n <= m
    BY DEF Ends
  <1>2. \A k \in 1..n : p[(m - n) + k] = t[k]
    BY DEF Ends
  <1> HIDE DEF m, n
  <1>3. l \in 1..m /\ m \in 1..m /\ l <= m /\ (m - l) + 1 = n
    BY <1>1
  <1> HIDE DEF l
  <1>4. /\ SubSeq(p, l, m) = [k \in 1..Len(SubSeq(p, l, m)) |-> SubSeq(p, l, m)[k]]
        /\ Len(SubSeq(p, l, m)) = (m - l) + 1
        /\ \A k \in 1..(m - l) + 1 : SubSeq(p, l, m)[k] = p[(l - 1) + k]
    BY <1>3 DEF m
  <1>5. \A k \in 1..n : (l - 1) + k = (m - n) + k
    BY <1>1 DEF l
  <1>6. SubSeq(p, l, m) = t
    <2> DEFINE u == SubSeq(p, l, m)
    <2>1. u = [k \in 1..n |-> u[k]]
      BY <1>3, <1>4
    <2>2. t = [k \in 1..n |-> t[k]]
      BY DEF n
    <2>3. ASSUME NEW k \in 1..n PROVE u[k] = t[k]
      <3>1. u[k] = p[(l - 1) + k]
        BY <1>3, <1>4
      <3>2. (l - 1) + k = (m - n) + k
        BY <1>5
      <3> HIDE DEF u
      <3> QED
        BY <1>2, <3>1, <3>2
    <2> HIDE DEF u
    <2>4. u = t
      BY <2>1, <2>2, <2>3
    <2> QED
      BY <2>4 DEF u
  <1>7. Len(p) - Len(t) + 1 = l
    BY <1>1 DEF l, m, n
  <1> QED
    BY <1>1, <1>6, <1>7 DEF m, n

\* The last position is that of the last cell.
LEMMA LeastPath ==
  ASSUME NEW w, Warped(w)
  PROVE  /\ w.dist # Infinity => HasLeastPath(w)
         /\ Lost \notin Range(w.path)
  <1>1. PICK g : MatrixOf(w, g)
    BY HasMatrix
  <1> DEFINE I == Rows(w)
             J == Columns(w)
             c == <<I, J>>
             path == Paths(g, I, J)
             o == <<I - 1, J - 1>>
             q == path[o]
  <1>2. I \in Nat \ {0} /\ J \in Nat \ {0}
    BY WarpedType
  <1>3. o \in Positions(I, J) /\ c \in Places(w) /\ c[1] = I /\ c[2] = J
    BY <1>2 DEF Positions, Places
  <1>4. q \in Seq(Positions(I, J))
    BY <1>1, <1>3, PathsType
  <1>5. w.path = q
    BY <1>1, WarpIs, PathsAre
  <1>6. w.dist = Far(g, c) /\ Warpings(w) = Ways(w)[c]
    BY <1>1, WarpIs, WarpingsAreWays DEF Far, Rows, Columns
  <1>7. Lost \notin Range(w.path)
    <2> HIDE DEF q
    <2>1. Range(q) \subseteq Positions(I, J)
      BY <1>4 DEF Range
    <2>2. Lost \notin Positions(I, J)
      <3>1. -1 \notin 0..I-1
        BY <1>2
      <3> QED
        BY <3>1 DEF Positions, Lost
    <2> QED
      BY <1>5, <2>1, <2>2
  <1>8. ASSUME w.dist # Infinity PROVE HasLeastPath(w)
    <2> DEFINE t == Ending(q, c)
    <2>1. Traced(w, g, path, c)
      BY <1>1, <1>3, TracedEverywhere
    <2>2. /\ t[1] \in {e \in Places(w) : e[1] = 1 \/ e[2] = 1}
          /\ \E p \in Ways(w)[c] : Cost(w, p) = Far(g, c) /\ Ends(p, t)
      <3>1. <<c[1] - 1, c[2] - 1>> = o
        BY <1>3
      <3> HIDE DEF c, o, path
      <3> QED
        BY <1>6, <1>8, <2>1, <3>1 DEF Traced
    <2>3. PICK p \in Ways(w)[c] : Cost(w, p) = Far(g, c) /\ Ends(p, t)
      BY <2>2
    <2>4. p \in Seq(Places(w))
      <3>1. Right(w, g, c)
        BY <1>1, <1>3, RightEverywhere
      <3> HIDE DEF c
      <3> QED
        BY <3>1 DEF Right
    <2>5. Len(t) \in Nat \ {0} /\ t = [k \in 1..Len(t) |-> t[k]]
      <3> HIDE DEF q
      <3>1. Len(q) \in Nat
        BY <1>4
      <3>2. Len(t) = Len(q) + 1
        BY <1>4, EndingIs
      <3>3. t = [k \in 1..Len(q)+1 |-> t[k]]
        BY DEF Ending
      <3> HIDE DEF t
      <3> QED
        BY <3>1, <3>2, <3>3
    <2> HIDE DEF q, c, o, path
    <2>6. t = [k \in 1..Len(w.path)+1 |->
                 IF k > Len(w.path) THEN <<Len(w.a), Len(w.b)>> ELSE <<w.path[k][1] + 1, w.path[k][2] + 1>>]
      <3>1. c = <<Len(w.a), Len(w.b)>>
        BY DEF c, Rows, Columns
      <3> QED
        BY <1>5, <3>1 DEF Ending, Raised
    <2>7. t[1][1] = 1 \/ t[1][2] = 1
      BY <2>2
    <2> HIDE DEF t
    <2>8. Len(t) <= Len(p) /\ SubSeq(p, Len(p) - Len(t) + 1, Len(p)) = t
      BY <2>3, <2>4, <2>5, EndsIsSubSeq
    <2>9. p \in Warpings(w) /\ Cost(w, p) = w.dist
      BY <1>6, <2>3
    <2>10. \E x \in Warpings(w) :
             /\ Cost(w, x) = w.dist
             /\ Len(t) <= Len(x)
             /\ SubSeq(x, Len(x) - Len(t) + 1, Len(x)) = t
      BY <2>8, <2>9
    <2> QED
      BY <2>6, <2>7, <2>10, Zenon DEF HasLeastPath
  <1> QED
    BY <1>7, <1>8

(* The cells of the table.                                                 *)

\* A division has no other quotient and remainder.
LEMMA DivisionUnique ==
  ASSUME NEW n, NEW m, NEW q, NEW r, m \in Nat \ {0}, q \in Nat, r \in 0..m-1, n = q * m + r
  PROVE  n \in Nat /\ n \div m = q /\ n % m = r
  <1> DEFINE o == n \div m
             s == n % m
  <1>0. n \in Nat
    <2>1. q * m \in Nat
      OBVIOUS
    <2> DEFINE x == q * m
    <2> HIDE DEF x
    <2>2. x + r \in Nat
      BY <2>1 DEF x
    <2> QED
      BY <2>2 DEF x
  <1> HIDE DEF o, s
  <1>1. o \in Nat /\ s \in 0..m-1 /\ n = o * m + s
    <2>1. Divides(n, m, o, s)
      BY <1>0, DivisionIs DEF o, s
    <2> QED
      BY <2>1 DEF Divides
  <1>2. o = q
    <2>1. ASSUME NEW x \in Nat, NEW y \in Nat, NEW t \in 0..m-1, NEW u \in 0..m-1,
                 x * m + t = y * m + u, x < y
          PROVE  FALSE
      <3>1. PICK k \in Nat : y = x + 1 + k
        <4>1. y - x - 1 \in Nat /\ y = x + 1 + (y - x - 1)
          BY <2>1
        <4> QED
          BY <4>1
      <3>2. y * m = x * m + m + k * m /\ k * m \in Nat /\ x * m \in Nat
        BY <3>1
      <3> DEFINE p == x * m
                 l == k * m
      <3>3. p + t = p + m + l + u /\ p \in Nat /\ l \in Nat
        BY <2>1, <3>2
      <3> HIDE DEF p, l
      <3> QED
        BY <3>3
    <2>2. ~(o < q) /\ ~(q < o)
      BY <1>1, <2>1
    <2> QED
      BY <1>1, <2>2
  <1>3. s = r
    <2> DEFINE p == q * m
    <2>1. p \in Nat /\ n = p + r /\ n = p + s
      BY <1>1, <1>2
    <2> HIDE DEF p
    <2> QED
      BY <1>1, <2>1
  <1> QED
    BY <1>0, <1>2, <1>3 DEF o, s

\* The number of the cell of two samples: of speaker k and l, with a and b.
Number(S, M, k, l, a, b) == ((k * S + l) * M + a) * M + b

\* A digit more.
LEMMA MoreThan ==
  ASSUME NEW q, NEW Q, NEW m, NEW r, q \in Nat, Q \in Nat, m \in Nat \ {0}, r \in 0..m-1, q < Q
  PROVE  q * m + r \in Nat /\ q * m + r < Q * m
  <1>1. PICK k \in Nat : Q = q + 1 + k
    <2>1. Q - q - 1 \in Nat /\ Q = q + 1 + (Q - q - 1)
      OBVIOUS
    <2> QED
      BY <2>1
  <1>2. Q * m = q * m + m + k * m /\ k * m \in Nat /\ q * m \in Nat
    BY <1>1
  <1> DEFINE p == q * m
             l == k * m
  <1>3. Q * m = p + m + l /\ p \in Nat /\ l \in Nat
    BY <1>2
  <1> HIDE DEF p, l
  <1>4. p + r \in Nat /\ p + r < p + m + l
    BY <1>3
  <1> QED
    BY <1>3, <1>4 DEF p

\* The samples of a cell are the digits of its number.
LEMMA Digits ==
  ASSUME NEW S, NEW M, NEW k, NEW l, NEW a, NEW b, NEW n,
         S \in Nat \ {0}, M \in Nat \ {0}, k \in 0..S-1, l \in 0..S-1, a \in 0..M-1, b \in 0..M-1,
         n = Number(S, M, k, l, a, b)
  PROVE  /\ n \in Nat /\ n < S * S * M * M
         /\ n \div (S * M * M) = k
         /\ (n \div (M * M)) % S = l
         /\ (n \div M) % M = a
         /\ n % M = b
  <1> DEFINE x == k * S + l
             y == x * M + a
             P == a * M + b
             Q == l * (M * M) + P
  <1>0. k \in Nat /\ l \in Nat /\ a \in Nat /\ b \in Nat /\ k < S /\ l < S /\ a < M /\ b < M
    OBVIOUS
  <1>1. x \in Nat /\ x < S * S
    BY <1>0, MoreThan
  <1>2. S * S \in Nat
    OBVIOUS
  <1>3. y \in Nat /\ y < S * S * M
    <2> DEFINE T == S * S
    <2> HIDE DEF x, T
    <2>1. x \in Nat /\ T \in Nat /\ x < T
      BY <1>1, <1>2 DEF T
    <2>2. x * M + a \in Nat /\ x * M + a < T * M
      BY <2>1, MoreThan
    <2> QED
      BY <2>2 DEF T
  <1>4. S * S * M \in Nat
    BY <1>2
  <1>5. n = y * M + b /\ n \in Nat /\ n < S * S * M * M
    <2> DEFINE T == S * S * M
    <2>0. n = y * M + b
      BY DEF Number
    <2> HIDE DEF y, T
    <2>1. y \in Nat /\ T \in Nat /\ y < T
      BY <1>3, <1>4 DEF T
    <2>2. y * M + b \in Nat /\ y * M + b < T * M
      BY <2>1, MoreThan
    <2> QED
      BY <2>0, <2>2 DEF T
  <1>6. n \div M = y /\ n % M = b
    <2> HIDE DEF y
    <2> QED
      BY <1>3, <1>5, DivisionUnique
  <1>7. (n \div M) % M = a
    <2> HIDE DEF x
    <2>1. y % M = a
      BY <1>1, DivisionUnique
    <2> QED
      BY <1>6, <2>1
  <1>8. M * M \in Nat \ {0} /\ P \in 0..(M*M)-1
    <2>1. M * M \in Nat \ {0}
      OBVIOUS
    <2>2. P \in Nat /\ P < M * M
      BY <1>0, MoreThan
    <2> DEFINE T == M * M
    <2> HIDE DEF T, P
    <2>3. P \in 0..T-1
      BY <2>1, <2>2 DEF T
    <2> QED
      BY <2>1, <2>3 DEF T
  <1>9. n = x * (M * M) + P
    <2> HIDE DEF x
    <2>1. n = (x * M + a) * M + b
      BY <1>5
    <2>2. (x * M + a) * M = x * (M * M) + a * M
      BY <1>1
    <2> DEFINE u == x * (M * M)
               v == a * M
    <2>3. u \in Nat /\ v \in Nat
      BY <1>1
    <2> HIDE DEF u, v
    <2>4. n = (u + v) + b /\ P = v + b
      BY <2>1, <2>2 DEF u, v
    <2>5. n = u + P
      BY <1>0, <2>3, <2>4
    <2> QED
      BY <2>5 DEF u
  <1>10. (n \div (M * M)) % S = l
    <2>1. n \div (M * M) = x
      <3> DEFINE T == M * M
      <3> HIDE DEF x, P, T
      <3>1. n = x * T + P /\ T \in Nat \ {0} /\ P \in 0..T-1
        BY <1>8, <1>9 DEF T
      <3>2. n \div T = x
        BY <1>1, <3>1, DivisionUnique
      <3> QED
        BY <3>2 DEF T
    <2>2. x % S = l
      BY <1>0, DivisionUnique
    <2> QED
      BY <2>1, <2>2
  <1>11. n \div (S * M * M) = k
    <2> DEFINE T == M * M
    <2>1. T \in Nat \ {0} /\ P \in 0..T-1
      BY <1>8
    <2> HIDE DEF T, P
    <2>2. Q = l * T + P
      BY DEF T
    <2>3. l * T + P \in Nat /\ l * T + P < S * T
      BY <1>0, <2>1, MoreThan
    <2>4. S * T \in Nat \ {0}
      BY <2>1
    <2>5. S * M * M = S * T
      BY DEF T
    <2>6. n = k * (S * T) + Q
      <3>1. n = (k * S + l) * T + P
        BY <1>9 DEF T
      <3>2. (k * S + l) * T = k * (S * T) + l * T
        BY <1>0, <2>1
      <3> DEFINE u == k * (S * T)
                 v == l * T
      <3>3. u \in Nat /\ v \in Nat
        BY <1>0, <2>1
      <3>4. n = (u + v) + P /\ Q = v + P
        BY <2>2, <3>1, <3>2
      <3> HIDE DEF u, v
      <3>5. n = u + Q
        BY <2>1, <3>3, <3>4
      <3> QED
        BY <3>5 DEF u
    <2> DEFINE U == S * T
    <2> HIDE DEF Q, U
    <2>7. U \in Nat \ {0} /\ Q \in 0..U-1 /\ n = k * U + Q
      BY <2>2, <2>3, <2>4, <2>6 DEF U
    <2>8. n \div U = k
      BY <1>0, <2>7, DivisionUnique
    <2> QED
      BY <2>5, <2>8 DEF U
  <1> QED
    BY <1>5, <1>6, <1>7, <1>10, <1>11

\* If it has less digits the number is smaller.
LEMMA QuotientLess ==
  ASSUME NEW n, NEW m, NEW Q, n \in Nat, m \in Nat \ {0}, Q \in Nat, n < Q * m
  PROVE  Divides(n, m, n \div m, n % m) /\ n \div m < Q
  <1> DEFINE q == n \div m
             r == n % m
  <1> HIDE DEF q, r
  <1>0. Divides(n, m, q, r)
    BY DivisionIs DEF q, r
  <1>1. q \in Nat /\ r \in 0..m-1 /\ n = q * m + r
    BY <1>0 DEF Divides
  <1>2. q < Q
    <2> SUFFICES ASSUME Q <= q PROVE FALSE
      BY <1>1
    <2>1. PICK k \in Nat : q = Q + k
      <3>1. q - Q \in Nat /\ q = Q + (q - Q)
        BY <1>1
      <3> QED
        BY <3>1
    <2>2. q * m = Q * m + k * m /\ k * m \in Nat /\ Q * m \in Nat
      BY <2>1
    <2> DEFINE p == Q * m
               l == k * m
    <2>3. n = (p + l) + r /\ l \in Nat /\ p \in Nat /\ n < p
      BY <1>1, <2>2
    <2> HIDE DEF p, l
    <2> QED
      BY <1>1, <2>3
  <1> QED
    BY <1>0, <1>2, Zenon DEF q, r

\* Each number is that of a cell.
IsNumber(S, M, n) == \E k, l \in 0..S-1, a, b \in 0..M-1 : n = Number(S, M, k, l, a, b)

\* Every number below the product of the four digits has digits.
LEMMA Numbered ==
  ASSUME NEW S, NEW M, NEW n, S \in Nat, M \in Nat, n \in Nat, n < S * S * M * M
  PROVE  S # 0 /\ M # 0 /\ IsNumber(S, M, n)
  <1>1. S # 0 /\ M # 0
    <2>1. CASE S = 0
      <3>1. S * S * M * M = 0
        BY <2>1
      <3> QED
        BY <3>1
    <2>2. CASE M = 0
      <3>1. S * S * M * M = 0
        BY <2>2
      <3> QED
        BY <3>1
    <2> QED
      BY <2>1, <2>2
  <1> DEFINE y == n \div M
             x == y \div M
             k == x \div S
             l == x % S
             a == y % M
             b == n % M
  <1>2. y \in Nat /\ y < S * S * M /\ b \in 0..M-1 /\ n = y * M + b
    <2> DEFINE Q == S * S * M
    <2>1. Q \in Nat /\ n < Q * M
      OBVIOUS
    <2> HIDE DEF Q, y, b
    <2>2. Divides(n, M, y, b) /\ y < Q
      BY <1>1, <2>1, QuotientLess DEF y, b
    <2> QED
      BY <2>2 DEF Q, Divides
  <1> HIDE DEF y, b
  <1>3. x \in Nat /\ x < S * S /\ a \in 0..M-1 /\ y = x * M + a
    <2> DEFINE Q == S * S
    <2>1. Q \in Nat /\ y < Q * M
      BY <1>2
    <2> HIDE DEF Q, x, a
    <2>2. Divides(y, M, x, a) /\ x < Q
      BY <1>1, <1>2, <2>1, QuotientLess DEF x, a
    <2> QED
      BY <2>2 DEF Q, Divides
  <1> HIDE DEF x, a
  <1>4. k \in Nat /\ k < S /\ l \in 0..S-1 /\ x = k * S + l
    <2> HIDE DEF k, l
    <2>1. Divides(x, S, k, l) /\ k < S
      BY <1>1, <1>3, QuotientLess DEF k, l
    <2> QED
      BY <2>1 DEF Divides
  <1> HIDE DEF k, l
  <1>5. k \in 0..S-1 /\ n = Number(S, M, k, l, a, b)
    BY <1>2, <1>3, <1>4 DEF Number
  <1> QED
    BY <1>1, <1>2, <1>3, <1>4, <1>5 DEF IsNumber

(* The pair of a cell, of S speakers and M samples.                        *)
RowOf(S, M, n) == <<n \div (S * M * M), (n \div M) % M>>
ColumnOf(S, M, n) == <<(n \div (M * M)) % S, n % M>>

\* The number of a pair is that of the cell of the pair.
LEMMA PairOfNumber ==
  ASSUME NEW S, NEW M, NEW k, NEW l, NEW a, NEW b,
         S \in Nat \ {0}, M \in Nat \ {0}, k \in 0..S-1, l \in 0..S-1, a \in 0..M-1, b \in 0..M-1
  PROVE  /\ Number(S, M, k, l, a, b) \in Nat
         /\ Number(S, M, k, l, a, b) < S * S * M * M
         /\ RowOf(S, M, Number(S, M, k, l, a, b)) = <<k, a>>
         /\ ColumnOf(S, M, Number(S, M, k, l, a, b)) = <<l, b>>
  <1> DEFINE n == Number(S, M, k, l, a, b)
  <1> HIDE DEF n
  <1>1. /\ n \in Nat /\ n < S * S * M * M
        /\ n \div (S * M * M) = k
        /\ (n \div (M * M)) % S = l
        /\ (n \div M) % M = a
        /\ n % M = b
    BY Digits DEF n
  <1>2. RowOf(S, M, n) = <<k, a>> /\ ColumnOf(S, M, n) = <<l, b>>
    BY <1>1, Zenon DEF RowOf, ColumnOf
  <1> QED
    BY <1>1, <1>2 DEF n

\* A cell of the table is that of a pair of samples, which has no other cell.
LEMMA NumberOfPair ==
  ASSUME NEW S, NEW M, NEW n, S \in Nat, M \in Nat, n \in Nat, n < S * S * M * M
  PROVE  /\ S # 0 /\ M # 0
         /\ RowOf(S, M, n) \in (0..S-1) \X (0..M-1)
         /\ ColumnOf(S, M, n) \in (0..S-1) \X (0..M-1)
         /\ n = Number(S, M, RowOf(S, M, n)[1], ColumnOf(S, M, n)[1], RowOf(S, M, n)[2], ColumnOf(S, M, n)[2])
  <1>1. S # 0 /\ M # 0 /\ IsNumber(S, M, n)
    BY Numbered
  <1>2. PICK k \in 0..S-1, l \in 0..S-1, a \in 0..M-1, b \in 0..M-1 : n = Number(S, M, k, l, a, b)
    BY <1>1 DEF IsNumber
  <1>3. RowOf(S, M, n) = <<k, a>> /\ ColumnOf(S, M, n) = <<l, b>>
    BY <1>1, <1>2, PairOfNumber
  <1> DEFINE x == RowOf(S, M, n)
             y == ColumnOf(S, M, n)
  <1> HIDE DEF x, y
  <1>4. x = <<k, a>> /\ y = <<l, b>>
    BY <1>3 DEF x, y
  <1>5. /\ x \in (0..S-1) \X (0..M-1) /\ y \in (0..S-1) \X (0..M-1)
        /\ n = Number(S, M, x[1], y[1], x[2], y[2])
    BY <1>2, <1>4
  <1> QED
    BY <1>1, <1>5 DEF x, y

(* The benchmark.                                                          *)

\* What is assumed of the corpora.
LEMMA CorpusType ==
  ASSUME NEW c, c \in Corpora
  PROVE  /\ c.speakers \in Nat /\ c.samples \in Nat
         /\ c.features \in [Samples(c) -> Seq(FeatureVector)]
         /\ c.r \in Nat \ {0} /\ c.nan \in Nat \cup {NaN}
  BY CorporaAssumption

\* Each cell is of two samples of the corpus.
LEMMA CellsAreNumbers ==
  ASSUME corpus \in Corpora
  PROVE  /\ Cells \in Nat
         /\ \A n \in 0..Cells-1 : Row(n) \in Samples(corpus) /\ Column(n) \in Samples(corpus)
  <1> DEFINE S == corpus.speakers
             M == corpus.samples
  <1>1. S \in Nat /\ M \in Nat
    BY CorpusType
  <1>2. Cells = S * S * M * M /\ Samples(corpus) = (0..S-1) \X (0..M-1)
    BY DEF Cells, Samples
  <1>3. \A n : Row(n) = RowOf(S, M, n) /\ Column(n) = ColumnOf(S, M, n)
    BY Zenon DEF Row, Column, RowOf, ColumnOf
  <1> HIDE DEF S, M
  <1>4. Cells \in Nat
    BY <1>1, <1>2
  <1>5. ASSUME NEW n \in 0..Cells-1
        PROVE  Row(n) \in Samples(corpus) /\ Column(n) \in Samples(corpus)
    <2>1. n \in Nat /\ n < S * S * M * M
      BY <1>2, <1>4
    <2> QED
      BY <1>1, <1>2, <1>3, <2>1, NumberOfPair
  <1> QED
    BY <1>4, <1>5

\* What is calculated of two files that have features.
LEMMA WarpFields ==
  ASSUME NEW a, NEW b, NEW r, NEW nan, NEW w, w = Warp(a, b, r, nan)
  PROVE  w.a = a /\ w.b = b /\ w.r = r /\ w # NoDTW
  BY DEF Warp, NoDTW

\* The distance is one.
LEMMA WarpDistance ==
  ASSUME NEW a, NEW b, NEW r, NEW nan, Sequences(a, b, r, nan)
  PROVE  Warp(a, b, r, nan).dist \in Distances
  <1> DEFINE g == Global(a, b, r, nan)
             I == Len(a)
             J == Len(b)
  <1>1. I \in Nat /\ J \in Nat
    BY DEF Sequences
  <1> HIDE DEF g
  <1>2. \A i \in 0..I, j \in 0..J : g[<<i, j>>] \in Entries
    BY GlobalEquation DEF g
  <1>3. I \in 0..I /\ J \in 0..J
    BY <1>1
  <1>4. g[<<I, J>>].dist \in Distances
    BY <1>2, <1>3 DEF Entries
  <1> DEFINE w == Warp(a, b, r, nan)
  <1> HIDE DEF w
  <1>5. w.dist = g[<<I, J>>].dist
    BY DEF w, g, Warp
  <1> QED
    BY <1>4, <1>5 DEF w

\* Without a NaN, it is not NaN.
LEMMA WarpComparable ==
  ASSUME NEW a, NEW b, NEW r, NEW nan, Sequences(a, b, r, nan),
         Undefined \notin Range(a), Undefined \notin Range(b)
  PROVE  Warped(Warp(a, b, r, nan)) /\ Warp(a, b, r, nan).dist \in Lengths
  <1>0. PICK w : w = Warp(a, b, r, nan)
    OBVIOUS
  <1>1. w.a = a /\ w.b = b /\ w.r = r
    BY <1>0, WarpFields
  <1>2. w = Warp(w.a, w.b, w.r, nan) /\ Sequences(w.a, w.b, w.r, nan) /\ nan \in Nat \cup {NaN}
    BY <1>0, <1>1 DEF Sequences
  <1>3. Warped(w)
    BY <1>1, <1>2 DEF Warped, Comparable
  <1>4. PICK g : MatrixOf(w, g)
    BY <1>3, HasMatrix
  <1>5. Rows(w) \in 0..Rows(w) /\ Columns(w) \in 0..Columns(w)
    BY <1>3, WarpedType
  <1>6. w.dist \in Lengths
    BY <1>3, <1>4, <1>5, CellsType, WarpIs
  <1> QED
    BY <1>0, <1>3, <1>6

\* The cell is of a pair that is compared, or of a sample and itself.
Compared(n) == Row(n)[1] <= Column(n)[1] /\ Row(n)[2] <= Column(n)[2]

AllDefined == \A s \in Samples(corpus) : Undefined \notin Range(corpus.features[s])

\* The cells that were left out are those that are not compared.
Filled == AllDefined => \A n \in 0..cell-1 : table[n+1] = NaN <=> ~Compared(n)

\* The distance was calculated of two files of the corpus.
OfFiles ==
  dtw # NoDTW =>
    \E s, t \in Samples(corpus) :
      /\ corpus.features[s] # <<>> /\ corpus.features[t] # <<>>
      /\ dtw = Warp(corpus.features[s], corpus.features[t], corpus.r, corpus.nan)

Completed == status = "done" => cell = Cells

\* The inductive invariant.
Inv ==
  /\ corpus \in Corpora /\ table \in Seq(Distances)
  /\ TypeOK
  /\ ExtractedOnce
  /\ Completed
  /\ Filled
  /\ OfFiles

\* It holds at first.
LEMMA InitInv == Init => Inv
  <1> SUFFICES ASSUME Init PROVE Inv
    OBVIOUS
  <1>1. corpus \in Corpora /\ cache = <<>> /\ tables = 0 /\ cell = 0 /\ table = <<>> /\ status = "none"
        /\ dtw = NoDTW /\ reads = [s \in Samples(corpus) |-> 0]
    BY DEF Init
  <1>2. Cells \in Nat /\ MaxTables \in Nat
    BY <1>1, CellsAreNumbers, CorporaAssumption
  <1>3. DOMAIN cache = {} /\ Len(table) = 0 /\ table \in Seq(Distances)
    BY <1>1
  <1>4. TypeOK
    BY <1>1, <1>2, <1>3 DEF TypeOK
  <1>5. ExtractedOnce
    BY <1>1, <1>3 DEF ExtractedOnce
  <1>6. Completed /\ Filled /\ OfFiles
    BY <1>1 DEF Completed, Filled, OfFiles
  <1> QED
    BY <1>1, <1>3, <1>4, <1>5, <1>6 DEF Inv

\* What of the definitions is the same while the corpus is.
LEMMA SameCorpus ==
  ASSUME corpus' = corpus
  PROVE  /\ Cells' = Cells /\ Samples(corpus)' = Samples(corpus) /\ AllDefined' = AllDefined
         /\ \A n : Compared(n)' = Compared(n)
  <1>1. Cells' = Cells
    BY DEF Cells
  <1>2. Samples(corpus)' = Samples(corpus)
    BY DEF Samples
  <1>3. AllDefined' = AllDefined
    BY <1>2 DEF AllDefined
  <1>4. \A n : Compared(n)' = Compared(n)
    BY DEF Compared, Row, Column
  <1> QED
    BY <1>1, <1>2, <1>3, <1>4

\* The state of the table, by itself.
TableOK ==
  /\ table \in Seq(Distances) /\ tables \in 0..MaxTables /\ cell \in 0..Cells /\ Len(table) = cell
  /\ status \in {"none", "filling", "done", "empty", "unreadable"}
  /\ Completed
  /\ Filled

\* The state of the cache.
CacheOK ==
  /\ DOMAIN cache \subseteq Samples(corpus)
  /\ reads \in [Samples(corpus) -> Nat]
  /\ ExtractedOnce

\* The invariant is that of the table, of the cache and of the last distance.
LEMMA Parts == Inv <=> corpus \in Corpora /\ TableOK /\ CacheOK /\ OfFiles
  <1>1. TableOK => \A n \in 1..cell : table[n] \in Nat \cup {NaN, Infinity}
    BY DEF TableOK, Distances
  <1> QED
    BY <1>1 DEF Inv, TableOK, CacheOK, TypeOK

\* So it is after a step.
LEMMA PartsAfter ==
  ASSUME corpus \in Corpora, corpus' = corpus, TableOK', CacheOK', OfFiles'
  PROVE  Inv'
  <1>1. (\A n \in 1..cell : table[n] \in Nat \cup {NaN, Infinity})'
    BY DEF TableOK, Distances
  <1> QED
    BY <1>1 DEF Inv, TableOK, CacheOK, TypeOK

\* A step that fills in a cell keeps what is said of the table.
LEMMA FillKeeps ==
  ASSUME NEW d, d \in Distances, corpus \in Corpora, TableOK, status = "filling", cell < Cells, Fill(d),
         AllDefined => (d = NaN <=> ~Compared(cell))
  PROVE  TableOK'
  <1>1. /\ table \in Seq(Distances) /\ tables \in 0..MaxTables /\ cell \in 0..Cells /\ Len(table) = cell
        /\ table' = Append(table, d) /\ cell' = cell + 1
        /\ corpus' = corpus /\ tables' = tables /\ status' = status
    BY DEF TableOK, Fill
  <1>2. Cells' = Cells /\ AllDefined' = AllDefined /\ \A n : Compared(n)' = Compared(n)
    BY <1>1, SameCorpus
  <1>3. Cells \in Nat
    BY CellsAreNumbers
  <1>4. table' \in Seq(Distances) /\ Len(table') = cell' /\ cell' \in 0..Cells'
    BY <1>1, <1>2, <1>3
  <1>5. Filled'
    <2> SUFFICES ASSUME AllDefined, NEW n \in 0..cell PROVE table'[n+1] = NaN <=> ~Compared(n)
      BY <1>1, <1>2, <1>3 DEF Filled
    <2>1. CASE n = cell
      <3>1. table'[n+1] = d
        BY <1>1, <2>1
      <3> QED
        BY <2>1, <3>1
    <2>2. CASE n # cell
      <3>1. n \in 0..cell-1 /\ table'[n+1] = table[n+1]
        BY <1>1, <1>3, <2>2
      <3> QED
        BY <3>1 DEF TableOK, Filled
    <2> QED
      BY <2>1, <2>2
  <1>6. Completed'
    BY <1>1 DEF Completed
  <1> QED
    BY <1>1, <1>4, <1>5, <1>6 DEF TableOK

\* A step that extracts the missing features keeps what is said of the cache.
LEMMA CacheKeeps ==
  ASSUME NEW missing, missing \subseteq Samples(corpus), missing \cap DOMAIN cache = {}, CacheOK,
         corpus' = corpus, cache' = Cached(missing),
         reads' = [s \in DOMAIN reads |-> IF s \in missing THEN reads[s] + 1 ELSE reads[s]]
  PROVE  CacheOK'
  <1>1. DOMAIN cache \subseteq Samples(corpus) /\ reads \in [Samples(corpus) -> Nat]
        /\ \A s \in Samples(corpus) : reads[s] <= 1 /\ (reads[s] = 1 <=> s \in DOMAIN cache)
    BY DEF CacheOK, ExtractedOnce
  <1>2. Samples(corpus)' = Samples(corpus)
    BY SameCorpus
  <1>3. DOMAIN cache' = DOMAIN cache \cup missing
    BY DEF Cached
  <1>4. reads' \in [Samples(corpus) -> Nat]
        /\ \A s \in Samples(corpus) : reads'[s] = IF s \in missing THEN reads[s] + 1 ELSE reads[s]
    BY <1>1
  <1>5. \A s \in Samples(corpus) : reads'[s] <= 1 /\ (reads'[s] = 1 <=> s \in DOMAIN cache')
    <2> TAKE s \in Samples(corpus)
    <2>1. CASE s \in missing
      <3>1. reads[s] \in Nat /\ reads[s] <= 1 /\ reads[s] # 1
        BY <1>1, <2>1
      <3> QED
        BY <1>3, <1>4, <2>1, <3>1
    <2>2. CASE s \notin missing
      BY <1>1, <1>3, <1>4, <2>2
    <2> QED
      BY <2>1, <2>2
  <1>6. ExtractedOnce'
    BY <1>4, <1>5 DEF ExtractedOnce
  <1> QED
    BY <1>1, <1>2, <1>3, <1>4, <1>6 DEF CacheOK

\* A step that extracts nothing does, too.
LEMMA CacheSame == CacheOK /\ UNCHANGED <<corpus, cache, reads>> => CacheOK'
  BY SameCorpus DEF CacheOK, ExtractedOnce

\* A step that calculates nothing keeps what is said of the last distance.
LEMMA FilesSame == OfFiles /\ UNCHANGED <<corpus, dtw>> => OfFiles'
  BY SameCorpus DEF OfFiles

\* A pair of samples.
LEMMA SampleType ==
  ASSUME corpus \in Corpora, NEW s, s \in Samples(corpus)
  PROVE  /\ s[1] \in Nat /\ s[2] \in Nat /\ s = <<s[1], s[2]>>
         /\ corpus.features[s] \in Seq(FeatureVector)
  <1> DEFINE S == corpus.speakers
             M == corpus.samples
             f == corpus.features
  <1>1. S \in Nat /\ M \in Nat /\ f \in [Samples(corpus) -> Seq(FeatureVector)]
    BY CorpusType
  <1>2. Samples(corpus) = (0..S-1) \X (0..M-1)
    BY DEF Samples
  <1> HIDE DEF S, M, f
  <1>3. s[1] \in Nat /\ s[2] \in Nat /\ s = <<s[1], s[2]>>
    BY <1>1, <1>2
  <1>4. f[s] \in Seq(FeatureVector)
    BY <1>1
  <1> QED
    BY <1>3, <1>4 DEF f

\* Every step keeps the invariant.
LEMMA NextInv ==
  ASSUME Inv, Next
  PROVE  Inv'
  <1>1. corpus \in Corpora /\ TableOK /\ CacheOK /\ OfFiles
    BY Parts
  <1>2. /\ DOMAIN cache \subseteq Samples(corpus) /\ reads \in [Samples(corpus) -> Nat]
        /\ \A s \in Samples(corpus) : reads[s] <= 1 /\ (reads[s] = 1 <=> s \in DOMAIN cache)
    BY <1>1 DEF CacheOK, ExtractedOnce
  <1>3. Cells \in Nat /\ MaxTables \in Nat
        /\ \A n \in 0..Cells-1 : Row(n) \in Samples(corpus) /\ Column(n) \in Samples(corpus)
    BY <1>1, CellsAreNumbers, CorporaAssumption
  <1>4. /\ table \in Seq(Distances) /\ tables \in 0..MaxTables /\ cell \in 0..Cells /\ Len(table) = cell
    BY <1>1 DEF TableOK
  <1>5. ASSUME Filling
        PROVE  /\ cell \in 0..Cells-1 /\ Row(cell) \in Samples(corpus) /\ Column(cell) \in Samples(corpus)
               /\ status = "filling" /\ cell < Cells
    BY <1>3, <1>4, <1>5 DEF Filling
  <1>6. ASSUME Filling, NEW what \in {"empty", "unreadable"}, Throw(what)
        PROVE  corpus' = corpus /\ TableOK' /\ OfFiles'
    <2>1. /\ corpus' = corpus /\ status' = what /\ tables' = tables /\ cell' = cell
          /\ table' = table /\ dtw' = dtw
      BY <1>6 DEF Throw
    <2>2. Cells' = Cells /\ Filled'
      BY <1>1, <2>1, SameCorpus DEF TableOK, Filled
    <2>3. TableOK'
      BY <1>4, <1>6, <2>1, <2>2 DEF TableOK, Completed
    <2> QED
      BY <1>1, <2>1, <2>3, FilesSame
  <1>7. CASE calculate_benchmark_table
    <2>1. /\ tables < MaxTables /\ tables' = tables + 1 /\ cell' = 0 /\ table' = <<>> /\ dtw' = NoDTW
          /\ status' = "filling" /\ corpus' = corpus /\ cache' = cache /\ reads' = reads
      BY <1>7 DEF calculate_benchmark_table
    <2>2. Cells' = Cells /\ Filled' /\ OfFiles' /\ Completed'
      BY <2>1, SameCorpus DEF Filled, OfFiles, Completed
    <2>3. tables' \in 0..MaxTables /\ cell' \in 0..Cells' /\ table' \in Seq(Distances) /\ Len(table') = cell'
      BY <1>3, <1>4, <2>1, <2>2
    <2>4. TableOK'
      BY <2>1, <2>2, <2>3 DEF TableOK
    <2>5. CacheOK'
      BY <1>1, <2>1, CacheSame
    <2> QED
      BY <1>1, <2>1, <2>2, <2>4, <2>5, PartsAfter
  <1>8. CASE SameUtterance
    <2>1. Filling /\ Row(cell) = Column(cell) /\ Fill(0) /\ cache' = cache /\ dtw' = dtw /\ reads' = reads
      BY <1>8 DEF SameUtterance
    <2>2. Compared(cell)
      <3> DEFINE s == Row(cell)
      <3>1. s[1] \in Nat /\ s[2] \in Nat
        BY <1>1, <1>5, <2>1, SampleType
      <3>2. Column(cell) = s
        BY <2>1
      <3> HIDE DEF s
      <3>3. s[1] <= s[1] /\ s[2] <= s[2]
        BY <3>1
      <3> QED
        BY <3>2, <3>3 DEF s, Compared
    <2>3. 0 \in Distances /\ 0 # NaN
      BY DEF Distances, NaN
    <2>4. TableOK'
      BY <1>1, <1>5, <2>1, <2>2, <2>3, FillKeeps
    <2>5. corpus' = corpus
      BY <2>1 DEF Fill
    <2> QED
      BY <1>1, <2>1, <2>4, <2>5, CacheSame, FilesSame, PartsAfter
  <1>9. CASE LeaveOut
    <2>1. /\ Filling /\ Row(cell) # Column(cell) /\ ~ToCompare
          /\ Fill(NaN) /\ cache' = cache /\ dtw' = dtw /\ reads' = reads
      BY <1>9 DEF LeaveOut
    <2>2. ~Compared(cell)
      BY <2>1 DEF ToCompare, Compared
    <2>3. NaN \in Distances
      BY DEF Distances
    <2>4. TableOK'
      BY <1>1, <1>5, <2>1, <2>2, <2>3, FillKeeps
    <2>5. corpus' = corpus
      BY <2>1 DEF Fill
    <2> QED
      BY <1>1, <2>1, <2>4, <2>5, CacheSame, FilesSame, PartsAfter
  <1>10. CASE Compare
    <2> DEFINE missing == {Row(cell), Column(cell)} \ DOMAIN cache
               a == corpus.features[Row(cell)]
               b == corpus.features[Column(cell)]
    <2>1. /\ Filling /\ ToCompare /\ cache' = Cached(missing)
          /\ reads' = [s \in DOMAIN reads |-> IF s \in missing THEN reads[s] + 1 ELSE reads[s]]
          /\ IF a = <<>> \/ b = <<>> THEN Throw("empty")
             ELSE dtw' = Warp(a, b, corpus.r, corpus.nan) /\ Fill(dtw'.dist)
      BY <1>10 DEF Compare
    <2>2. corpus' = corpus
      BY <2>1 DEF Throw, Fill
    <2>3. missing \subseteq Samples(corpus) /\ missing \cap DOMAIN cache = {}
      BY <1>5, <2>1
    <2>4. CacheOK'
      <3> HIDE DEF missing
      <3> QED
        BY <1>1, <2>1, <2>2, <2>3, CacheKeeps
    <2>5. CASE a = <<>> \/ b = <<>>
      <3>1. Throw("empty")
        BY <2>1, <2>5
      <3> QED
        BY <1>1, <1>6, <2>1, <2>2, <2>4, <3>1, PartsAfter
    <2>6. CASE ~(a = <<>> \/ b = <<>>)
      <3>1. dtw' = Warp(a, b, corpus.r, corpus.nan) /\ Fill(dtw'.dist) /\ a # <<>> /\ b # <<>>
        BY <2>1, <2>6
      <3>2. Sequences(a, b, corpus.r, corpus.nan)
        <4>1. a \in Seq(FeatureVector) /\ b \in Seq(FeatureVector)
          BY <1>1, <1>5, <2>1, SampleType
        <4> HIDE DEF a, b
        <4> QED
          BY <1>1, <3>1, <4>1, CorpusType DEF Sequences
      <3>3. dtw'.dist \in Distances
        <4> HIDE DEF a, b
        <4> QED
          BY <3>1, <3>2, WarpDistance
      <3>4. AllDefined => (dtw'.dist = NaN <=> ~Compared(cell))
        <4> SUFFICES ASSUME AllDefined PROVE dtw'.dist = NaN <=> ~Compared(cell)
          OBVIOUS
        <4>1. Undefined \notin Range(a) /\ Undefined \notin Range(b)
          BY <1>5, <2>1 DEF AllDefined
        <4>2. dtw'.dist \in Lengths
          <5> HIDE DEF a, b
          <5> QED
            BY <3>1, <3>2, <4>1, WarpComparable
        <4>3. dtw'.dist # NaN
          BY <4>2 DEF Lengths, NaN, Infinity
        <4>4. Compared(cell)
          BY <2>1 DEF ToCompare, Compared
        <4> QED
          BY <4>3, <4>4
      <3>5. TableOK'
        BY <1>1, <1>5, <2>1, <3>1, <3>3, <3>4, FillKeeps
      <3>6. OfFiles'
        <4>1. Samples(corpus)' = Samples(corpus)
          BY <2>2, SameCorpus
        <4>2. Row(cell) \in Samples(corpus) /\ Column(cell) \in Samples(corpus)
          BY <1>5, <2>1
        <4> QED
          BY <2>2, <3>1, <4>1, <4>2 DEF OfFiles
      <3> QED
        BY <1>1, <2>2, <2>4, <3>5, <3>6, PartsAfter
    <2> QED
      BY <2>5, <2>6
  <1>11. CASE ReadFails
    <2> DEFINE missing == {Row(cell), Column(cell)} \ DOMAIN cache
    <2>1. /\ Filling /\ Throw("unreadable")
          /\ \/ UNCHANGED <<cache, reads>>
             \/ /\ missing = {Row(cell), Column(cell)}
                /\ cache' = Cached({Row(cell)})
                /\ reads' = [reads EXCEPT ![Row(cell)] = @ + 1]
      BY <1>11 DEF ReadFails
    <2>2. corpus' = corpus /\ TableOK' /\ OfFiles'
      BY <1>6, <2>1
    <2>3. CASE UNCHANGED <<cache, reads>>
      BY <1>1, <2>2, <2>3, CacheSame, PartsAfter
    <2>4. CASE /\ missing = {Row(cell), Column(cell)}
               /\ cache' = Cached({Row(cell)})
               /\ reads' = [reads EXCEPT ![Row(cell)] = @ + 1]
      <3> DEFINE one == {Row(cell)}
      <3>1. one \subseteq Samples(corpus) /\ one \cap DOMAIN cache = {}
        BY <1>5, <2>1, <2>4
      <3>2. reads' = [s \in DOMAIN reads |-> IF s \in one THEN reads[s] + 1 ELSE reads[s]]
        BY <2>4
      <3>3. cache' = Cached(one)
        BY <2>4
      <3> HIDE DEF one
      <3>4. CacheOK'
        BY <1>1, <2>2, <3>1, <3>2, <3>3, CacheKeeps
      <3> QED
        BY <1>1, <2>2, <3>4, PartsAfter
    <2> QED
      BY <2>1, <2>3, <2>4
  <1>12. CASE Complete
    <2>1. /\ cell = Cells /\ status' = "done"
          /\ UNCHANGED <<corpus, cache, tables, cell, table, dtw, reads>>
      BY <1>12 DEF Complete
    <2>2. Cells' = Cells /\ Filled'
      BY <1>1, <2>1, SameCorpus DEF TableOK, Filled
    <2>3. TableOK'
      BY <1>4, <2>1, <2>2 DEF TableOK, Completed
    <2> QED
      BY <1>1, <2>1, <2>3, CacheSame, FilesSame, PartsAfter
  <1> QED
    BY <1>7, <1>8, <1>9, <1>10, <1>11, <1>12 DEF Next

\* A stuttering step does.
LEMMA SameInv ==
  ASSUME Inv, UNCHANGED vars
  PROVE  Inv'
  <1>1. UNCHANGED <<corpus, cache, tables, cell, table, status, dtw, reads>>
    BY DEF vars
  <1>2. Cells' = Cells /\ Filled'
    BY <1>1, SameCorpus DEF Inv, Filled
  <1>3. TableOK'
    BY <1>1, <1>2, Parts DEF TableOK, Completed
  <1> QED
    BY <1>1, <1>3, Parts, PartsAfter, CacheSame, FilesSame

\* It always holds.
LEMMA Invariance == Spec => []Inv
  <1>1. Inv /\ [Next]_vars => Inv'
    BY NextInv, SameInv
  <1> QED
    BY InitInv, <1>1, PTL DEF Spec

(* Each pair once.                                                         *)

\* A product is negative if the factors have different signs.
LEMMA SignOfProduct ==
  ASSUME NEW x, NEW y, x \in Int, y \in Int
  PROVE  x * y < 0 <=> (x < 0 /\ y > 0) \/ (x > 0 /\ y < 0)
  <1>1. CASE x = 0 \/ y = 0
    BY <1>1
  <1>2. ASSUME NEW u, NEW v, u \in Nat \ {0}, v \in Nat \ {0} PROVE u * v \in Nat \ {0}
    BY <1>2
  <1>3. CASE x > 0 /\ y > 0
    BY <1>2, <1>3
  <1>4. CASE x > 0 /\ y < 0
    <2>1. x * (-y) \in Nat \ {0}
      BY <1>2, <1>4
    <2> QED
      BY <1>4, <2>1
  <1>5. CASE x < 0 /\ y > 0
    <2>1. (-x) * y \in Nat \ {0}
      BY <1>2, <1>5
    <2> QED
      BY <1>5, <2>1
  <1>6. CASE x < 0 /\ y < 0
    <2>1. (-x) * (-y) \in Nat \ {0}
      BY <1>2, <1>6
    <2> QED
      BY <1>6, <2>1
  <1> QED
    BY <1>1, <1>3, <1>4, <1>5, <1>6

\* Neither order of two samples is compared, if they are crossed.
LEMMA Crossed ==
  ASSUME NEW k, NEW l, NEW a, NEW b, k \in Nat, l \in Nat, a \in Nat, b \in Nat
  PROVE  (k - l) * (a - b) < 0 <=> ~(k <= l /\ a <= b) /\ ~(l <= k /\ b <= a)
  <1> DEFINE x == k - l
             y == a - b
  <1>1. x \in Int /\ y \in Int
    OBVIOUS
  <1>2. /\ (x < 0 <=> k < l) /\ (x > 0 <=> l < k)
        /\ (y < 0 <=> a < b) /\ (y > 0 <=> b < a)
    OBVIOUS
  <1> HIDE DEF x, y
  <1>3. x * y < 0 <=> (x < 0 /\ y > 0) \/ (x > 0 /\ y < 0)
    BY <1>1, SignOfProduct
  <1>4. x * y < 0 <=> ~(k <= l /\ a <= b) /\ ~(l <= k /\ b <= a)
    BY <1>2, <1>3
  <1> QED
    BY <1>4 DEF x, y

\* The cells of a pair of samples.
LEMMA CellOfPair ==
  ASSUME corpus \in Corpora, NEW s, NEW t, s \in Samples(corpus), t \in Samples(corpus)
  PROVE  \E n \in 0..Cells-1 : /\ Row(n) = s /\ Column(n) = t
                               /\ \A m \in 0..Cells-1 : Row(m) = s /\ Column(m) = t => m = n
  <1> DEFINE S == corpus.speakers
             M == corpus.samples
  <1>1. S \in Nat /\ M \in Nat
    BY CorpusType
  <1>2. Cells = S * S * M * M /\ Samples(corpus) = (0..S-1) \X (0..M-1)
    BY DEF Cells, Samples
  <1>3. \A n : Row(n) = RowOf(S, M, n) /\ Column(n) = ColumnOf(S, M, n)
    BY Zenon DEF Row, Column, RowOf, ColumnOf
  <1>4. Cells \in Nat
    BY CellsAreNumbers
  <1> HIDE DEF S, M
  <1>5. PICK k \in 0..S-1, a \in 0..M-1 : s = <<k, a>>
    BY <1>2
  <1>6. PICK l \in 0..S-1, b \in 0..M-1 : t = <<l, b>>
    BY <1>2
  <1>7. S \in Nat \ {0} /\ M \in Nat \ {0}
    BY <1>1, <1>5
  <1> DEFINE n == Number(S, M, k, l, a, b)
  <1> HIDE DEF n
  <1>8. n \in Nat /\ n < Cells /\ RowOf(S, M, n) = s /\ ColumnOf(S, M, n) = t
    BY <1>2, <1>5, <1>6, <1>7, PairOfNumber DEF n
  <1>9. ASSUME NEW m \in 0..Cells-1, Row(m) = s, Column(m) = t
        PROVE  m = n
    <2> DEFINE x == RowOf(S, M, m)
               y == ColumnOf(S, M, m)
    <2>0. x = <<k, a>> /\ y = <<l, b>>
      BY <1>3, <1>5, <1>6, <1>9
    <2> HIDE DEF x, y
    <2>1. m \in Nat /\ m < S * S * M * M
      BY <1>2, <1>4
    <2>2. m = Number(S, M, x[1], y[1], x[2], y[2])
      BY <1>1, <2>1, NumberOfPair DEF x, y
    <2>3. x[1] = k /\ x[2] = a /\ y[1] = l /\ y[2] = b
      BY <2>0
    <2> QED
      BY <2>2, <2>3 DEF n
  <1>10. n \in 0..Cells-1 /\ Row(n) = s /\ Column(n) = t
    BY <1>3, <1>4, <1>8
  <1> QED
    BY <1>9, <1>10

\* A pair is compared in one of its orders, unless it is crossed.
LEMMA OnceInTable ==
  ASSUME Inv, status = "done", AllDefined,
         NEW s, NEW t, s \in Samples(corpus), t \in Samples(corpus), s # t
  PROVE  Cardinality({n \in 0..Cells-1 : {Row(n), Column(n)} = {s, t} /\ table[n+1] # NaN})
           = IF (s[1] - t[1]) * (s[2] - t[2]) < 0 THEN 0 ELSE 1
  <1>1. corpus \in Corpora /\ cell = Cells /\ \A n \in 0..Cells-1 : table[n+1] = NaN <=> ~Compared(n)
    BY DEF Inv, Completed, Filled
  <1> DEFINE X == {n \in 0..Cells-1 : {Row(n), Column(n)} = {s, t} /\ table[n+1] # NaN}
             k == s[1]
             a == s[2]
             l == t[1]
             b == t[2]
             up == k <= l /\ a <= b
             down == l <= k /\ b <= a
             crossed == (s[1] - t[1]) * (s[2] - t[2]) < 0
  <1>2. k \in Nat /\ a \in Nat /\ l \in Nat /\ b \in Nat /\ s = <<k, a>> /\ t = <<l, b>>
    BY <1>1, SampleType
  <1>3. crossed <=> ~up /\ ~down
    <2> HIDE DEF k, l, a, b
    <2>1. (k - l) * (a - b) < 0 <=> ~(k <= l /\ a <= b) /\ ~(l <= k /\ b <= a)
      BY <1>2, Crossed
    <2> QED
      BY <2>1 DEF k, l, a, b
  <1>4. ~(up /\ down)
    <2> HIDE DEF k, l, a, b
    <2> SUFFICES ASSUME up, down PROVE FALSE
      OBVIOUS
    <2>1. k = l /\ a = b
      BY <1>2
    <2> QED
      BY <1>2, <2>1
  <1>5. PICK n \in 0..Cells-1 : /\ Row(n) = s /\ Column(n) = t
                                /\ \A i \in 0..Cells-1 : Row(i) = s /\ Column(i) = t => i = n
    BY <1>1, CellOfPair
  <1>6. PICK m \in 0..Cells-1 : /\ Row(m) = t /\ Column(m) = s
                                /\ \A i \in 0..Cells-1 : Row(i) = t /\ Column(i) = s => i = m
    BY <1>1, CellOfPair
  <1>7. (Compared(n) <=> up) /\ (Compared(m) <=> down)
    BY <1>5, <1>6 DEF Compared
  <1>8. \A i : {Row(i), Column(i)} = {s, t} <=> (Row(i) = s /\ Column(i) = t) \/ (Row(i) = t /\ Column(i) = s)
    OBVIOUS
  <1> HIDE DEF crossed, up, down
  <1>9. \A i : i \in X <=> (i = n /\ up) \/ (i = m /\ down)
    <2> TAKE i
    <2>1. i \in X <=> i \in 0..Cells-1 /\ {Row(i), Column(i)} = {s, t} /\ Compared(i)
      BY <1>1
    <2>2. i \in 0..Cells-1 /\ {Row(i), Column(i)} = {s, t} <=> i = n \/ i = m
      BY <1>5, <1>6, <1>8
    <2> HIDE DEF X
    <2>3. n # m
      BY <1>5, <1>6
    <2> QED
      BY <1>7, <2>1, <2>2, <2>3
  <1> HIDE DEF X
  <1>10. Cardinality(X) = IF crossed THEN 0 ELSE 1
    <2>1. CASE crossed
      <3>1. X = {}
        BY <1>3, <1>9, <2>1
      <3> QED
        BY <2>1, <3>1, FS_EmptySet
    <2>2. CASE up
      <3>1. X = {n} /\ ~crossed
        BY <1>3, <1>4, <1>9, <2>2
      <3> QED
        BY <3>1, FS_Singleton
    <2>3. CASE down
      <3>1. X = {m} /\ ~crossed
        BY <1>3, <1>4, <1>9, <2>3
      <3> QED
        BY <3>1, FS_Singleton
    <2> QED
      BY <1>3, <2>1, <2>2, <2>3
  <1> QED
    BY <1>10 DEF X, crossed

(* The properties.                                                         *)

\* Every variable has its type: the table holds as many distances as were filled in,
\* each a number, an infinity or NaN, whatever a NaN becomes as an int.
THEOREM TypeCorrect == Spec => []TypeOK
  <1>1. Inv => TypeOK
    BY DEF Inv
  <1> QED
    BY <1>1, Invariance, PTL

\* mfcc_dtw_distance extracts the features of each file at most once over all tables,
\* also if exceptions end them: the static cache has exactly the extracted ones.
THEOREM ExtractedAtMostOnce == Spec => []ExtractedOnce
  <1>1. Inv => ExtractedOnce
    BY DEF Inv
  <1> QED
    BY <1>1, Invariance, PTL

\* A complete table holds the distance of each pair of different samples once, but of
\* a crossed pair never: one speaker earlier, the other with the earlier sample.
OnceUnlessCrossed ==
  status = "done" /\ AllDefined =>
    \A s, t \in Samples(corpus) :
      s # t =>
        Cardinality({n \in 0..Cells-1 : {Row(n), Column(n)} = {s, t} /\ table[n+1] # NaN})
          = IF (s[1] - t[1]) * (s[2] - t[2]) < 0 THEN 0 ELSE 1

\* For every number of speakers and samples, the table leaves out the crossed pairs in
\* both orders, though the "samples have already been compared" (benchmark.cpp:140),
\* which is true of all other pairs that it leaves out: those it compares once.
THEOREM CrossedNeverCompared == Spec => []OnceUnlessCrossed
  <1>1. Inv => OnceUnlessCrossed
    <2> SUFFICES ASSUME Inv, status = "done", AllDefined,
                        NEW s \in Samples(corpus), NEW t \in Samples(corpus), s # t
                 PROVE  Cardinality({n \in 0..Cells-1 : {Row(n), Column(n)} = {s, t} /\ table[n+1] # NaN})
                          = IF (s[1] - t[1]) * (s[2] - t[2]) < 0 THEN 0 ELSE 1
      BY Zenon DEF OnceUnlessCrossed
    <2> QED
      BY OnceInTable
  <1> QED
    BY <1>1, Invariance, PTL

\* The last distance is that of two sequences of features.
LEMMA LastIsWarped ==
  ASSUME Inv, dtw # NoDTW, Comparable(dtw)
  PROVE  Warped(dtw)
  <1>1. corpus \in Corpora
    BY DEF Inv
  <1>2. PICK s \in Samples(corpus), t \in Samples(corpus) :
          /\ corpus.features[s] # <<>> /\ corpus.features[t] # <<>>
          /\ dtw = Warp(corpus.features[s], corpus.features[t], corpus.r, corpus.nan)
    BY DEF Inv, OfFiles
  <1> DEFINE a == corpus.features[s]
             b == corpus.features[t]
             r == corpus.r
             nan == corpus.nan
  <1>3. a \in Seq(FeatureVector) /\ b \in Seq(FeatureVector) /\ r \in Nat \ {0} /\ nan \in Nat \cup {NaN}
    BY <1>1, SampleType, CorpusType
  <1>4. a # <<>> /\ b # <<>> /\ dtw = Warp(a, b, r, nan)
    BY <1>2
  <1> HIDE DEF a, b, r, nan
  <1>5. dtw.a = a /\ dtw.b = b /\ dtw.r = r
    BY <1>4, WarpFields
  <1>6. Sequences(a, b, r, nan)
    BY <1>3, <1>4 DEF Sequences
  <1> QED
    BY <1>3, <1>4, <1>5, <1>6 DEF Warped

\* For all sequences of features and corridors, the DTW constructor's loops with the
\* border of infinities find the least cost over all warping paths in the corridor.
THEOREM LeastOfAllPaths == Spec => []DistanceIsLeast
  <1>1. Inv => DistanceIsLeast
    BY LastIsWarped, LeastDistance DEF DistanceIsLeast
  <1> QED
    BY <1>1, Invariance, PTL

\* For all of them, minimal_path ends a path that has the least cost, and never
\* throws the exception that "cannot have happened".
THEOREM PathOfLeast == Spec => []PathIsLeast
  <1>1. Inv => PathIsLeast
    BY LastIsWarped, LeastPath DEF PathIsLeast
  <1> QED
    BY <1>1, Invariance, PTL

\* For all of them, there is a path exactly if the first sequence is at most r+1
\* times as long as the second.
THEOREM FiniteIffWithinRatio == Spec => []FiniteWithinRatio
  <1>1. ASSUME Warped(dtw) PROVE dtw.dist = Infinity <=> Len(dtw.a) > (dtw.r + 1) * Len(dtw.b)
    BY <1>1, FiniteRatio
  <1>2. Inv => FiniteWithinRatio
    BY <1>1, LastIsWarped, Zenon DEF FiniteWithinRatio
  <1> QED
    BY <1>2, Invariance, PTL
=============================================================================
