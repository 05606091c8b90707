--------------------------- MODULE ScoringProofs ---------------------------
(* Proofs about Scoring, for every set of feature values, threshold and    *)
(* size of recordings and files.                                           *)
EXTENDS Scoring, TLAPS, FiniteSetTheorems, WellFoundedInduction

(* Induction over numbers.  The library's theorems take an operator, which  *)
(* the provers cannot instantiate; a set of numbers serves as well.         *)

\* A set of numbers that has 0 and the successor of each of its members has all.
LEMMA NaturalInduction ==
  ASSUME NEW N, 0 \in N, \A n \in Nat : n \in N => n + 1 \in N
  PROVE  \A n \in Nat : n \in N
  <1> DEFINE S == Nat \ N
  <1> SUFFICES ASSUME S # {} PROVE FALSE
    OBVIOUS
  <1>1. PICK m \in S : \A n \in S : ~ (<<n, m>> \in OpToRel(<, Nat))
    <2>1. S \in SUBSET Nat
      OBVIOUS
    <2> QED
      BY <2>1, NatLessThanWellFounded, WFMin
  <1>2. m \in Nat /\ m # 0 /\ m - 1 \in Nat /\ m - 1 < m /\ m = (m - 1) + 1
    OBVIOUS
  <1>3. m - 1 \notin S
    BY <1>1, <1>2 DEF OpToRel
  <1> QED
    BY <1>2, <1>3

(* The sum over a set.  MapThenSumSet adds up by a function on the subsets, *)
(* defined by the equation below; that there is such a function is a lemma. *)

Chosen(s) == CHOOSE x \in s : TRUE

\* h adds up F over the sets D.
Sums(F, D, h) ==
  h = [s \in D |-> IF s = {} THEN 0 ELSE F[Chosen(s)] + h[s \ {Chosen(s)}]]

\* The subsets of up to n members.
SmallSubsets(S, n) == {s \in SUBSET S : Cardinality(s) <= n}

\* A subset of a finite set is finite, and without a member smaller by one.
LEMMA Smaller ==
  ASSUME NEW S, IsFiniteSet(S), NEW s \in SUBSET S
  PROVE  /\ IsFiniteSet(s) /\ Cardinality(s) \in Nat
         /\ Cardinality(s) = 0 <=> s = {}
         /\ s # {} => Chosen(s) \in s
         /\ \A x \in s : s \ {x} \in SUBSET S /\ Cardinality(s \ {x}) = Cardinality(s) - 1
  <1>1. IsFiniteSet(s)
    BY FS_Subset
  <1>2. Cardinality(s) \in Nat /\ (Cardinality(s) = 0 <=> s = {})
    BY <1>1, FS_CardinalityType, FS_EmptySet
  <1>3. ASSUME NEW x \in s PROVE Cardinality(s \ {x}) = Cardinality(s) - 1
    BY <1>1, FS_RemoveElement
  <1> QED
    BY <1>1, <1>2, <1>3 DEF Chosen

\* What it adds up can always be added up.
LEMMA SumExists ==
  ASSUME NEW S, NEW F, IsFiniteSet(S)
  PROVE  \E h : Sums(F, SUBSET S, h)
  <1> DEFINE N == {n \in Nat : \E h : Sums(F, SmallSubsets(S, n), h)}
  <1>1. 0 \in N
    <2> DEFINE h == [s \in SmallSubsets(S, 0) |-> 0]
    <2>1. \A s \in SmallSubsets(S, 0) : s = {}
      BY Smaller DEF SmallSubsets
    <2>2. Sums(F, SmallSubsets(S, 0), h)
      BY <2>1 DEF Sums
    <2> QED
      BY <2>2
  <1>2. ASSUME NEW n \in Nat, n \in N PROVE n + 1 \in N
    <2>1. PICK g : Sums(F, SmallSubsets(S, n), g)
      BY <1>2
    <2> DEFINE h == [s \in SmallSubsets(S, n + 1) |->
                       IF s = {} THEN 0 ELSE F[Chosen(s)] + g[s \ {Chosen(s)}]]
    <2>2. ASSUME NEW s \in SmallSubsets(S, n + 1), s # {}
          PROVE  h[s \ {Chosen(s)}] = g[s \ {Chosen(s)}]
      <3> DEFINE t == s \ {Chosen(s)}
      <3>1. t \in SmallSubsets(S, n) /\ t \in SmallSubsets(S, n + 1)
        <4>1. s \in SUBSET S /\ Cardinality(s) <= n + 1
          BY DEF SmallSubsets
        <4>2. Cardinality(s) \in Nat /\ Chosen(s) \in s
          BY <2>2, <4>1, Smaller
        <4>3. t \in SUBSET S /\ Cardinality(t) = Cardinality(s) - 1
          BY <4>1, <4>2, Smaller
        <4> QED
          BY <4>1, <4>2, <4>3 DEF SmallSubsets
      <3>2. g[t] = IF t = {} THEN 0 ELSE F[Chosen(t)] + g[t \ {Chosen(t)}]
        BY <2>1, <3>1 DEF Sums
      <3> HIDE DEF t
      <3>3. h[t] = IF t = {} THEN 0 ELSE F[Chosen(t)] + g[t \ {Chosen(t)}]
        BY <3>1
      <3>4. h[t] = g[t]
        BY <3>2, <3>3
      <3> QED
        BY <3>4 DEF t
    <2>3. Sums(F, SmallSubsets(S, n + 1), h)
      <3>1. h = [s \in SmallSubsets(S, n + 1) |->
                   IF s = {} THEN 0 ELSE F[Chosen(s)] + h[s \ {Chosen(s)}]]
        BY <2>2
      <3> QED
        BY <3>1 DEF Sums
    <2> HIDE DEF h
    <2> QED
      BY <2>3
  <1>3. Cardinality(S) \in N
    <2> HIDE DEF N
    <2>1. Cardinality(S) \in Nat
      BY FS_CardinalityType
    <2> QED
      BY <1>1, <1>2, <2>1, NaturalInduction
  <1>4. SmallSubsets(S, Cardinality(S)) = SUBSET S
    BY FS_Subset DEF SmallSubsets
  <1> QED
    BY <1>3, <1>4

\* A sum of natural numbers is one.
LEMMA SumNatural ==
  ASSUME NEW S, NEW F \in [S -> Nat], NEW h, IsFiniteSet(S), Sums(F, SUBSET S, h)
  PROVE  \A s \in SUBSET S : h[s] \in Nat
  <1> DEFINE N == {n \in Nat : \A s \in SUBSET S : Cardinality(s) = n => h[s] \in Nat}
  <1>0. \A s \in SUBSET S : h[s] = IF s = {} THEN 0 ELSE F[Chosen(s)] + h[s \ {Chosen(s)}]
    BY DEF Sums
  <1>1. 0 \in N
    <2>1. \A s \in SUBSET S : Cardinality(s) = 0 => s = {}
      BY Smaller
    <2>2. \A s \in SUBSET S : Cardinality(s) = 0 => h[s] = 0
      BY <1>0, <2>1
    <2> QED
      BY <2>2
  <1>2. ASSUME NEW n \in Nat, n \in N PROVE n + 1 \in N
    <2> SUFFICES ASSUME NEW s \in SUBSET S, Cardinality(s) = n + 1 PROVE h[s] \in Nat
      OBVIOUS
    <2>1. s # {} /\ Chosen(s) \in s
      BY Smaller
    <2>2. Cardinality(s \ {Chosen(s)}) = n
      <3>1. Cardinality(s \ {Chosen(s)}) = Cardinality(s) - 1
        BY <2>1, Smaller
      <3> QED
        BY <3>1
    <2>3. h[s \ {Chosen(s)}] \in Nat
      BY <1>2, <2>2
    <2>4. F[Chosen(s)] \in Nat
      BY <2>1
    <2>5. h[s] = F[Chosen(s)] + h[s \ {Chosen(s)}]
      BY <1>0, <2>1
    <2> QED
      BY <2>3, <2>4, <2>5
  <1> HIDE DEF N
  <1>3. \A n \in Nat : n \in N
    BY <1>1, <1>2, NaturalInduction
  <1> QED
    <2> SUFFICES ASSUME NEW s \in SUBSET S PROVE h[s] \in Nat
      OBVIOUS
    <2>1. Cardinality(s) \in N
      BY <1>3, Smaller
    <2> QED
      BY <2>1 DEF N

\* Any member may be added first.
LEMMA SumOfMember ==
  ASSUME NEW S, NEW F \in [S -> Nat], NEW h, IsFiniteSet(S), Sums(F, SUBSET S, h)
  PROVE  \A s \in SUBSET S : \A x \in s : h[s] = F[x] + h[s \ {x}]
  <1> DEFINE N == {n \in Nat : \A s \in SUBSET S : Cardinality(s) = n =>
                                 \A x \in s : h[s] = F[x] + h[s \ {x}]}
  <1>0. \A s \in SUBSET S : h[s] = IF s = {} THEN 0 ELSE F[Chosen(s)] + h[s \ {Chosen(s)}]
    BY DEF Sums
  <1>1. 0 \in N
    BY Smaller
  <1>2. ASSUME NEW n \in Nat, n \in N PROVE n + 1 \in N
    <2> SUFFICES ASSUME NEW s \in SUBSET S, Cardinality(s) = n + 1, NEW x \in s
                 PROVE  h[s] = F[x] + h[s \ {x}]
      OBVIOUS
    <2> DEFINE y == Chosen(s)
    <2>1. s # {} /\ y \in s
      BY Smaller
    <2>2. h[s] = F[y] + h[s \ {y}]
      BY <1>0, <2>1
    <2> HIDE DEF y
    <2>3. CASE x = y
      BY <2>2, <2>3
    <2>4. CASE x # y
      <3>1. /\ s \ {x} \in SUBSET S /\ Cardinality(s \ {x}) = n
            /\ s \ {y} \in SUBSET S /\ Cardinality(s \ {y}) = n
        <4>1. Cardinality(s \ {x}) = Cardinality(s) - 1 /\ Cardinality(s \ {y}) = Cardinality(s) - 1
          BY <2>1, Smaller
        <4> QED
          BY <4>1
      <3>2. h[s \ {y}] = F[x] + h[(s \ {y}) \ {x}]
        BY <1>2, <2>4, <3>1
      <3>3. h[s \ {x}] = F[y] + h[(s \ {x}) \ {y}]
        BY <1>2, <2>1, <2>4, <3>1
      <3>4. (s \ {y}) \ {x} = (s \ {x}) \ {y}
        OBVIOUS
      <3>5. F[x] \in Nat /\ F[y] \in Nat /\ h[(s \ {x}) \ {y}] \in Nat
        BY <2>1, SumNatural
      <3> DEFINE rest == h[(s \ {x}) \ {y}]
      <3>6. h[s] = F[y] + (F[x] + rest) /\ h[s \ {x}] = F[y] + rest
        BY <2>2, <3>2, <3>3, <3>4
      <3>7. rest \in Nat
        BY <3>5
      <3> HIDE DEF rest
      <3> QED
        BY <3>5, <3>6, <3>7
    <2> QED
      BY <2>3, <2>4
  <1> HIDE DEF N
  <1>3. \A n \in Nat : n \in N
    BY <1>1, <1>2, NaturalInduction
  <1> QED
    <2> SUFFICES ASSUME NEW s \in SUBSET S PROVE \A x \in s : h[s] = F[x] + h[s \ {x}]
      OBVIOUS
    <2>1. Cardinality(s) \in N
      BY <1>3, Smaller
    <2> QED
      BY <2>1 DEF N

\* Sums over two sets are equal if the members of one stand for those of the other.
LEMMA SumOfImage ==
  ASSUME NEW S, NEW F \in [S -> Nat], NEW h, NEW T, NEW G \in [T -> Nat], NEW g,
         NEW b \in [S -> T],
         IsFiniteSet(S), IsFiniteSet(T), Sums(F, SUBSET S, h), Sums(G, SUBSET T, g),
         \A x, y \in S : b[x] = b[y] => x = y,
         \A x \in S : G[b[x]] = F[x],
         \A y \in T : \E x \in S : y = b[x]
  PROVE  h[S] = g[T]
  <1> DEFINE Image(s) == {b[x] : x \in s}
             N == {n \in Nat : \A s \in SUBSET S : Cardinality(s) = n => h[s] = g[Image(s)]}
  <1>1. 0 \in N
    <2>1. Image({}) = {}
      OBVIOUS
    <2>2. h[{}] = 0 /\ g[{}] = 0
      BY DEF Sums
    <2> QED
      BY <2>1, <2>2, Smaller
  <1>2. ASSUME NEW n \in Nat, n \in N PROVE n + 1 \in N
    <2> HIDE DEF Image
    <2> SUFFICES ASSUME NEW s \in SUBSET S, Cardinality(s) = n + 1
                 PROVE  h[s] = g[Image(s)]
      OBVIOUS
    <2> USE DEF Image
    <2>1. PICK x \in s : TRUE
      BY Smaller
    <2>2. Cardinality(s \ {x}) = n /\ s \ {x} \in SUBSET S
      <3>1. Cardinality(s \ {x}) = Cardinality(s) - 1
        BY <2>1, Smaller
      <3> QED
        BY <3>1
    <2>3. h[s] = F[x] + h[s \ {x}]
      BY <2>1, SumOfMember
    <2>4. Image(s) \in SUBSET T /\ b[x] \in Image(s)
      BY <2>1
    <2>5. g[Image(s)] = G[b[x]] + g[Image(s) \ {b[x]}]
      <3> HIDE DEF Image
      <3> QED
        BY <2>4, SumOfMember
    <2>6. Image(s) \ {b[x]} = Image(s \ {x})
      BY <2>1
    <2>7. h[s \ {x}] = g[Image(s \ {x})]
      BY <1>2, <2>2
    <2> HIDE DEF Image
    <2>8. G[b[x]] = F[x]
      BY <2>1
    <2> QED
      BY <2>3, <2>5, <2>6, <2>7, <2>8
  <1>3. Image(S) = T
    OBVIOUS
  <1> HIDE DEF N, Image
  <1>4. Cardinality(S) \in N
    <2>1. Cardinality(S) \in Nat
      BY FS_CardinalityType
    <2> QED
      BY <1>1, <1>2, <2>1, NaturalInduction
  <1> QED
    BY <1>3, <1>4 DEF N

\* The sum of F over S.
Total(F, S) == (CHOOSE h : Sums(F, SUBSET S, h))[S]

\* It is the same by whichever function.
LEMMA TotalDef ==
  ASSUME NEW S, NEW F \in [S -> Nat], NEW h, IsFiniteSet(S), Sums(F, SUBSET S, h)
  PROVE  Total(F, S) = h[S]
  <1> DEFINE g == CHOOSE g : Sums(F, SUBSET S, g)
             b == [x \in S |-> x]
  <1>1. Sums(F, SUBSET S, g)
    BY SumExists
  <1>2. Total(F, S) = g[S]
    BY DEF Total
  <1>3. b \in [S -> S] /\ \A x \in S : b[x] = x
    OBVIOUS
  <1> HIDE DEF g, b
  <1>4. h[S] = g[S]
    BY <1>1, <1>3, SumOfImage
  <1> QED
    BY <1>2, <1>4

\* A total of natural numbers is one, zero only if all of them are.
LEMMA TotalNatural ==
  ASSUME NEW S, NEW F \in [S -> Nat], IsFiniteSet(S)
  PROVE  Total(F, S) \in Nat /\ (Total(F, S) = 0 => \A x \in S : F[x] = 0)
  <1>1. PICK h : Sums(F, SUBSET S, h)
    BY SumExists
  <1>2. Total(F, S) = h[S]
    BY <1>1, TotalDef
  <1>3. \A s \in SUBSET S : h[s] \in Nat
    BY <1>1, SumNatural
  <1>4. S \in SUBSET S
    OBVIOUS
  <1>5. ASSUME NEW x \in S PROVE h[S] = F[x] + h[S \ {x}] /\ F[x] \in Nat /\ h[S \ {x}] \in Nat
    <2>1. h[S] = F[x] + h[S \ {x}]
      BY <1>1, <1>4, SumOfMember
    <2> QED
      BY <1>3, <2>1
  <1>6. ASSUME NEW x \in S, h[S] = 0 PROVE F[x] = 0
    <2> DEFINE rest == h[S \ {x}]
    <2>1. h[S] = F[x] + rest /\ F[x] \in Nat /\ rest \in Nat
      BY <1>5
    <2> HIDE DEF rest
    <2> QED
      BY <1>6, <2>1
  <1> QED
    BY <1>2, <1>3, <1>6

\* Totals over two sets are equal if the members of one stand for those of the other.
LEMMA TotalOfImage ==
  ASSUME NEW S, NEW F \in [S -> Nat], NEW T, NEW G \in [T -> Nat], NEW b \in [S -> T],
         IsFiniteSet(S), IsFiniteSet(T),
         \A x, y \in S : b[x] = b[y] => x = y,
         \A x \in S : G[b[x]] = F[x],
         \A y \in T : \E x \in S : y = b[x]
  PROVE  Total(F, S) = Total(G, T)
  <1>1. PICK h : Sums(F, SUBSET S, h)
    BY SumExists
  <1>2. PICK g : Sums(G, SUBSET T, g)
    BY SumExists
  <1>3. h[S] = g[T]
    BY <1>1, <1>2, SumOfImage, SMTT(60)
  <1> QED
    BY <1>1, <1>2, <1>3, TotalDef

-----------------------------------------------------------------------------
(* The score of a region is the sum of the weights of its cells.           *)

Weight(M, sc, sr, edge, emphasizeDiagonal, c) ==
  M[c[1]][c[2]] * M[c[1]][c[2]]
    * (IF emphasizeDiagonal THEN Emphasis(edge, c[1] - sr, c[2] - sc) ELSE 1)

Weights(M, sc, ec, sr, er, emphasizeDiagonal) ==
  [c \in Cells(sc, ec, sr, er) |-> Weight(M, sc, sr, 1 + ec - sc, emphasizeDiagonal, c)]

LEMMA CellsFinite ==
  ASSUME NEW sc \in Int, NEW ec \in Int, NEW sr \in Int, NEW er
  PROVE  IsFiniteSet(Cells(sc, ec, sr, er))
  <1>1. IsFiniteSet(sr..(sr + ec - sc)) /\ IsFiniteSet(sc..ec)
    BY FS_Interval
  <1> QED
    BY <1>1, FS_Product DEF Cells

\* The cells of a matrix in these rows and columns are natural numbers.
NaturalCells(M, sc, ec, sr, er) == \A i \in sr..er, j \in sc..ec : M[i][j] \in Nat

\* They are zero.
ZeroCells(M, sc, ec, sr, er) == \A i \in sr..er, j \in sc..ec : M[i][j] = 0

\* The emphasis is positive in the whole region.
LEMMA WeightsNatural ==
  ASSUME NEW M, NEW sc \in Int, NEW ec \in Int, NEW sr \in Int, NEW er,
         NEW emphasizeDiagonal, NaturalCells(M, sc, ec, sr, sr + ec - sc)
  PROVE  /\ Weights(M, sc, ec, sr, er, emphasizeDiagonal) \in [Cells(sc, ec, sr, er) -> Nat]
         /\ \A c \in Cells(sc, ec, sr, er) :
              Weights(M, sc, ec, sr, er, emphasizeDiagonal)[c] = 0 => M[c[1]][c[2]] = 0
  <1> SUFFICES ASSUME NEW c \in Cells(sc, ec, sr, er)
               PROVE  /\ Weight(M, sc, sr, 1 + ec - sc, emphasizeDiagonal, c) \in Nat
                      /\ Weight(M, sc, sr, 1 + ec - sc, emphasizeDiagonal, c) = 0
                           => M[c[1]][c[2]] = 0
    BY DEF Weights
  <1>1. c[1] \in sr..(sr + ec - sc) /\ c[2] \in sc..ec
    BY DEF Cells
  <1>2. M[c[1]][c[2]] \in Nat
    BY <1>1 DEF NaturalCells
  <1>3. Emphasis(1 + ec - sc, c[1] - sr, c[2] - sc) \in Nat \ {0}
    BY <1>1 DEF Emphasis, Abs
  <1> DEFINE m == M[c[1]][c[2]]
             e == IF emphasizeDiagonal THEN Emphasis(1 + ec - sc, c[1] - sr, c[2] - sc) ELSE 1
  <1>4. e \in Nat \ {0} /\ m \in Nat
    BY <1>2, <1>3
  <1>5. Weight(M, sc, sr, 1 + ec - sc, emphasizeDiagonal, c) = (m * m) * e
    BY DEF Weight
  <1> HIDE DEF m, e
  <1>6. (m * m) * e \in Nat /\ ((m * m) * e = 0 => m = 0)
    BY <1>4
  <1> QED
    BY <1>5, <1>6 DEF m

\* The score is the total of the weights.
LEMMA RegionTotal ==
  ASSUME NEW M, NEW sc \in Int, NEW ec \in Int, NEW sr \in Int, NEW er,
         NEW emphasizeDiagonal, NaturalCells(M, sc, ec, sr, sr + ec - sc)
  PROVE  matchScoreSingleRegion(M, sc, ec, sr, er, emphasizeDiagonal)
           = Total(Weights(M, sc, ec, sr, er, emphasizeDiagonal), Cells(sc, ec, sr, er))
  <1> DEFINE C == Cells(sc, ec, sr, er)
             F == Weights(M, sc, ec, sr, er, emphasizeDiagonal)
             W(c) == Weight(M, sc, sr, 1 + ec - sc, emphasizeDiagonal, c)
             Adds(h) == h = [s \in SUBSET C |->
                              IF s = {} THEN 0
                              ELSE W(CHOOSE x \in s : TRUE) + h[s \ {CHOOSE x \in s : TRUE}]]
  <1>1. \A s \in SUBSET C : s # {} => F[Chosen(s)] = W(CHOOSE x \in s : TRUE)
    BY DEF Weights, Chosen
  <1>2. PICK g : Sums(F, SUBSET C, g)
    BY CellsFinite, SumExists
  <1>3. Adds(g)
    <2>1. g = [s \in SUBSET C |-> IF s = {} THEN 0 ELSE F[Chosen(s)] + g[s \ {Chosen(s)}]]
      BY <1>2 DEF Sums
    <2> HIDE DEF C, F, W
    <2>2. [s \in SUBSET C |-> IF s = {} THEN 0 ELSE F[Chosen(s)] + g[s \ {Chosen(s)}]]
           = [s \in SUBSET C |-> IF s = {} THEN 0
                ELSE W(CHOOSE x \in s : TRUE) + g[s \ {CHOOSE x \in s : TRUE}]]
      BY <1>1 DEF Chosen
    <2> QED
      BY <2>1, <2>2
  <1> DEFINE h == CHOOSE h : Adds(h)
  <1>4. Adds(h)
    <2> HIDE DEF Adds
    <2> QED
      BY <1>3
  <1>5. Sums(F, SUBSET C, h)
    <2> HIDE DEF C, F, W, h
    <2>1. [s \in SUBSET C |-> IF s = {} THEN 0 ELSE F[Chosen(s)] + h[s \ {Chosen(s)}]]
           = [s \in SUBSET C |-> IF s = {} THEN 0
                ELSE W(CHOOSE x \in s : TRUE) + h[s \ {CHOOSE x \in s : TRUE}]]
      BY <1>1 DEF Chosen
    <2> QED
      BY <1>4, <2>1 DEF Sums
  <1>6. matchScoreSingleRegion(M, sc, ec, sr, er, emphasizeDiagonal) = h[C]
    BY DEF matchScoreSingleRegion, MapThenSumSet, MapThenFoldSet, Weight
  <1>7. IsFiniteSet(C) /\ F \in [C -> Nat]
    BY CellsFinite, WeightsNatural
  <1> HIDE DEF h, C, F
  <1>8. Total(F, C) = h[C]
    BY <1>5, <1>7, TotalDef
  <1> QED
    BY <1>6, <1>8 DEF C, F

\* A score is a natural number, zero only if every cell is.
LEMMA SingleScore ==
  ASSUME NEW M, NEW sc \in Int, NEW ec \in Int, NEW sr \in Int, NEW er,
         NEW emphasizeDiagonal, NaturalCells(M, sc, ec, sr, sr + ec - sc)
  PROVE  /\ matchScoreSingleRegion(M, sc, ec, sr, er, emphasizeDiagonal) \in Nat
         /\ matchScoreSingleRegion(M, sc, ec, sr, er, emphasizeDiagonal) = 0 =>
              ZeroCells(M, sc, ec, sr, sr + ec - sc)
  <1> DEFINE C == Cells(sc, ec, sr, er)
             F == Weights(M, sc, ec, sr, er, emphasizeDiagonal)
  <1>1. IsFiniteSet(C) /\ F \in [C -> Nat]
    BY CellsFinite, WeightsNatural
  <1>2. matchScoreSingleRegion(M, sc, ec, sr, er, emphasizeDiagonal) = Total(F, C)
    BY RegionTotal
  <1>3. \A c \in C : F[c] = 0 => M[c[1]][c[2]] = 0
    BY WeightsNatural
  <1> HIDE DEF C, F
  <1>4. Total(F, C) \in Nat /\ (Total(F, C) = 0 => \A c \in C : F[c] = 0)
    BY <1>1, TotalNatural
  <1>5. ASSUME \A c \in C : M[c[1]][c[2]] = 0 PROVE ZeroCells(M, sc, ec, sr, sr + ec - sc)
    <2> SUFFICES ASSUME NEW i \in sr..(sr + ec - sc), NEW j \in sc..ec PROVE M[i][j] = 0
      BY DEF ZeroCells
    <2>1. <<i, j>> \in C
      BY DEF C, Cells
    <2>2. M[<<i, j>>[1]][<<i, j>>[2]] = 0
      BY <1>5, <2>1
    <2> QED
      BY <2>2
  <1> QED
    BY <1>2, <1>3, <1>4, <1>5

LEMMA SingleNatural ==
  ASSUME NEW M, NEW sc \in Int, NEW ec \in Int, NEW sr \in Int, NEW er,
         NEW emphasizeDiagonal, NaturalCells(M, sc, ec, sr, sr + ec - sc)
  PROVE  matchScoreSingleRegion(M, sc, ec, sr, er, emphasizeDiagonal) \in Nat
  BY SingleScore

\* The rows of M from tr on are those of P from sr on.
SameCells(M, P, sc, ec, sr, tr) ==
  \A i \in sr..(sr + ec - sc), j \in sc..ec : M[i + (tr - sr)][j] = P[i][j]

\* A region has the same score wherever in a matrix it is.
LEMMA SingleShifted ==
  ASSUME NEW M, NEW P, NEW sc \in Int, NEW ec \in Int, NEW sr \in Int, NEW er,
         NEW tr \in Int, NEW to, NEW emphasizeDiagonal,
         NaturalCells(P, sc, ec, sr, sr + ec - sc),
         SameCells(M, P, sc, ec, sr, tr)
  PROVE  matchScoreSingleRegion(M, sc, ec, tr, to, emphasizeDiagonal)
           = matchScoreSingleRegion(P, sc, ec, sr, er, emphasizeDiagonal)
  <1> DEFINE o == tr - sr
             S == Cells(sc, ec, sr, er)
             T == Cells(sc, ec, tr, to)
             F == Weights(P, sc, ec, sr, er, emphasizeDiagonal)
             G == Weights(M, sc, ec, tr, to, emphasizeDiagonal)
             b == [c \in S |-> <<c[1] + o, c[2]>>]
  <1>1. IsFiniteSet(S) /\ IsFiniteSet(T)
    BY CellsFinite
  <1>2. /\ \A c \in S : c[1] \in sr..(sr + ec - sc) /\ c[2] \in sc..ec /\ c = <<c[1], c[2]>>
        /\ \A d \in T : d[1] \in tr..(tr + ec - sc) /\ d[2] \in sc..ec
                         /\ d = <<d[1], d[2]>>
    BY DEF Cells
  <1>3. ASSUME NEW c \in S PROVE b[c] \in T
    BY <1>2 DEF Cells
  <1>4. ASSUME NEW d \in T PROVE <<d[1] - o, d[2]>> \in S /\ d = b[<<d[1] - o, d[2]>>]
    <2>1. <<d[1] - o, d[2]>> \in S
      BY <1>2 DEF Cells
    <2>2. b[<<d[1] - o, d[2]>>] = <<(d[1] - o) + o, d[2]>>
      BY <2>1
    <2>3. (d[1] - o) + o = d[1]
      BY <1>2
    <2> QED
      BY <1>2, <2>1, <2>2, <2>3
  <1>5. ASSUME NEW c \in S, NEW d \in S, b[c] = b[d] PROVE c = d
    <2>1. c[1] + o = d[1] + o /\ c[2] = d[2]
      BY <1>5
    <2> QED
      BY <1>2, <2>1
  <1>6. F \in [S -> Nat]
    BY WeightsNatural
  <1>7. NaturalCells(M, sc, ec, tr, tr + ec - sc)
    <2> SUFFICES ASSUME NEW i \in tr..(tr + ec - sc), NEW j \in sc..ec
                 PROVE  M[i][j] \in Nat
      BY DEF NaturalCells
    <2>1. i - o \in sr..(sr + ec - sc) /\ (i - o) + o = i
      OBVIOUS
    <2>2. M[(i - o) + o][j] = P[i - o][j]
      BY <2>1 DEF SameCells
    <2> QED
      BY <2>1, <2>2 DEF NaturalCells
  <1>8. G \in [T -> Nat]
    BY <1>7, WeightsNatural
  <1>9. ASSUME NEW c \in S PROVE G[b[c]] = F[c]
    <2>1. b[c] = <<c[1] + o, c[2]>> /\ b[c] \in T
      BY <1>3
    <2>2. M[c[1] + o][c[2]] = P[c[1]][c[2]] /\ (c[1] + o) - tr = c[1] - sr
      BY <1>2 DEF SameCells
    <2>3. G[b[c]] = Weight(M, sc, tr, 1 + ec - sc, emphasizeDiagonal, <<c[1] + o, c[2]>>)
      BY <2>1 DEF Weights
    <2>4. F[c] = Weight(P, sc, sr, 1 + ec - sc, emphasizeDiagonal, c)
      BY DEF Weights
    <2> QED
      BY <2>2, <2>3, <2>4 DEF Weight
  <1>10. matchScoreSingleRegion(P, sc, ec, sr, er, emphasizeDiagonal) = Total(F, S)
    BY RegionTotal
  <1>11. matchScoreSingleRegion(M, sc, ec, tr, to, emphasizeDiagonal) = Total(G, T)
    BY <1>7, RegionTotal
  <1>12. b \in [S -> T]
    BY <1>3
  <1> HIDE DEF S, T, F, G, b
  <1>13. \A y \in T : \E x \in S : y = b[x]
    BY <1>4
  <1>14. Total(F, S) = Total(G, T)
    BY <1>1, <1>5, <1>6, <1>8, <1>9, <1>12, <1>13, TotalOfImage
  <1> QED
    BY <1>10, <1>11, <1>14

\* The two uses of it: for a quarter, and for a whole region.
Plain(M, sc, ec, sr, er) == matchScoreSingleRegion(M, sc, ec, sr, er, FALSE)
Emphasized(M, sc, ec, sr, er) == matchScoreSingleRegion(M, sc, ec, sr, er, TRUE)

LEMMA PlainScore ==
  ASSUME NEW M, NEW sc \in Int, NEW ec \in Int, NEW sr \in Int, NEW er,
         NaturalCells(M, sc, ec, sr, sr + ec - sc)
  PROVE  Plain(M, sc, ec, sr, er) \in Nat
  <1>1. PICK e : e = FALSE
    OBVIOUS
  <1>2. matchScoreSingleRegion(M, sc, ec, sr, er, e) \in Nat
    BY SingleNatural
  <1> QED
    BY <1>1, <1>2, Zenon DEF Plain

LEMMA EmphasizedScore ==
  ASSUME NEW M, NEW sc \in Int, NEW ec \in Int, NEW sr \in Int, NEW er,
         NaturalCells(M, sc, ec, sr, sr + ec - sc)
  PROVE  /\ Emphasized(M, sc, ec, sr, er) \in Nat
         /\ Emphasized(M, sc, ec, sr, er) = 0 =>
              ZeroCells(M, sc, ec, sr, sr + ec - sc)
  <1>1. PICK e : e = TRUE
    OBVIOUS
  <1>2. /\ matchScoreSingleRegion(M, sc, ec, sr, er, e) \in Nat
        /\ matchScoreSingleRegion(M, sc, ec, sr, er, e) = 0 =>
              ZeroCells(M, sc, ec, sr, sr + ec - sc)
    BY SingleScore
  <1> QED
    BY <1>1, <1>2, Zenon DEF Emphasized

LEMMA PlainShifted ==
  ASSUME NEW M, NEW P, NEW sc \in Int, NEW ec \in Int, NEW sr \in Int, NEW er,
         NEW tr \in Int, NEW to,
         NaturalCells(P, sc, ec, sr, sr + ec - sc), SameCells(M, P, sc, ec, sr, tr)
  PROVE  Plain(M, sc, ec, tr, to) = Plain(P, sc, ec, sr, er)
  <1>1. PICK e : e = FALSE
    OBVIOUS
  <1>2. matchScoreSingleRegion(M, sc, ec, tr, to, e) = matchScoreSingleRegion(P, sc, ec, sr, er, e)
    BY SingleShifted
  <1> QED
    BY <1>1, <1>2, Zenon DEF Plain

LEMMA EmphasizedShifted ==
  ASSUME NEW M, NEW P, NEW sc \in Int, NEW ec \in Int, NEW sr \in Int, NEW er,
         NEW tr \in Int, NEW to,
         NaturalCells(P, sc, ec, sr, sr + ec - sc), SameCells(M, P, sc, ec, sr, tr)
  PROVE  Emphasized(M, sc, ec, tr, to) = Emphasized(P, sc, ec, sr, er)
  <1>1. PICK e : e = TRUE
    OBVIOUS
  <1>2. matchScoreSingleRegion(M, sc, ec, tr, to, e) = matchScoreSingleRegion(P, sc, ec, sr, er, e)
    BY SingleShifted
  <1> QED
    BY <1>1, <1>2, Zenon DEF Emphasized

\* The quarters of a region of n rows, and the cells read for them, are inside it.
LEMMA QuartersInside ==
  ASSUME NEW n \in Nat, NEW row \in Int, NEW q \in 1..4, n > 1
  PROVE  LET Q == Quarters(0, n - 1, row, row + n - 1)[q]
         IN  /\ Q[1] \in 0..(n - 1) /\ Q[2] \in 0..(n - 1) /\ Q[3] \in row..(row + n - 1)
             /\ Q[3] + Q[2] - Q[1] <= row + n - 1
  <1> DEFINE h == n \div 2
  <1>1. h \in Nat /\ 1 <= h /\ h + h <= n
    OBVIOUS
  <1>2. ((row + n - 1) - row + 1) \div 2 = h
    <2>1. (row + n - 1) - row + 1 = n
      OBVIOUS
    <2> QED
      BY <2>1
  <1>3. Quarters(0, n - 1, row, row + n - 1) =
          << <<0, 0 + h - 1, row, row + h - 1>>, <<0 + h, n - 1, row, row + h - 1>>,
             <<0, 0 + h - 1, row + h, row + n - 1>>, <<0 + h, n - 1, row + h, row + n - 1>> >>
    BY <1>2 DEF Quarters
  <1> HIDE DEF h
  <1> QED
    <2>1. CASE q = 1
      BY <1>1, <1>3, <2>1
    <2>2. CASE q = 2
      BY <1>1, <1>3, <2>2
    <2>3. CASE q = 3
      BY <1>1, <1>3, <2>3
    <2>4. CASE q = 4
      BY <1>1, <1>3, <2>4
    <2> QED
      BY <2>1, <2>2, <2>3, <2>4

\* A region further down has the quarters further down.
LEMMA QuartersShifted ==
  ASSUME NEW n \in Nat, NEW o \in Int, NEW q \in 1..4
  PROVE  LET Q == Quarters(0, n - 1, 0, 0 + n - 1)[q]
             R == Quarters(0, n - 1, o, o + n - 1)[q]
         IN  R[1] = Q[1] /\ R[2] = Q[2] /\ R[3] = Q[3] + o
  <1> DEFINE h == n \div 2
  <1>1. h \in Int
    OBVIOUS
  <1>2. ((0 + n - 1) - 0 + 1) \div 2 = h /\ ((o + n - 1) - o + 1) \div 2 = h
    <2>1. (0 + n - 1) - 0 + 1 = n /\ (o + n - 1) - o + 1 = n
      OBVIOUS
    <2> QED
      BY <2>1
  <1>3. Quarters(0, n - 1, 0, 0 + n - 1) =
          << <<0, 0 + h - 1, 0, 0 + h - 1>>, <<0 + h, n - 1, 0, 0 + h - 1>>,
             <<0, 0 + h - 1, 0 + h, 0 + n - 1>>, <<0 + h, n - 1, 0 + h, 0 + n - 1>> >>
    BY <1>2 DEF Quarters
  <1>4. Quarters(0, n - 1, o, o + n - 1) =
          << <<0, 0 + h - 1, o, o + h - 1>>, <<0 + h, n - 1, o, o + h - 1>>,
             <<0, 0 + h - 1, o + h, o + n - 1>>, <<0 + h, n - 1, o + h, o + n - 1>> >>
    BY <1>2 DEF Quarters
  <1> HIDE DEF h
  <1> QED
    <2>1. CASE q = 1
      BY <1>1, <1>3, <1>4, <2>1
    <2>2. CASE q = 2
      BY <1>1, <1>3, <1>4, <2>2
    <2>3. CASE q = 3
      BY <1>1, <1>3, <1>4, <2>3
    <2>4. CASE q = 4
      BY <1>1, <1>3, <1>4, <2>4
    <2> QED
      BY <2>1, <2>2, <2>3, <2>4

\* The greater of zero and a number.
LEMMA MaxWithZero == \A x \in Int : Max({0, x}) \in Nat
  <1> SUFFICES ASSUME NEW x \in Int PROVE Max({0, x}) \in Nat
    OBVIOUS
  <1>1. \E m \in {0, x} : \A y \in {0, x} : m >= y
    BY SMT
  <1>2. Max({0, x}) \in {0, x} /\ \A y \in {0, x} : Max({0, x}) >= y
    BY <1>1 DEF Max
  <1> QED
    BY <1>2

\* So is the score of a region that is split, and it is the same further down.
LEMMA SplitNatural ==
  ASSUME NEW M, NEW n \in Nat, NEW row \in Int, n > 0,
         NaturalCells(M, 0, n - 1, row, row + n - 1)
  PROVE  matchScoreSplitRegion(M, 0, n - 1, row, row + n - 1) \in Nat
  <1>1. CASE row = row + n - 1
    <2>1. NaturalCells(M, 0, n - 1, row, row + (n - 1) - 0)
      <3>1. row + (n - 1) - 0 = row + n - 1
        OBVIOUS
      <3> QED
        BY <3>1
    <2>2. Plain(M, 0, n - 1, row, row + n - 1) \in Nat
      BY <2>1, PlainScore
    <2> QED
      BY <1>1, <2>2, Zenon DEF matchScoreSplitRegion, Plain
  <1>2. CASE row # row + n - 1
    <2> DEFINE Q == Quarters(0, n - 1, row, row + n - 1)
               r(q) == Plain(M, Q[q][1], Q[q][2], Q[q][3], Q[q][4])
               size(q) == (1 + Q[q][2] - Q[q][1]) * (1 + Q[q][2] - Q[q][1])
    <2>1. matchScoreSplitRegion(M, 0, n - 1, row, row + n - 1)
            = Max({0, r(1) * r(4) * size(2) * size(3) - r(2) * r(3) * size(1) * size(4)})
      BY <1>2, Zenon DEF matchScoreSplitRegion, Plain
    <2>2. ASSUME NEW q \in 1..4 PROVE r(q) \in Int /\ size(q) \in Int
      <3>1. /\ Q[q][1] \in 0..(n - 1) /\ Q[q][2] \in 0..(n - 1) /\ Q[q][3] \in row..(row + n - 1)
            /\ Q[q][3] + Q[q][2] - Q[q][1] <= row + n - 1
        BY <1>2, QuartersInside
      <3> HIDE DEF Q
      <3>2. NaturalCells(M, Q[q][1], Q[q][2], Q[q][3], Q[q][3] + Q[q][2] - Q[q][1])
        BY <3>1 DEF NaturalCells
      <3>3. r(q) \in Nat
        BY <3>1, <3>2, PlainScore
      <3>4. size(q) \in Int
        BY <3>1
      <3> QED
        BY <3>3, <3>4
    <2> HIDE DEF r, size
    <2>3. r(1) * r(4) * size(2) * size(3) - r(2) * r(3) * size(1) * size(4) \in Int
      BY <2>2
    <2> QED
      BY <2>1, <2>3, MaxWithZero
  <1> QED
    BY <1>1, <1>2

LEMMA SplitShifted ==
  ASSUME NEW M, NEW P, NEW n \in Nat, NEW o \in Int, n > 0,
         NaturalCells(P, 0, n - 1, 0, 0 + n - 1), SameCells(M, P, 0, n - 1, 0, o)
  PROVE  matchScoreSplitRegion(M, 0, n - 1, o, o + n - 1)
           = matchScoreSplitRegion(P, 0, n - 1, 0, 0 + n - 1)
  <1>1. CASE n = 1
    <2>1. 0 + (n - 1) - 0 = n - 1 /\ 0 + n - 1 = n - 1 /\ o - 0 = o /\ n - 1 \in Int /\ 0 \in Int
      OBVIOUS
    <2>2. Plain(M, 0, n - 1, o, o + n - 1)
            = Plain(P, 0, n - 1, 0, 0 + n - 1)
      BY <2>1, PlainShifted
    <2>3. o = o + n - 1 /\ 0 = 0 + n - 1
      BY <1>1
    <2> QED
      BY <2>1, <2>2, <2>3, Zenon DEF matchScoreSplitRegion, Plain
  <1>2. CASE n # 1
    <2> DEFINE Q == Quarters(0, n - 1, 0, 0 + n - 1)
               R == Quarters(0, n - 1, o, o + n - 1)
               r(q) == Plain(P, Q[q][1], Q[q][2], Q[q][3], Q[q][4])
               s(q) == Plain(M, R[q][1], R[q][2], R[q][3], R[q][4])
               size(q) == (1 + Q[q][2] - Q[q][1]) * (1 + Q[q][2] - Q[q][1])
               area(q) == (1 + R[q][2] - R[q][1]) * (1 + R[q][2] - R[q][1])
    <2>1. matchScoreSplitRegion(P, 0, n - 1, 0, 0 + n - 1)
            = Max({0, r(1) * r(4) * size(2) * size(3) - r(2) * r(3) * size(1) * size(4)})
      <3>1. 0 # 0 + n - 1
        BY <1>2
      <3> QED
        BY <3>1, Zenon DEF matchScoreSplitRegion, Plain
    <2>2. matchScoreSplitRegion(M, 0, n - 1, o, o + n - 1)
            = Max({0, s(1) * s(4) * area(2) * area(3) - s(2) * s(3) * area(1) * area(4)})
      <3>1. o # o + n - 1
        BY <1>2
      <3> QED
        BY <3>1, Zenon DEF matchScoreSplitRegion, Plain
    <2>3. ASSUME NEW q \in 1..4 PROVE s(q) = r(q) /\ area(q) = size(q)
      <3>1. /\ Q[q][1] \in 0..(n - 1) /\ Q[q][2] \in 0..(n - 1) /\ Q[q][3] \in 0..(0 + n - 1)
            /\ Q[q][3] + Q[q][2] - Q[q][1] <= 0 + n - 1
        BY <1>2, QuartersInside
      <3>2. R[q][1] = Q[q][1] /\ R[q][2] = Q[q][2] /\ R[q][3] = Q[q][3] + o
        BY <1>2, QuartersShifted
      <3> HIDE DEF Q, R
      <3>3. NaturalCells(P, Q[q][1], Q[q][2], Q[q][3], Q[q][3] + Q[q][2] - Q[q][1])
        BY <3>1 DEF NaturalCells
      <3>4. SameCells(M, P, Q[q][1], Q[q][2], Q[q][3], R[q][3])
        BY <3>1, <3>2 DEF SameCells
      <3>5. /\ Q[q][1] \in Int /\ Q[q][2] \in Int /\ Q[q][3] \in Int
            /\ R[q][1] = Q[q][1] /\ R[q][2] = Q[q][2] /\ R[q][3] \in Int
        BY <3>1, <3>2
      <3>6. Plain(M, Q[q][1], Q[q][2], R[q][3], R[q][4]) = r(q)
        BY <3>3, <3>4, <3>5, PlainShifted
      <3> QED
        BY <3>2, <3>6
    <2> HIDE DEF r, s, size, area
    <2> QED
      BY <2>1, <2>2, <2>3
  <1> QED
    BY <1>1, <1>2

\* A region that begins in this row, and where else it may.
LEMMA RegionNatural ==
  ASSUME NEW M, NEW row \in Int, Width \in Nat, Width > 0,
         NaturalCells(M, 0, Width - 1, row, row + Width - 1)
  PROVE  /\ RegionScore(M, row) \in Nat
         /\ ~split /\ RegionScore(M, row) = 0 => ZeroCells(M, 0, Width - 1, row, row + Width - 1)
  <1> DEFINE W == Width
             to == row + W - 1
             whole == Emphasized(M, 0, W - 1, row, to)
             parts == matchScoreSplitRegion(M, 0, W - 1, row, to)
  <1>1. RegionScore(M, row) = IF split THEN parts ELSE whole
    BY Zenon DEF RegionScore, Emphasized
  <1>2. parts \in Nat
    BY SplitNatural
  <1>3. row + (W - 1) - 0 = to /\ W - 1 \in Int /\ 0 \in Int
    OBVIOUS
  <1>4. NaturalCells(M, 0, W - 1, row, row + (W - 1) - 0)
    BY <1>3
  <1>5. whole \in Nat /\ (whole = 0 => ZeroCells(M, 0, W - 1, row, row + (W - 1) - 0))
    BY <1>3, <1>4, EmphasizedScore
  <1>6. whole = 0 => ZeroCells(M, 0, W - 1, row, to)
    BY <1>3, <1>5
  <1> HIDE DEF whole, parts, to
  <1>7. whole \in Nat
    BY <1>5
  <1> QED
    BY <1>1, <1>2, <1>6, <1>7, Zenon DEF to

LEMMA RegionShifted ==
  ASSUME NEW M, NEW P, NEW o \in Int, Width \in Nat, Width > 0,
         NaturalCells(P, 0, Width - 1, 0, 0 + Width - 1), SameCells(M, P, 0, Width - 1, 0, o)
  PROVE  RegionScore(M, o) = RegionScore(P, 0)
  <1> DEFINE W == Width
  <1>1. /\ RegionScore(M, o) = IF split THEN matchScoreSplitRegion(M, 0, W - 1, o, o + W - 1)
                               ELSE Emphasized(M, 0, W - 1, o, o + W - 1)
        /\ RegionScore(P, 0) = IF split THEN matchScoreSplitRegion(P, 0, W - 1, 0, 0 + W - 1)
                               ELSE Emphasized(P, 0, W - 1, 0, 0 + W - 1)
    BY Zenon DEF RegionScore, Emphasized
  <1>2. matchScoreSplitRegion(M, 0, W - 1, o, o + W - 1)
          = matchScoreSplitRegion(P, 0, W - 1, 0, 0 + W - 1)
    BY SplitShifted
  <1>3. 0 + (W - 1) - 0 = 0 + W - 1 /\ W - 1 \in Int /\ 0 \in Int
    OBVIOUS
  <1>4. NaturalCells(P, 0, W - 1, 0, 0 + (W - 1) - 0)
    BY <1>3
  <1>5. Emphasized(M, 0, W - 1, o, o + W - 1) = Emphasized(P, 0, W - 1, 0, 0 + W - 1)
    BY <1>3, <1>4, EmphasizedShifted
  <1> QED
    BY <1>1, <1>2, <1>5

\* The score depends on nothing else.
LEMMA RegionUnchanged ==
  ASSUME split' = split, database' = database, matrix' = matrix
  PROVE  \A row : RegionScore(matrix, row)' = RegionScore(matrix, row)
  BY Zenon DEF RegionScore, Width

-----------------------------------------------------------------------------
(* The invariant.                                                          *)

\* What FillMatrix makes of these features and the file's.
Filled(features) ==
  [i \in 0..Len(features)-1 |-> [j \in 0..Width-1 |->
     Similarity(euclideanDistance(features[i+1], database[j+1]))]]

\* A matrix was filled, and searched.
Searching ==
  \/ pc \in {"search", "score"}
  \/ pc = "done" /\ user # <<>>
  \/ pc = "aborted" /\ Width > 0

\* The features that are compared are the recording's own unless it had to be padded.
Padded ==
  /\ pc = "start" \/ Len(recording) >= Width => user = recording
  /\ \A i \in 1..Len(recording)-1 : user[i] = recording[i]
  /\ pc \in {"start", "fill"} => k = 0 /\ maxScore = 0 /\ startRow = Unset
  /\ pc = "fill" => Len(user) >= Width /\ user # <<>>
  /\ Searching => Width > 0 /\ Len(user) >= Width /\ matrix = Filled(user)

\* The best score so far, and the first row that has it, if it is positive.
Searched ==
  Searching =>
    /\ k <= Len(user) - Width + 1 /\ (pc # "search" => k = Len(user) - Width + 1)
    /\ \A row \in 0..k-1 : RegionScore(matrix, row) <= maxScore
    /\ startRow = Unset => maxScore = 0
    /\ startRow # Unset =>
         /\ startRow \in 0..k-1 /\ maxScore = RegionScore(matrix, startRow) /\ maxScore > 0
         /\ \A row \in 0..startRow-1 : RegionScore(matrix, row) < maxScore

\* What the caller is left with.
Found ==
  /\ pc = "score" => IF startRow = Unset THEN endRow - Width + 1 \in 0..Len(user)
                     ELSE endRow = startRow + Width - 1
  /\ pc = "aborted" /\ Width > 0 => startRow = Unset
  /\ pc = "done" /\ user # <<>> =>
       score = maxScore /\ \E row \in RegionRows : score = RegionScore(matrix, row)

Inv == TypeOK /\ Padded /\ Searched /\ Found

-----------------------------------------------------------------------------
(* What is filled.                                                         *)

LEMMA Constant ==
  /\ FeatureValues \subseteq Nat /\ Threshold \in Nat /\ MAXFLOAT \in Nat
  /\ Numbers \subseteq Nat /\ FeatureValues \subseteq Numbers
  /\ SplitScorings \subseteq BOOLEAN
  BY ScoringAssumption DEF Numbers

LEMMA SimilarityType == \A x, y \in Int : Similarity(euclideanDistance(x, y)) \in 0..Threshold
  BY Constant DEF Similarity, euclideanDistance, Abs

LEMMA FilledType ==
  ASSUME NEW features \in Seq(Numbers), database \in Seq(FeatureValues)
  PROVE  /\ Filled(features) \in [0..Len(features)-1 -> [0..Width-1 -> 0..Threshold]]
         /\ Width \in Nat /\ Len(features) \in Nat
         /\ \A i \in 0..Len(features)-1, j \in 0..Width-1 :
              Filled(features)[i][j] = Similarity(euclideanDistance(features[i+1], database[j+1]))
  <1>1. Width \in Nat /\ Len(features) \in Nat
    BY DEF Width
  <1>2. \A i \in 0..Len(features)-1 : features[i+1] \in Int
    <2> SUFFICES ASSUME NEW i \in 0..Len(features)-1 PROVE features[i+1] \in Int
      OBVIOUS
    <2>1. i + 1 \in 1..Len(features)
      BY <1>1
    <2>2. features[i+1] \in Numbers
      BY <2>1
    <2>3. features[i+1] \in Nat
      BY <2>2, Constant, Zenon
    <2> QED
      BY <2>3
  <1>3. \A j \in 0..Width-1 : database[j+1] \in Int
    <2> SUFFICES ASSUME NEW j \in 0..Width-1 PROVE database[j+1] \in Int
      OBVIOUS
    <2>1. j + 1 \in 1..Len(database)
      BY <1>1 DEF Width
    <2>2. database[j+1] \in FeatureValues
      BY <2>1
    <2>3. database[j+1] \in Nat
      BY <2>2, Constant, Zenon
    <2> QED
      BY <2>3
  <1>4. ASSUME NEW i \in 0..Len(features)-1, NEW j \in 0..Width-1
        PROVE  Similarity(euclideanDistance(features[i+1], database[j+1])) \in 0..Threshold
    BY <1>2, <1>3, SimilarityType
  <1> QED
    BY <1>1, <1>4 DEF Filled

\* Every region of it is of natural numbers.
LEMMA FilledNatural ==
  ASSUME NEW features \in Seq(Numbers), NEW row \in 0..Len(features)-Width,
         database \in Seq(FeatureValues)
  PROVE  NaturalCells(Filled(features), 0, Width - 1, row, row + Width - 1)
  <1>1. /\ Filled(features) \in [0..Len(features)-1 -> [0..Width-1 -> 0..Threshold]]
        /\ Width \in Nat /\ Len(features) \in Nat
    BY FilledType
  <1> SUFFICES ASSUME NEW i \in row..(row + Width - 1), NEW j \in 0..Width-1
               PROVE  Filled(features)[i][j] \in Nat
    BY DEF NaturalCells
  <1>2. i \in 0..Len(features)-1
    BY <1>1
  <1>3. Filled(features)[i][j] \in 0..Threshold
    BY <1>1, <1>2
  <1> QED
    BY <1>3, Constant

\* What holds of a search.
LEMMA Ready ==
  ASSUME TypeOK, Padded, Searching
  PROVE  /\ Width \in Nat /\ Width > 0 /\ Len(user) \in Nat /\ Len(user) >= Width
         /\ matrix = Filled(user) /\ matrix \in [0..Len(user)-1 -> [0..Width-1 -> 0..Threshold]]
         /\ \A row \in RegionRows : RegionScore(matrix, row) \in Nat
  <1>1. user \in Seq(Numbers) /\ database \in Seq(FeatureValues)
    BY DEF TypeOK
  <1>2. Width > 0 /\ Len(user) >= Width /\ matrix = Filled(user)
    BY DEF Padded
  <1>3. /\ Filled(user) \in [0..Len(user)-1 -> [0..Width-1 -> 0..Threshold]]
        /\ Width \in Nat /\ Len(user) \in Nat
    BY <1>1, FilledType
  <1>4. ASSUME NEW row \in RegionRows PROVE RegionScore(matrix, row) \in Nat
    <2>1. row \in 0..Len(user)-Width /\ row \in Int
      BY <1>3 DEF RegionRows
    <2>2. NaturalCells(Filled(user), 0, Width - 1, row, row + Width - 1)
      BY <1>1, <2>1, FilledNatural
    <2> QED
      BY <1>2, <1>3, <2>1, <2>2, RegionNatural
  <1> QED
    BY <1>2, <1>3, <1>4

LEMMA InitInv == Init => Inv
  <1> SUFFICES ASSUME Init PROVE Inv
    OBVIOUS
  <1>1. recording \in Seq(FeatureValues) /\ database \in Seq(FeatureValues)
    <2>1. UserSizes \subseteq Nat /\ DatabaseSizes \subseteq Nat
      BY ScoringAssumption
    <2>2. PICK n \in UserSizes : recording \in [1..n -> FeatureValues]
      BY DEF Init
    <2>3. PICK m \in DatabaseSizes : database \in [1..m -> FeatureValues]
      BY DEF Init
    <2>4. n \in Nat /\ m \in Nat
      BY <2>1
    <2> QED
      BY <2>2, <2>3, <2>4
  <1>2. recording \in Seq(Numbers)
    <2>1. FeatureValues \subseteq Numbers
      BY DEF Numbers
    <2> QED
      BY <1>1, <2>1
  <1>3. Len(recording) \in Nat
    BY <1>1
  <1>4. ~Searching /\ pc = "start" /\ user = recording
    BY DEF Init, Searching
  <1>5. TypeOK
    BY <1>1, <1>2, <1>3 DEF Init, TypeOK, Unset
  <1> QED
    BY <1>4, <1>5 DEF Init, Inv, Padded, Searched, Found

LEMMA ScoreEmptyInv ==
  ASSUME Inv, ScoreEmpty
  PROVE  Inv'
  <1>1. ~Searching' /\ pc' = "done" /\ user' = user /\ user = <<>> /\ user = recording /\ score' = -1
    BY DEF Inv, Padded, ScoreEmpty, Searching
  <1>2. TypeOK'
    BY DEF Inv, TypeOK, ScoreEmpty, Width
  <1>3. Padded'
    BY <1>1 DEF Padded, ScoreEmpty
  <1> QED
    BY <1>1, <1>2, <1>3 DEF Inv, Searched, Found

LEMMA PadInv ==
  ASSUME Inv, Pad
  PROVE  Inv'
  <1>1. /\ TypeOK /\ user = recording /\ k = 0 /\ maxScore = 0 /\ startRow = Unset
        /\ pc' = "fill" /\ user # <<>>
        /\ user' = IF Len(user) < Width
                   THEN [i \in 1..Width |-> IF i < Len(user) THEN user[i] ELSE MAXFLOAT]
                   ELSE user
        /\ UNCHANGED <<split, recording, database, matrix, k, maxScore, startRow, endRow, score>>
    BY DEF Inv, Padded, Pad
  <1>2. user \in Seq(Numbers) /\ Len(user) \in Nat /\ Width \in Nat /\ Len(user) > 0
    BY <1>1 DEF TypeOK, Width
  <1>3. user' \in Seq(Numbers) /\ Len(user') >= Width /\ Len(user') >= Len(user)
    <2>1. CASE Len(user) < Width
      <3> DEFINE padded == [i \in 1..Width |-> IF i < Len(user) THEN user[i] ELSE MAXFLOAT]
      <3>1. \A i \in 1..Width : (IF i < Len(user) THEN user[i] ELSE MAXFLOAT) \in Numbers
        BY <1>2 DEF Numbers
      <3>2. padded \in [1..Width -> Numbers] /\ user' = padded
        BY <1>1, <2>1, <3>1
      <3> HIDE DEF padded
      <3>3. padded \in Seq(Numbers) /\ Len(padded) = Width
        BY <1>2, <3>2
      <3> QED
        BY <1>2, <2>1, <3>2, <3>3
    <2>2. CASE ~(Len(user) < Width)
      BY <1>1, <1>2, <2>2
    <2> QED
      BY <2>1, <2>2
  <1>4. Len(user') \in Nat /\ Len(user') > 0 /\ user' # <<>>
    BY <1>2, <1>3
  <1>5. TypeOK'
    <2>1. k' \in 0..Len(user')+1 /\ startRow' \in {Unset} \cup 0..Len(user')-Width'
      BY <1>1, <1>4 DEF Width
    <2>2. Len(user') >= Len(recording')
      BY <1>1, <1>3
    <2> QED
      BY <1>1, <1>3, <2>1, <2>2 DEF TypeOK
  <1>6. ~Searching'
    BY <1>1 DEF Searching
  <1>7. Padded'
    <2>1. Width' = Width /\ recording' = recording
      BY <1>1 DEF Width
    <2>2. Len(recording) >= Width => user' = recording
      BY <1>1, <1>2
    <2>3. \A i \in 1..Len(recording)-1 : user'[i] = recording[i]
      <3>1. CASE Len(user) < Width
        BY <1>1, <1>2, <3>1
      <3>2. CASE ~(Len(user) < Width)
        BY <1>1, <3>2
      <3> QED
        BY <3>1, <3>2
    <2> QED
      BY <1>1, <1>3, <1>4, <1>6, <2>1, <2>2, <2>3 DEF Padded
  <1> QED
    BY <1>1, <1>5, <1>6, <1>7 DEF Inv, Searched, Found

LEMMA FillMatrixInv ==
  ASSUME Inv, FillMatrix
  PROVE  Inv'
  <1>1. /\ TypeOK /\ k = 0 /\ maxScore = 0 /\ startRow = Unset /\ Len(user) >= Width
        /\ pc = "fill" /\ (Len(recording) >= Width => user = recording)
        /\ \A i \in 1..Len(recording)-1 : user[i] = recording[i]
        /\ matrix' = Filled(user)
        /\ pc' = IF Width = 0 THEN "aborted" ELSE "search"
        /\ UNCHANGED <<split, recording, user, database, k, maxScore, startRow, endRow, score>>
    BY DEF Inv, Padded, FillMatrix, Filled
  <1>2. /\ Filled(user) \in [0..Len(user)-1 -> [0..Width-1 -> 0..Threshold]]
        /\ Width \in Nat /\ Len(user) \in Nat
    BY <1>1, FilledType DEF TypeOK
  <1>3. Width' = Width /\ Filled(user)' = Filled(user) /\ (Searching' => Width > 0)
    <2>1. Width' = Width
      BY <1>1 DEF Width
    <2>2. Filled(user)' = Filled(user)
      BY <1>1, <2>1 DEF Filled
    <2>3. pc' \in {"aborted", "search"} /\ (pc' = "search" => Width > 0)
      BY <1>1, <1>2
    <2> QED
      BY <2>1, <2>2, <2>3 DEF Searching
  <1>4. TypeOK'
    BY <1>1, <1>2, <1>3 DEF TypeOK
  <1>5. Padded'
    BY <1>1, <1>3 DEF Padded
  <1>6. Searched'
    BY <1>1, <1>2, <1>3 DEF Searched, Searching
  <1>7. Found'
    BY <1>1, <1>3 DEF Found
  <1> QED
    BY <1>4, <1>5, <1>6, <1>7 DEF Inv

LEMMA TryRowInv ==
  ASSUME Inv, TryRow
  PROVE  Inv'
  <1>1. /\ TypeOK /\ Padded /\ Searched /\ pc = "search" /\ Searching /\ pc' = "search" /\ Searching'
        /\ k <= Len(user) - Width /\ k' = k + 1
        /\ UNCHANGED <<split, recording, user, database, matrix, endRow, score, pc>>
    BY DEF Inv, TryRow, Searching
  <1>2. /\ Width \in Nat /\ Width > 0 /\ Len(user) \in Nat /\ Len(user) >= Width
        /\ matrix = Filled(user) /\ matrix \in [0..Len(user)-1 -> [0..Width-1 -> 0..Threshold]]
        /\ \A row \in RegionRows : RegionScore(matrix, row) \in Nat
    BY <1>1, Ready
  <1>3. k \in RegionRows /\ k \in Nat /\ maxScore \in Nat /\ RegionScore(matrix, k) \in Nat
    BY <1>1, <1>2 DEF TypeOK, RegionRows
  <1>4. /\ \A row \in 0..k-1 : RegionScore(matrix, row) \in Nat /\ RegionScore(matrix, row) <= maxScore
        /\ startRow = Unset => maxScore = 0
        /\ startRow # Unset =>
             /\ startRow \in 0..k-1 /\ maxScore = RegionScore(matrix, startRow) /\ maxScore > 0
             /\ \A row \in 0..startRow-1 : RegionScore(matrix, row) < maxScore
    BY <1>1, <1>2, <1>3 DEF Searched, RegionRows
  <1>5. \A row : RegionScore(matrix, row)' = RegionScore(matrix, row)
    BY <1>1, RegionUnchanged
  <1>6. Width' = Width /\ Len(user)' = Len(user) /\ Filled(user)' = Filled(user)
    BY <1>1 DEF Width, Filled
  <1> DEFINE S(row) == RegionScore(matrix, row)
  <1>7. /\ \A row \in 0..k : S(row) <= maxScore'
        /\ maxScore' \in Nat
        /\ startRow' = Unset => maxScore' = 0
        /\ startRow' # Unset =>
             /\ startRow' \in 0..k /\ maxScore' = S(startRow') /\ maxScore' > 0
             /\ \A row \in 0..startRow'-1 : S(row) < maxScore'
    <2>1. \A row \in 0..k : row = k \/ row \in 0..k-1
      BY <1>3
    <2>2. CASE S(k) > maxScore
      <3>1. startRow' = k /\ maxScore' = S(k)
        BY <2>2 DEF TryRow
      <3>2. k # Unset
        BY <1>3 DEF Unset
      <3>3. S(k) \in Nat /\ \A row \in 0..k-1 : S(row) \in Nat /\ S(row) <= maxScore
        BY <1>3, <1>4
      <3> HIDE DEF S
      <3>4. \A row \in 0..k-1 : S(row) < S(k)
        BY <1>3, <2>2, <3>3
      <3> QED
        BY <1>3, <2>1, <2>2, <3>1, <3>2, <3>3, <3>4
    <2>3. CASE ~(S(k) > maxScore)
      <3>1. startRow' = startRow /\ maxScore' = maxScore
        BY <2>3 DEF TryRow
      <3>2. S(k) \in Nat /\ \A row \in 0..k-1 : S(row) \in Nat /\ S(row) <= maxScore
        BY <1>3, <1>4
      <3>3. startRow = Unset => maxScore = 0
        BY <1>4
      <3>4. startRow # Unset =>
             /\ startRow \in 0..k-1 /\ maxScore = S(startRow) /\ maxScore > 0
             /\ \A row \in 0..startRow-1 : S(row) < maxScore
        BY <1>4
      <3> HIDE DEF S
      <3> QED
        BY <1>3, <2>1, <2>3, <3>1, <3>2, <3>3, <3>4
    <2> QED
      BY <2>2, <2>3
  <1>8. TypeOK'
    <2>1. startRow' \in {Unset} \cup 0..Len(user)-Width
      BY <1>1, <1>2, <1>3, <1>7
    <2>2. k' \in 0..Len(user)+1
      BY <1>1, <1>2, <1>3
    <2> QED
      BY <1>1, <1>6, <1>7, <2>1, <2>2 DEF TypeOK
  <1>9. Padded'
    BY <1>1, <1>2, <1>6 DEF Padded
  <1>10. Searched'
    <2>1. k' - 1 = k /\ k' <= Len(user) - Width + 1
      BY <1>1, <1>2, <1>3
    <2>2. /\ \A row \in 0..k'-1 : S(row) <= maxScore'
          /\ startRow' = Unset => maxScore' = 0
          /\ startRow' # Unset =>
               /\ startRow' \in 0..k'-1 /\ maxScore' = S(startRow') /\ maxScore' > 0
               /\ \A row \in 0..startRow'-1 : S(row) < maxScore'
      <3> HIDE DEF S
      <3> QED
        BY <1>7, <2>1
    <2> QED
      BY <1>1, <1>5, <1>6, <2>1, <2>2 DEF Searched
  <1>11. Found'
    BY <1>1 DEF Found
  <1> QED
    BY <1>8, <1>9, <1>10, <1>11 DEF Inv

LEMMA EndSearchInv ==
  ASSUME Inv, EndSearch
  PROVE  Inv'
  <1>1. /\ TypeOK /\ Padded /\ Searched /\ pc = "search" /\ Searching /\ pc' = "score" /\ Searching'
        /\ k > Len(user) - Width
        /\ UNCHANGED <<split, recording, user, database, matrix, k, maxScore, startRow, score>>
    BY DEF Inv, EndSearch, Searching
  <1>2. /\ Width \in Nat /\ Width > 0 /\ Len(user) \in Nat /\ Len(user) >= Width
        /\ matrix = Filled(user)
    BY <1>1, Ready
  <1>3. \A row : RegionScore(matrix, row)' = RegionScore(matrix, row)
    BY <1>1, RegionUnchanged
  <1>4. Width' = Width /\ Len(user)' = Len(user) /\ Filled(user)' = Filled(user)
    BY <1>1 DEF Width, Filled
  <1>5. k \in Nat /\ k = Len(user) - Width + 1
    <2>1. k \in 0..Len(user)+1
      BY <1>1 DEF TypeOK
    <2>2. k <= Len(user) - Width + 1
      BY <1>1 DEF Searched
    <2> QED
      BY <1>1, <1>2, <2>1, <2>2
  <1>6. PICK row \in IF startRow = Unset THEN 0..Len(user) ELSE {startRow} : endRow' = row + Width - 1
    BY DEF EndSearch
  <1>7. row \in Int /\ endRow' \in Int /\ endRow' - Width + 1 = row
    <2>1. row \in Int
      BY <1>1, <1>2, <1>6 DEF TypeOK
    <2> QED
      BY <1>2, <1>6, <2>1
  <1>8. TypeOK'
    BY <1>1, <1>4, <1>7 DEF TypeOK
  <1>9. Padded'
    BY <1>1, <1>2, <1>4 DEF Padded
  <1>10. Searched'
    BY <1>1, <1>3, <1>4, <1>5 DEF Searched
  <1>11. Found'
    BY <1>1, <1>4, <1>6, <1>7 DEF Found
  <1> QED
    BY <1>8, <1>9, <1>10, <1>11 DEF Inv

LEMMA ScoreRegionInv ==
  ASSUME Inv, ScoreRegion
  PROVE  Inv'
  <1>1. /\ TypeOK /\ Padded /\ Searched /\ Found /\ pc = "score" /\ Searching
        /\ UNCHANGED <<split, recording, user, database, matrix, k, maxScore, startRow, endRow>>
    BY DEF Inv, ScoreRegion, Searching
  <1>2. /\ Width \in Nat /\ Width > 0 /\ Len(user) \in Nat /\ Len(user) >= Width
        /\ matrix = Filled(user)
        /\ \A row \in RegionRows : RegionScore(matrix, row) \in Nat
    BY <1>1, Ready
  <1>3. \A row : RegionScore(matrix, row)' = RegionScore(matrix, row)
    BY <1>1, RegionUnchanged
  <1>4. Width' = Width /\ Len(user)' = Len(user) /\ Filled(user)' = Filled(user)
    BY <1>1 DEF Width, Filled
  <1>5. /\ k = Len(user) - Width + 1
        /\ \A row \in RegionRows : RegionScore(matrix, row) <= maxScore
        /\ startRow = Unset => maxScore = 0
        /\ startRow # Unset => startRow \in RegionRows /\ maxScore = RegionScore(matrix, startRow)
    <2>1. k = Len(user) - Width + 1
      BY <1>1 DEF Searched
    <2>2. k - 1 = Len(user) - Width
      BY <1>2, <2>1
    <2> QED
      BY <1>1, <2>1, <2>2 DEF Searched, RegionRows
  <1> DEFINE row == endRow - Width + 1
  <1>6. IF startRow = Unset THEN row \in 0..Len(user) ELSE row = startRow
    <2>1. startRow # Unset => endRow = startRow + Width - 1 /\ startRow \in Int
      BY <1>1, <1>2, <1>5 DEF Found, RegionRows
    <2> QED
      BY <1>1, <1>2, <2>1 DEF Found
  <1>7. CASE endRow < Len(user)
    <2>1. score' = RegionScore(matrix, row) /\ pc' = "done"
      BY <1>7 DEF ScoreRegion
    <2>2. row \in RegionRows
      BY <1>1, <1>2, <1>5, <1>6, <1>7 DEF RegionRows, TypeOK
    <2>3. score' = maxScore /\ score' \in Int
      <3>1. maxScore \in Nat
        BY <1>1 DEF TypeOK
      <3>2. RegionScore(matrix, row) \in Nat /\ RegionScore(matrix, row) <= maxScore
        BY <1>2, <1>5, <2>2
      <3> HIDE DEF row
      <3> QED
        BY <1>5, <1>6, <2>1, <3>1, <3>2
    <2> HIDE DEF row
    <2>4. TypeOK'
      BY <1>1, <1>4, <2>1, <2>3 DEF TypeOK
    <2>5. Found'
      <3>1. RegionRows' = RegionRows
        BY <1>4 DEF RegionRows
      <3>2. \E r \in RegionRows' : score' = RegionScore(matrix, r)'
        BY <1>3, <2>1, <2>2, <3>1
      <3> QED
        BY <1>1, <2>1, <2>3, <3>2 DEF Found
    <2>6. Padded' /\ Searched'
      <3>1. Searching' <=> user' # <<>>
        BY <2>1 DEF Searching
      <3>2. Padded'
        BY <1>1, <1>2, <1>4, <2>1 DEF Padded
      <3>3. Searched'
        BY <1>1, <1>2, <1>3, <1>4, <1>5, <2>1 DEF Searched
      <3> QED
        BY <3>2, <3>3
    <2> QED
      BY <2>4, <2>5, <2>6 DEF Inv
  <1>8. CASE ~(endRow < Len(user))
    <2>1. score' = score /\ pc' = "aborted"
      BY <1>8 DEF ScoreRegion
    <2>2. startRow = Unset
      <3> SUFFICES ASSUME startRow # Unset PROVE FALSE
        OBVIOUS
      <3>1. startRow \in 0..Len(user)-Width /\ endRow = startRow + Width - 1
        BY <1>1, <1>5 DEF RegionRows, Found
      <3> QED
        BY <1>2, <1>8, <3>1
    <2>3. TypeOK'
      BY <1>1, <1>4, <2>1 DEF TypeOK
    <2>4. Padded'
      BY <1>1, <1>2, <1>4, <2>1 DEF Padded
    <2>5. Searched'
      BY <1>1, <1>2, <1>3, <1>4, <1>5, <2>1 DEF Searched
    <2>6. Found'
      BY <1>1, <2>1, <2>2 DEF Found
    <2> QED
      BY <2>3, <2>4, <2>5, <2>6 DEF Inv
  <1> QED
    BY <1>7, <1>8

LEMMA NextInv == Inv /\ [Next]_vars => Inv'
  <1> SUFFICES ASSUME Inv, [Next]_vars PROVE Inv'
    OBVIOUS
  <1>1. ASSUME UNCHANGED vars PROVE Inv'
    <2>1. /\ UNCHANGED <<split, recording, user, database, matrix, k, maxScore, startRow, endRow, score, pc>>
          /\ TypeOK /\ Padded /\ Searched /\ Found
      BY <1>1 DEF vars, Inv
    <2>2. \A row : RegionScore(matrix, row)' = RegionScore(matrix, row)
      BY <2>1, RegionUnchanged
    <2>3. /\ Width' = Width /\ Filled(user)' = Filled(user) /\ (Searching' <=> Searching)
          /\ RegionRows' = RegionRows
      BY <2>1 DEF Width, Filled, Searching, RegionRows
    <2>4. TypeOK'
      BY <2>1, <2>3 DEF TypeOK
    <2>5. Padded'
      BY <2>1, <2>3 DEF Padded
    <2>6. Searched'
      BY <2>1, <2>2, <2>3 DEF Searched
    <2>7. Found'
      BY <2>1, <2>2, <2>3 DEF Found
    <2> QED
      BY <2>4, <2>5, <2>6, <2>7 DEF Inv
  <1> QED
    BY <1>1, ScoreEmptyInv, PadInv, FillMatrixInv, TryRowInv, EndSearchInv, ScoreRegionInv DEF Next

LEMMA Invariance == Spec => []Inv
  BY InitInv, NextInv, PTL DEF Spec

-----------------------------------------------------------------------------
(* The properties.                                                         *)

\* Every variable has its type: the best score and the similarities are natural
\* numbers, the rows tried and chosen are those where a whole region fits.
THEOREM TypeCorrect == Spec => []TypeOK
  <1>1. Inv => TypeOK
    BY DEF Inv
  <1> QED
    BY <1>1, Invariance, PTL

\* bestMatchLocation chooses the first of the best rows, and the caller returns
\* the best score there is, though the row may never have been set.
THEOREM FirstBestIsScored == Spec => []FirstBestRow
  <1>1. Inv => FirstBestRow
    <2> SUFFICES ASSUME Inv PROVE FirstBestRow
      OBVIOUS
    <2>1. ASSUME Searching, pc # "search"
          PROVE  /\ \A row \in RegionRows : RegionScore(matrix, row) \in Nat
                                            /\ RegionScore(matrix, row) <= maxScore
      <3>1. Width \in Nat /\ Len(user) \in Nat /\ \A row \in RegionRows : RegionScore(matrix, row) \in Nat
        BY <2>1, Ready DEF Inv
      <3>2. k = Len(user) - Width + 1 /\ \A row \in 0..k-1 : RegionScore(matrix, row) <= maxScore
        BY <2>1 DEF Inv, Searched
      <3>3. k - 1 = Len(user) - Width
        BY <3>1, <3>2
      <3> QED
        BY <3>1, <3>2, <3>3 DEF RegionRows
    <2>2. ASSUME pc = "score", startRow # Unset
          PROVE  /\ RegionScore(matrix, startRow) > 0
                 /\ \A row \in RegionRows : RegionScore(matrix, row) <= RegionScore(matrix, startRow)
                 /\ \A row \in 0..startRow-1 : RegionScore(matrix, row) < RegionScore(matrix, startRow)
      <3>1. Searching
        BY <2>2 DEF Searching
      <3>2. /\ maxScore = RegionScore(matrix, startRow) /\ maxScore > 0
            /\ \A row \in 0..startRow-1 : RegionScore(matrix, row) < maxScore
        BY <2>2, <3>1 DEF Inv, Searched
      <3> QED
        BY <2>1, <2>2, <3>1, <3>2
    <2>3. ASSUME pc = "done", user # <<>>
          PROVE  score = Max({RegionScore(matrix, row) : row \in RegionRows})
      <3> DEFINE S == {RegionScore(matrix, row) : row \in RegionRows}
      <3>1. Searching
        BY <2>3 DEF Searching
      <3>2. score \in S /\ \A s \in S : s \in Nat /\ s <= score
        BY <2>1, <2>3, <3>1 DEF Inv, Found
      <3> HIDE DEF S
      <3>3. Max(S) \in S /\ \A s \in S : Max(S) >= s
        BY <3>2 DEF Max
      <3>4. score = Max(S)
        BY <3>2, <3>3
      <3> QED
        BY <3>4 DEF S
    <2> QED
      BY <2>2, <2>3 DEF FirstBestRow
  <1> QED
    BY <1>1, Invariance, PTL

\* M.at throws only if no cell of the matrix is positive: a single one that is,
\* the emphasis being positive in the whole region, sets the start row.
LEMMA ThrowsOnZero ==
  ASSUME Inv, ~split, pc = "aborted", Width > 0,
         NEW i \in 0..Len(user)-1, NEW j \in 0..Width-1
  PROVE  matrix[i][j] = 0
  <1>1. Searching /\ TypeOK /\ Padded
    BY DEF Searching, Inv
  <1>2. /\ Width \in Nat /\ Len(user) \in Nat /\ Len(user) >= Width
        /\ matrix = Filled(user)
        /\ \A row \in RegionRows : RegionScore(matrix, row) \in Nat
    BY <1>1, Ready
  <1>3. /\ k = Len(user) - Width + 1 /\ maxScore = 0
        /\ \A row \in 0..k-1 : RegionScore(matrix, row) <= maxScore
    BY <1>1 DEF Inv, Found, Searched
  <1>4. PICK row \in RegionRows : i \in row..(row + Width - 1)
    <2>1. CASE i <= Len(user) - Width
      <3>1. i \in RegionRows /\ i \in i..(i + Width - 1)
        BY <1>2, <2>1 DEF RegionRows
      <3> QED
        BY <3>1
    <2>2. CASE ~(i <= Len(user) - Width)
      <3> DEFINE last == Len(user) - Width
      <3>1. last \in RegionRows /\ i \in last..(last + Width - 1)
        BY <1>2, <2>2 DEF RegionRows
      <3> QED
        BY <3>1
    <2> QED
      BY <2>1, <2>2
  <1>5. row \in 0..Len(user)-Width /\ row \in Int /\ row \in 0..k-1
    BY <1>2, <1>3 DEF RegionRows
  <1>6. RegionScore(matrix, row) = 0
    <2>1. RegionScore(matrix, row) \in Nat /\ RegionScore(matrix, row) <= 0
      BY <1>2, <1>3, <1>4, <1>5
    <2> QED
      BY <2>1
  <1>7. NaturalCells(matrix, 0, Width - 1, row, row + Width - 1)
    BY <1>1, <1>2, <1>5, FilledNatural DEF TypeOK
  <1>8. ZeroCells(matrix, 0, Width - 1, row, row + Width - 1)
    BY <1>2, <1>5, <1>6, <1>7, RegionNatural
  <1> QED
    BY <1>4, <1>8 DEF ZeroCells

\* A recording may throw only if none of its features resembles one of the file;
\* a short one loses its last to the padding (ViewController.mm:222) before that.
THEOREM ThrowsWhenUnlike == Spec => []ThrowsOnlyWhenUnlike
  <1>1. Inv => ThrowsOnlyWhenUnlike
    <2> SUFFICES ASSUME Inv, ~split, pc = "aborted", Width > 0, NEW i \in Compared, NEW j \in 1..Width
                 PROVE  Similarity(euclideanDistance(recording[i], database[j])) = 0
      BY DEF ThrowsOnlyWhenUnlike
    <2>1. Searching /\ TypeOK /\ Padded
      BY DEF Searching, Inv
    <2>2. /\ Width \in Nat /\ Len(user) \in Nat /\ matrix = Filled(user)
          /\ Len(recording) \in Nat /\ Len(user) >= Len(recording)
      BY <2>1, Ready DEF TypeOK
    <2>3. user[i] = recording[i] /\ i \in 1..Len(user)
      <3>1. CASE Len(recording) < Width
        BY <2>1, <2>2, <3>1 DEF Compared, Padded
      <3>2. CASE ~(Len(recording) < Width)
        BY <2>1, <2>2, <3>2 DEF Compared, Padded
      <3> QED
        BY <3>1, <3>2
    <2>4. i - 1 \in 0..Len(user)-1 /\ j - 1 \in 0..Width-1 /\ (i - 1) + 1 = i /\ (j - 1) + 1 = j
      BY <2>2, <2>3
    <2>5. matrix[i-1][j-1] = 0
      BY <2>4, ThrowsOnZero
    <2>6. matrix[i-1][j-1] = Similarity(euclideanDistance(user[i], database[j]))
      BY <2>2, <2>4 DEF Filled
    <2> QED
      BY <2>3, <2>5, <2>6
  <1> QED
    BY <1>1, Invariance, PTL

\* The word, wherever in a recording it is spoken, makes a region the cells of
\* which are those of the file compared with itself.
THEOREM SpokenWord == Spec => []SpokenWordScores
  <1>1. Inv => SpokenWordScores
    <2> SUFFICES ASSUME Inv, pc = "done", Width > 0, NEW o \in 0..Len(recording)-Width,
                        \A i \in 1..Width : recording[o+i] = database[i]
                 PROVE  score >= PerfectScore
      BY DEF SpokenWordScores
    <2>1. /\ TypeOK /\ Padded /\ Len(recording) \in Nat /\ Width \in Nat
          /\ database \in Seq(FeatureValues) /\ database \in Seq(Numbers)
      <3>1. FeatureValues \subseteq Numbers
        BY DEF Numbers
      <3> QED
        BY <3>1 DEF Inv, TypeOK, Width
    <2>2. Len(recording) >= Width /\ user = recording /\ user # <<>>
      <3>1. Len(recording) >= Width
        BY <2>1
      <3>2. user = recording
        BY <2>1, <3>1 DEF Padded
      <3> QED
        BY <2>1, <3>1, <3>2
    <2>3. Searching
      BY <2>2 DEF Searching
    <2>4. /\ matrix = Filled(user)
          /\ \A row \in RegionRows : RegionScore(matrix, row) \in Nat
      BY <2>1, <2>3, Ready
    <2>5. /\ k = Len(user) - Width + 1 /\ score = maxScore
          /\ \A row \in 0..k-1 : RegionScore(matrix, row) <= maxScore
      BY <2>2, <2>3 DEF Inv, Found, Searched
    <2>6. o \in Int /\ o \in 0..k-1
      BY <2>1, <2>2, <2>5
    <2>7. RegionScore(matrix, o) <= score
      BY <2>5, <2>6
    <2> DEFINE P == Filled(database)
    <2>8. PerfectScore = RegionScore(P, 0)
      BY Zenon DEF PerfectScore, Filled, Width
    <2>9. NaturalCells(P, 0, Width - 1, 0, 0 + Width - 1)
      <3>1. 0 \in 0..Len(database)-Width
        BY <2>1 DEF Width
      <3> QED
        BY <2>1, <3>1, FilledNatural
    <2>10. SameCells(matrix, P, 0, Width - 1, 0, o)
      <3> SUFFICES ASSUME NEW i \in 0..Width-1, NEW j \in 0..Width-1
                   PROVE  matrix[i + o][j] = P[i][j]
        BY <2>1, <2>6 DEF SameCells
      <3>1. i + o \in 0..Len(user)-1 /\ i \in 0..Len(database)-1
        BY <2>1, <2>2 DEF Width
      <3>2. matrix[i + o][j] = Similarity(euclideanDistance(user[(i + o) + 1], database[j+1]))
        BY <2>1, <2>4, <3>1, FilledType DEF TypeOK
      <3>3. P[i][j] = Similarity(euclideanDistance(database[i+1], database[j+1]))
        BY <2>1, <3>1, FilledType
      <3>4. user[(i + o) + 1] = database[i+1]
        <4>1. i + 1 \in 1..Width /\ o + (i + 1) = (i + o) + 1
          BY <2>1, <2>6
        <4>2. recording[o + (i + 1)] = database[i + 1]
          BY <4>1
        <4> QED
          BY <2>2, <4>1, <4>2
      <3> QED
        BY <3>2, <3>3, <3>4
    <2> HIDE DEF P
    <2>11. RegionScore(matrix, o) = RegionScore(P, 0)
      BY <2>1, <2>6, <2>9, <2>10, RegionShifted
    <2>12. PerfectScore <= score
      BY <2>7, <2>8, <2>11
    <2>13. score \in Int /\ PerfectScore \in Int
      <3>1. o \in RegionRows
        BY <2>2 DEF RegionRows
      <3>2. RegionScore(matrix, o) \in Nat
        BY <2>4, <3>1
      <3> QED
        BY <2>1, <2>8, <2>11, <3>2 DEF TypeOK
    <2> QED
      BY <2>12, <2>13
  <1> QED
    BY <1>1, Invariance, PTL

-----------------------------------------------------------------------------
(* What the functions read of the matrix.                                  *)

\* The cells that are read for the score of the region from a row on.
ReadCells(row) ==
  IF split /\ Width # 1
    THEN UNION {LET Q == Quarters(0, Width - 1, row, row + Width - 1)[q]
                IN  Cells(Q[1], Q[2], Q[3], Q[4]) : q \in 1..4}
    ELSE Cells(0, Width - 1, row, row + Width - 1)

\* The matrix has them, when bestMatchLocation tries a row and when the caller asks
\* for the score of the region it was given.
ReadsInMatrix ==
  \A row \in Int :
    (\/ pc = "search" /\ k <= Len(user) - Width /\ row = k
     \/ pc = "score" /\ endRow < Len(user) /\ row = endRow - Width + 1)
    => ReadCells(row) \subseteq (0..Len(user)-1) \X (0..Width-1)

\* The quarters of an odd region overlap, but do not leave it.
LEMMA ReadInside ==
  ASSUME NEW n, NEW row, Width \in Nat \ {0}, n \in Nat, row \in 0..n-Width
  PROVE  ReadCells(row) \subseteq (0..n-1) \X (0..Width-1)
  <1> DEFINE w == Width
  <1> HIDE DEF w
  <1>0. w = Width /\ w \in Nat \ {0} /\ row \in Nat /\ row + w <= n
    BY DEF w
  <1>1. ASSUME NEW sc, NEW ec, NEW sr, NEW er,
               sc \in 0..w-1, ec \in 0..w-1, sr \in row..(row + w - 1), sr + ec - sc <= row + w - 1
        PROVE  Cells(sc, ec, sr, er) \subseteq (0..n-1) \X (0..w-1)
    <2> SUFFICES ASSUME NEW i \in sr..(sr + ec - sc), NEW j \in sc..ec
                 PROVE  i \in 0..n-1 /\ j \in 0..w-1
      BY DEF Cells
    <2> QED
      BY <1>0, <1>1
  <1>2. CASE ~(split /\ w # 1)
    <2>1. ReadCells(row) = Cells(0, w - 1, row, row + w - 1)
      BY <1>0, <1>2 DEF ReadCells
    <2>2. Cells(0, w - 1, row, row + w - 1) \subseteq (0..n-1) \X (0..w-1)
      BY <1>0, <1>1
    <2> QED
      BY <1>0, <2>1, <2>2
  <1>3. CASE split /\ w # 1
    <2>1. w > 1
      BY <1>0, <1>3
    <2> DEFINE Q(q) == Quarters(0, w - 1, row, row + w - 1)[q]
               of(q) == Cells(Q(q)[1], Q(q)[2], Q(q)[3], Q(q)[4])
    <2>2. ReadCells(row) = UNION {of(q) : q \in 1..4}
      BY <1>0, <1>3, Zenon DEF ReadCells
    <2>3. ASSUME NEW q \in 1..4 PROVE of(q) \subseteq (0..n-1) \X (0..w-1)
      <3> DEFINE x == Q(q)
      <3>1. x[1] \in 0..w-1 /\ x[2] \in 0..w-1 /\ x[3] \in row..(row + w - 1) /\ x[3] + x[2] - x[1] <= row + w - 1
        BY <1>0, <2>1, QuartersInside
      <3> HIDE DEF x
      <3>2. Cells(x[1], x[2], x[3], x[4]) \subseteq (0..n-1) \X (0..w-1)
        BY <1>1, <3>1
      <3> QED
        BY <3>2 DEF x
    <2> HIDE DEF of
    <2> QED
      BY <1>0, <2>2, <2>3
  <1> QED
    BY <1>2, <1>3

\* For any recording and any file, no region that is tried or scored reads beyond the
\* matrix, also by the quarters of an odd region and the rows that an assert assigned.
THEOREM RegionsInMatrix == Spec => []ReadsInMatrix
  <1>1. Inv => ReadsInMatrix
    <2> SUFFICES ASSUME Inv, NEW row \in Int,
                        \/ pc = "search" /\ k <= Len(user) - Width /\ row = k
                        \/ pc = "score" /\ endRow < Len(user) /\ row = endRow - Width + 1
                 PROVE  ReadCells(row) \subseteq (0..Len(user)-1) \X (0..Width-1)
      BY Zenon DEF ReadsInMatrix
    <2>1. Searching
      BY DEF Searching
    <2>2. Width \in Nat \ {0} /\ Len(user) \in Nat
      BY <2>1, Ready DEF Inv, Padded
    <2>3. row \in 0..Len(user)-Width
      <3>1. CASE pc = "search" /\ k <= Len(user) - Width /\ row = k
        BY <2>2, <3>1 DEF Inv, TypeOK
      <3>2. CASE pc = "score" /\ endRow < Len(user) /\ row = endRow - Width + 1
        <4>1. endRow \in Int /\ startRow \in {Unset} \cup 0..Len(user)-Width
          BY DEF Inv, TypeOK
        <4>2. IF startRow = Unset THEN row \in 0..Len(user) ELSE endRow = startRow + Width - 1
          BY <3>2 DEF Inv, Found
        <4> QED
          BY <2>2, <3>2, <4>1, <4>2
      <3> QED
        BY <3>1, <3>2
    <2> QED
      BY <2>2, <2>3, ReadInside
  <1> QED
    BY <1>1, Invariance, PTL
=============================================================================
