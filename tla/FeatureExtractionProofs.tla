---------------------- MODULE FeatureExtractionProofs ----------------------
(* Proofs about FeatureExtraction, for every file, threshold, filter bank,  *)
(* size of packets and windows.                                             *)
EXTENDS FeatureExtraction, TLAPS, SequenceTheorems, WellFoundedInduction

(* Least and greatest members.  The library's induction theorems take an    *)
(* operator; that the order of numbers is well-founded is a fact about sets. *)

\* A set of natural numbers has a least member.
LEMMA LeastNatural ==
  ASSUME NEW S \in SUBSET Nat, S # {}
  PROVE  \E m \in S : \A n \in S : m <= n
  <1>1. PICK m \in S : \A n \in S : ~ (<<n, m>> \in OpToRel(<, Nat))
    BY NatLessThanWellFounded, WFMin
  <1>2. \A n \in S : ~ (n < m)
    BY <1>1 DEF OpToRel
  <1> QED
    BY <1>2

\* It is Min.
LEMMA MinOfNaturals ==
  ASSUME NEW S \in SUBSET Nat, S # {}
  PROVE  Min(S) \in S /\ \A n \in S : Min(S) <= n
  BY LeastNatural DEF Min

\* Max is the greatest of a set that has a bound.
LEMMA MaxOfNaturals ==
  ASSUME NEW S \in SUBSET Nat, NEW b \in Nat, \A n \in S : n <= b, S # {}
  PROVE  Max(S) \in S /\ \A n \in S : n <= Max(S)
  <1> DEFINE T == {b - n : n \in S}
  <1>1. PICK m \in T : \A n \in T : m <= n
    <2>1. \A n \in S : b - n \in Nat
      OBVIOUS
    <2>2. T # {}
      OBVIOUS
    <2> QED
      BY <2>1, <2>2, LeastNatural
  <1>2. PICK x \in S : m = b - x
    OBVIOUS
  <1>3. \A n \in S : n <= x
    <2>1. \A n \in S : b - x <= b - n
      BY <1>1, <1>2
    <2> QED
      BY <2>1
  <1> QED
    BY <1>3 DEF Max

\* An absolute value is a natural number.
LEMMA AbsNatural == \A x \in Int : Abs(x) \in Nat
  BY DEF Abs

\* b bounds the first n samples.
Below(s, n, b) == \A i \in 1..n : Abs(s[i]) <= b

\* The samples of a file have a bound.
LEMMA SamplesBounded ==
  ASSUME NEW s \in Seq(Int)
  PROVE  \E b \in Nat : \A i \in DOMAIN s : Abs(s[i]) <= b
  <1>0. /\ Len(s) \in Nat /\ DOMAIN s = 1..Len(s)
        /\ \A i \in 1..Len(s) : Abs(s[i]) \in Nat
    <2>1. Len(s) \in Nat /\ DOMAIN s = 1..Len(s) /\ \A i \in 1..Len(s) : s[i] \in Int
      OBVIOUS
    <2>2. \A i \in 1..Len(s) : Abs(s[i]) \in Nat
      BY <2>1, AbsNatural, Zenon
    <2> QED
      BY <2>1, <2>2
  <1> DEFINE Bad == {n \in 0..Len(s) : ~ \E b \in Nat : Below(s, n, b)}
  <1>1. ASSUME Bad # {} PROVE FALSE
    <2>1. PICK m \in Bad : \A n \in Bad : m <= n
      <3>1. Bad \in SUBSET Nat
        BY <1>0
      <3> HIDE DEF Bad
      <3> QED
        BY <1>1, <3>1, LeastNatural
    <2>2. m # 0
      <3>1. Below(s, 0, 0)
        BY DEF Below
      <3> QED
        BY <2>1, <3>1
    <2>3. PICK b \in Nat : Below(s, m-1, b)
      <3>1. m - 1 \in 0..Len(s) /\ m - 1 \notin Bad
        <4>1. m \in 1..Len(s)
          BY <1>0, <2>1, <2>2
        <4>2. m - 1 \in 0..Len(s) /\ ~ (m <= m - 1)
          BY <1>0, <4>1
        <4> QED
          BY <2>1, <4>2
      <3> QED
        BY <3>1
    <2>4. m \in 1..Len(s) /\ Abs(s[m]) \in Nat
      BY <1>0, <2>1, <2>2
    <2>5. Below(s, m, b + Abs(s[m]))
      <3> SUFFICES ASSUME NEW i \in 1..m PROVE Abs(s[i]) <= b + Abs(s[m])
        BY DEF Below
      <3>1. i # m => Abs(s[i]) <= b
        BY <2>3, <2>4 DEF Below
      <3>2. Abs(s[i]) \in Nat
        BY <1>0, <2>4
      <3> QED
        BY <2>4, <3>1, <3>2
    <2>6. b + Abs(s[m]) \in Nat
      BY <2>4
    <2> QED
      BY <2>1, <2>5, <2>6
  <1>2. \E b \in Nat : Below(s, Len(s), b)
    BY <1>0, <1>1
  <1> QED
    BY <1>0, <1>2 DEF Below

\* The magnitude of some samples is that of one of them, and of none is more.
LEMMA MagnitudeReached ==
  ASSUME NEW s \in Seq(Int)
  PROVE  /\ Magnitude(s) \in Nat
         /\ \A i \in DOMAIN s : Abs(s[i]) <= Magnitude(s)
         /\ s # <<>> => \E i \in DOMAIN s : Abs(s[i]) = Magnitude(s)
         /\ s = <<>> => Magnitude(s) = 0
  <1> DEFINE S == {Abs(s[i]) : i \in DOMAIN s} \cup {0}
  <1>0. \A i \in DOMAIN s : Abs(s[i]) \in Nat
    BY AbsNatural
  <1>1. PICK b \in Nat : \A i \in DOMAIN s : Abs(s[i]) <= b
    BY SamplesBounded
  <1>2. S \in SUBSET Nat /\ S # {} /\ \A n \in S : n <= b
    BY <1>0, <1>1
  <1>3. Max(S) \in S /\ \A n \in S : n <= Max(S)
    BY <1>2, MaxOfNaturals
  <1>4. Magnitude(s) = Max(S)
    BY DEF Magnitude
  <1>5. ASSUME s # <<>> PROVE \E i \in DOMAIN s : Abs(s[i]) = Magnitude(s)
    <2>1. 1 \in DOMAIN s /\ Abs(s[1]) <= Magnitude(s)
      BY <1>3, <1>4, <1>5
    <2>2. CASE Magnitude(s) = 0
      BY <1>0, <2>1, <2>2
    <2>3. CASE Magnitude(s) # 0
      BY <1>3, <1>4, <2>3
    <2> QED
      BY <2>2, <2>3
  <1>6. ASSUME s = <<>> PROVE Magnitude(s) = 0
    BY <1>3, <1>4, <1>6
  <1> QED
    BY <1>2, <1>3, <1>4, <1>5, <1>6

-----------------------------------------------------------------------------
(* The filter bank.                                                         *)

\* The center of a triangle lies right of its left edge.
LEMMA CenterInside ==
  ASSUME NEW left \in Int, NEW right \in Int, left < right
  PROVE  Center(left, right) \in left+1..right
  BY DEF Center

\* A triangle whose size fits has the fields it is made of.
LEMMA TriangleFits ==
  ASSUME NEW left \in Int, NEW right \in Int, left < right, Fits(TriangleFilter(left, right))
  PROVE  /\ TriangleFilter(left, right).left = left /\ TriangleFilter(left, right).right = right
         /\ TriangleFilter(left, right).size = right - left + 1
         /\ TriangleFilter(left, right).data
              = LeftSide(left, right) \cup RightSide(left, right, right - left + 1)
  <1>1. right - left + 1 \in Nat /\ right - left + 1 < SizeMod
    BY DEF Fits, TriangleFilter
  <1>2. (right - left + 1) % SizeMod = right - left + 1
    BY <1>1, SizeModAssumption
  <1> QED
    BY <1>2 DEF TriangleFilter

\* Its ramps fill it.
LEMMA TriangleFilled ==
  ASSUME NEW left \in Int, NEW right \in Int, left < right, Fits(TriangleFilter(left, right))
  PROVE  Filled(TriangleFilter(left, right))
  <1> DEFINE c == Center(left, right)
             f == TriangleFilter(left, right)
             rise == LeftSide(left, right)
             fall == RightSide(left, right, right - left + 1)
  <1>1. c \in left+1..right
    BY CenterInside
  <1>2. f.size = right - left + 1 /\ f.data = rise \cup fall
    BY TriangleFits
  <1>3. rise = {[at |-> k, num |-> k, den |-> c - left] : k \in 0..c-left-1}
    BY DEF LeftSide
  <1>4. /\ right - c # 0 =>
              fall = {[at |-> (right - left + 1) - (right - c) - 1 + k, num |-> (right - c) - k, den |-> right - c]
                       : k \in 0..right-c}
        /\ right - c = 0 => fall = {[at |-> (right - left + 1) - 1, num |-> 1, den |-> 1]}
    BY DEF RightSide
  <1> HIDE DEF c, f, rise, fall
  <1>5. \A w \in rise : w.at \in 0..c-left-1 /\ w = [at |-> w.at, num |-> w.at, den |-> c - left]
    BY <1>1, <1>3
  <1>6. /\ \A w \in fall : w.at \in c-left..right-left
        /\ \A v, w \in fall : v.at = w.at => v = w
    <2>1. CASE right - c = 0
      <3>1. \A w \in fall : w = [at |-> (right - left + 1) - 1, num |-> 1, den |-> 1]
        BY <1>4, <2>1
      <3>2. (right - left + 1) - 1 \in c-left..right-left
        BY <1>1, <2>1
      <3>3. \A w \in fall : w.at = (right - left + 1) - 1
        BY <3>1
      <3>4. \A v, w \in fall : v = w
        BY <3>1, Zenon
      <3> QED
        BY <3>2, <3>3, <3>4
    <2>2. CASE right - c # 0
      <3>1. ASSUME NEW k \in 0..right-c,
                   NEW w, w = [at |-> (right - left + 1) - (right - c) - 1 + k, num |-> (right - c) - k, den |-> right - c]
            PROVE  w.at \in c-left..right-left
                   /\ w = [at |-> w.at, num |-> right - left - w.at, den |-> right - c]
        <4>1. (right - left + 1) - (right - c) - 1 + k = c - left + k
          BY <1>1
        <4>2. w.at = c - left + k /\ w.num = right - left - w.at
          BY <1>1, <3>1, <4>1
        <4> QED
          BY <1>1, <3>1, <4>2
      <3>2. \A w \in fall : w.at \in c-left..right-left
                            /\ w = [at |-> w.at, num |-> right - left - w.at, den |-> right - c]
        BY <1>4, <2>2, <3>1
      <3> QED
        BY <3>2
    <2> QED
      BY <2>1, <2>2
  <1>7. \A v, w \in f.data : v.at = w.at => v = w
    <2> SUFFICES ASSUME NEW v \in rise \cup fall, NEW w \in rise \cup fall, v.at = w.at PROVE v = w
      BY <1>2
    <2>1. CASE v \in rise /\ w \in rise
      BY <1>5, <2>1
    <2>2. CASE v \in fall /\ w \in fall
      BY <1>6, <2>2
    <2>3. CASE v \in rise /\ w \in fall
      BY <1>1, <1>5, <1>6, <2>3
    <2>4. CASE v \in fall /\ w \in rise
      BY <1>1, <1>5, <1>6, <2>4
    <2> QED
      BY <2>1, <2>2, <2>3, <2>4
  <1>8. ASSUME NEW n \in 0..right-left PROVE \E w \in rise \cup fall : w.at = n
    <2>1. CASE n < c - left
      <3>1. [at |-> n, num |-> n, den |-> c - left] \in rise
        BY <1>1, <1>3, <2>1
      <3> QED
        BY <3>1
    <2>2. CASE n >= c - left
      <3>1. n - (c - left) \in 0..right-c
        BY <1>1, <2>2
      <3>2. CASE right - c = 0
        <4>1. [at |-> (right - left + 1) - 1, num |-> 1, den |-> 1] \in fall /\ (right - left + 1) - 1 = n
          BY <1>1, <1>4, <3>1, <3>2
        <4> QED
          BY <4>1
      <3>3. CASE right - c # 0
        <4>1. [at |-> (right - left + 1) - (right - c) - 1 + (n - (c - left)),
               num |-> (right - c) - (n - (c - left)), den |-> right - c] \in fall
          BY <1>4, <3>1, <3>3
        <4>2. (right - left + 1) - (right - c) - 1 + (n - (c - left)) = n
          BY <1>1
        <4> QED
          BY <4>1, <4>2
      <3> QED
        BY <3>2, <3>3
    <2> QED
      BY <1>1, <2>1, <2>2
  <1>9. {w.at : w \in f.data} = 0..f.size-1
    <2>1. \A w \in f.data : w.at \in 0..f.size-1
      BY <1>1, <1>2, <1>5, <1>6
    <2>2. \A n \in 0..f.size-1 : \E w \in f.data : w.at = n
      BY <1>2, <1>8
    <2> QED
      BY <2>1, <2>2
  <1> QED
    BY <1>7, <1>9 DEF Filled, f

\* It weighs nothing beyond its edges, and its right edge only if that is next to
\* the left one.
LEMMA TriangleWeighs ==
  ASSUME NEW left \in Nat, NEW right \in Nat, left < right, Fits(TriangleFilter(left, right)),
         NEW w \in TriangleFilter(left, right).data
  PROVE  /\ left + w.at \in 0..right
         /\ left + w.at = right => (w.num # 0 <=> left = right - 1)
  <1>1. Center(left, right) \in left+1..right
        /\ (Center(left, right) = right <=> left = right - 1)
    BY DEF Center
  <1>2. CASE w \in LeftSide(left, right)
    BY <1>1, <1>2 DEF LeftSide
  <1>3. CASE w \in RightSide(left, right, right - left + 1)
    <2>1. CASE right - Center(left, right) = 0
      <3>1. w = [at |-> (right - left + 1) - 1, num |-> 1, den |-> 1]
        BY <1>3, <2>1 DEF RightSide
      <3>2. w.at = right - left /\ w.num # 0
        BY <3>1
      <3> QED
        BY <1>1, <2>1, <3>2
    <2>2. CASE right - Center(left, right) # 0
      <3>1. PICK k \in 0..right-Center(left, right) :
              w = [at |-> (right - left + 1) - (right - Center(left, right)) - 1 + k,
                   num |-> (right - Center(left, right)) - k, den |-> right - Center(left, right)]
        BY <1>3, <2>2 DEF RightSide
      <3>2. w.at = Center(left, right) - left + k /\ w.num = right - Center(left, right) - k
        BY <1>1, <3>1
      <3> QED
        BY <1>1, <2>2, <3>2
    <2> QED
      BY <2>1, <2>2
  <1> QED
    BY <1>2, <1>3, TriangleFits

-----------------------------------------------------------------------------
(* preprocess.                                                              *)

\* The next packet is what follows in the file, up to a packet of it.
LEMMA PacketRead ==
  ASSUME file \in Seq(Int), total \in 0..Len(file)
  PROVE  /\ Packet \in Seq(Int) /\ Len(Packet) \in 0..PacketSize
         /\ total + Len(Packet) <= Len(file)
         /\ \A i \in 1..Len(Packet) : Packet[i] = file[total + i]
         /\ Packet = <<>> <=> total = Len(file)
  <1> DEFINE last == Min({total + PacketSize, Len(file)})
  <1>1. total + PacketSize \in Nat /\ Len(file) \in Nat /\ PacketSize \in Nat \ {0}
    BY PacketSizeAssumption
  <1>2. /\ last \in {total + PacketSize, Len(file)}
        /\ last <= total + PacketSize /\ last <= Len(file)
    BY <1>1, MinOfNaturals
  <1>3. last \in total..Len(file) /\ last - total <= PacketSize
        /\ (last = total <=> total = Len(file))
    BY <1>1, <1>2
  <1> HIDE DEF last
  <1>4. /\ SubSeq(file, total + 1, last) \in Seq(Int)
        /\ Len(SubSeq(file, total + 1, last)) = last - total
        /\ \A i \in 1..last-total : SubSeq(file, total + 1, last)[i] = file[total + i]
    BY <1>1, <1>3
  <1>5. Packet = SubSeq(file, total + 1, last)
    BY DEF Packet, last
  <1>6. Packet = <<>> <=> Len(Packet) = 0
    <2>1. Packet \in Seq(Int)
      BY <1>4, <1>5
    <2> QED
      BY <2>1
  <1> QED
    BY <1>1, <1>3, <1>4, <1>5, <1>6

\* A packet laid over the one before is a packet.
LEMMA Overlaid ==
  ASSUME NEW p \in Seq(Int), Len(p) \in 0..PacketSize, NEW q \in Seq(Int), Len(q) = PacketSize
  PROVE  LET o == p \o SubSeq(q, Len(p) + 1, PacketSize)
         IN  o \in Seq(Int) /\ Len(o) = PacketSize
  <1>1. PacketSize \in Nat
    BY PacketSizeAssumption
  <1>2. /\ SubSeq(q, Len(p) + 1, PacketSize) \in Seq(Int)
        /\ Len(SubSeq(q, Len(p) + 1, PacketSize)) = PacketSize - Len(p)
    BY <1>1
  <1> QED
    BY <1>1, <1>2

\* In a packet with a loud sample, Onset is the sample itself or the crossing left
\* of it, and no crossing lies between.
LEMMA OnsetPlace ==
  ASSUME NEW p \in Seq(Int), NEW i \in DOMAIN p, Loud(p[i])
  PROVE  \E loud \in DOMAIN p :
           /\ Loud(p[loud]) /\ \A k \in 1..loud-1 : ~Loud(p[k])
           /\ Onset(p) \in 0..loud-1
           /\ Crossings(p, Onset(p) + 1, loud) = {}
  <1> DEFINE L == {k \in DOMAIN p : Loud(p[k])} \cup {Len(p) + 1}
             loud == Min(L)
             C == Crossings(p, 1, loud)
  <1>1. Len(p) \in Nat /\ DOMAIN p = 1..Len(p)
    OBVIOUS
  <1>2. L \in SUBSET Nat /\ L # {} /\ i \in L /\ i <= Len(p)
    BY <1>1
  <1>3. loud \in L /\ \A k \in L : loud <= k
    BY <1>2, MinOfNaturals
  <1>4. loud \in DOMAIN p /\ Loud(p[loud]) /\ \A k \in 1..loud-1 : ~Loud(p[k])
    <2>1. loud <= i /\ loud \in Nat
      BY <1>2, <1>3
    <2>2. loud \in DOMAIN p /\ Loud(p[loud])
      BY <1>1, <1>2, <1>3, <2>1
    <2>3. \A k \in 1..loud-1 : k \in DOMAIN p /\ ~(loud <= k)
      BY <1>1, <2>2
    <2> QED
      BY <1>3, <2>2, <2>3
  <1>5. Onset(p) = IF C = {} THEN loud - 1 ELSE Max(C) - 1
    BY DEF Onset
  <1> HIDE DEF loud
  <1>6. loud \in Nat /\ loud > 0
    BY <1>1, <1>4
  <1>7. Onset(p) \in 0..loud-1 /\ Crossings(p, Onset(p) + 1, loud) = {}
    <2>1. CASE C = {}
      <3>1. Onset(p) = loud - 1 /\ Onset(p) + 1 = loud
        BY <1>5, <1>6, <2>1
      <3>2. Crossings(p, loud, loud) = {}
        BY <1>6 DEF Crossings
      <3> QED
        BY <1>6, <3>1, <3>2
    <2>2. CASE C # {}
      <3>1. C \in SUBSET Nat /\ C \subseteq 2..loud
        BY <1>6 DEF Crossings
      <3>2. \A n \in C : n <= loud
        BY <1>6, <3>1
      <3> DEFINE m == Max(C)
      <3>3. m \in C /\ \A k \in C : k <= m
        BY <1>6, <2>2, <3>1, <3>2, MaxOfNaturals
      <3>4. Onset(p) = m - 1 /\ m \in 2..loud
        BY <1>5, <2>2, <3>1, <3>3
      <3> HIDE DEF m
      <3>5. \A k \in Crossings(p, m, loud) : k \in C /\ ~(k <= m)
        BY <1>6, <3>4 DEF Crossings
      <3>6. Crossings(p, m, loud) = {}
        BY <3>3, <3>5
      <3> QED
        BY <1>6, <3>4, <3>6
    <2> QED
      BY <2>1, <2>2
  <1> QED
    BY <1>4, <1>7

\* The end lies in the packet before the one that is read.
LEMMA EndPlace ==
  ASSUME process \in Seq(Int), Len(process) = PacketSize, total \in Nat
  PROVE  EndLocation \in total-PacketSize..total-1
  <1> DEFINE M == {i \in 1..PacketSize : Abs(process[i]) = Magnitude(process)}
             C == Crossings(process, Offset + 1, PacketSize)
  <1>1. PacketSize \in Nat \ {0} /\ DOMAIN process = 1..PacketSize /\ process # <<>>
    BY PacketSizeAssumption
  <1>2. M \in SUBSET Nat /\ M # {} /\ \A n \in M : n <= PacketSize
    BY <1>1, MagnitudeReached
  <1>3. Max(M) \in M
    BY <1>1, <1>2, MaxOfNaturals
  <1>4. Offset \in 0..PacketSize-1
    BY <1>1, <1>3 DEF Offset
  <1>5. EndLocation = total - PacketSize + (IF C = {} THEN Offset ELSE Min(C) - 1)
    BY DEF EndLocation
  <1>6. CASE C = {}
    BY <1>1, <1>4, <1>5, <1>6
  <1>7. CASE C # {}
    <2>1. C \subseteq 1..PacketSize
      BY <1>1, <1>4 DEF Crossings
    <2>2. C \in SUBSET Nat
      BY <2>1
    <2>3. Min(C) \in C
      BY <1>7, <2>2, MinOfNaturals
    <2> QED
      BY <1>1, <1>5, <1>7, <2>1, <2>3
  <1> QED
    BY <1>6, <1>7

\* What the program is given.
Given ==
  /\ file \in Seq(Int) /\ ratio.begin \in Nat /\ ratio.end \in Nat
  /\ bank.edges \in Seq(Nat) /\ Len(bank.edges) >= 2 /\ bank.bins \in Nat
  /\ \A i, j \in DOMAIN bank.edges : i <= j => bank.edges[i] <= bank.edges[j]

\* The types of the reader.
ReaderTyped ==
  /\ reading \in {"peak", "threshold", "trimmed", "untrimmed"} /\ looking \in BOOLEAN
  /\ total \in 0..Len(file) /\ process \in Seq(Int) /\ Len(process) = PacketSize
  /\ info \in Infos

\* The start lies in what was read, and before its end while the end is sought.
Trim ==
  /\ reading = "peak" => looking
  /\ looking => info.start = 0
  /\ info.start <= total
  /\ reading = "threshold" /\ ~looking => info.start < total
  /\ reading = "trimmed" => info.end \in 0..Len(file) /\ info.start < info.end + PacketSize
  /\ reading # "trimmed" => info.end = 0

\* No loud sample was read before the onset was found.
Quiet == reading = "threshold" /\ looking => \A i \in 0..total-1 : ~Loud(file[i+1])

\* The invariant of preprocess.
ReaderInv == ReaderTyped /\ Trim /\ Quiet /\ StartsAtOnset

\* A product grows with its first factor.
LEMMA ProductMonotone ==
  ASSUME NEW x \in Nat, NEW y \in Nat, NEW n \in Nat, x <= y
  PROVE  x * n <= y * n
  <1>1. (y - x) \in Nat /\ (y - x) * n \in Nat
    OBVIOUS
  <1>2. y * n = x * n + (y - x) * n
    OBVIOUS
  <1>3. x * n \in Nat /\ y * n \in Nat
    OBVIOUS
  <1> QED
    BY <1>1, <1>2, <1>3

\* What was loud stays loud, and the onset found is the onset.
LEMMA OnsetKept ==
  ASSUME fileVars' = fileVars, info'.peak = info.peak, info'.start = info.start
  PROVE  /\ \A x : Loud(x)' <=> Loud(x)
         /\ looking' = looking /\ StartsAtOnset => StartsAtOnset'
  <1>1. file' = file /\ ratio' = ratio
    BY DEF fileVars
  <1>2. \A x : Loud(x)' <=> Loud(x)
    BY <1>1 DEF Loud
  <1>3. LoudAt' = LoudAt
    BY <1>1 DEF LoudAt, Loud
  <1> QED
    BY <1>1, <1>2, <1>3 DEF StartsAtOnset

\* The values that are read and counted.
LEMMA Reads ==
  ASSUME Given, ReaderTyped
  PROVE  /\ file \in Seq(Int) /\ Len(file) \in Nat /\ PacketSize \in Nat /\ PacketSize > 0
         /\ total \in Nat /\ total <= Len(file)
         /\ info.peak \in Nat /\ info.start \in Nat /\ info.end \in Nat
         /\ Packet \in Seq(Int) /\ Len(Packet) \in Nat /\ Len(Packet) <= PacketSize
         /\ total + Len(Packet) <= Len(file)
         /\ \A i \in 1..Len(Packet) : Packet[i] = file[total + i]
         /\ Packet = <<>> <=> total = Len(file)
         /\ Packet = <<>> <=> Len(Packet) = 0
         /\ DOMAIN Packet = 1..Len(Packet)
  <1>1. file \in Seq(Int) /\ total \in 0..Len(file) /\ info \in Infos
    BY Zenon DEF Given, ReaderTyped
  <1>2. Len(file) \in Nat /\ PacketSize \in Nat /\ PacketSize > 0
    BY <1>1, PacketSizeAssumption
  <1>3. info.peak \in Nat /\ info.start \in Nat /\ info.end \in Nat
    BY <1>1 DEF Infos
  <1>4. /\ Packet \in Seq(Int) /\ Len(Packet) \in 0..PacketSize
        /\ total + Len(Packet) <= Len(file)
        /\ \A i \in 1..Len(Packet) : Packet[i] = file[total + i]
        /\ Packet = <<>> <=> total = Len(file)
    BY <1>1, PacketRead
  <1>5. DOMAIN Packet = 1..Len(Packet) /\ (Packet = <<>> <=> Len(Packet) = 0)
    BY <1>4
  <1> QED
    BY <1>1, <1>2, <1>3, <1>4, <1>5

\* Setting a field of what is returned.
LEMMA InfoSet ==
  ASSUME info \in Infos, NEW n \in Nat
  PROVE  /\ [info EXCEPT !.start = n] \in Infos /\ [info EXCEPT !.start = n].start = n
         /\ [info EXCEPT !.start = n].peak = info.peak /\ [info EXCEPT !.start = n].end = info.end
         /\ [info EXCEPT !.end = n] \in Infos /\ [info EXCEPT !.end = n].end = n
         /\ [info EXCEPT !.end = n].peak = info.peak /\ [info EXCEPT !.end = n].start = info.start
  BY DEF Infos

\* It holds before anything is read.
LEMMA ReaderInit == Given /\ FileInit => ReaderInv
  <1> SUFFICES ASSUME Given, FileInit PROVE ReaderInv
    OBVIOUS
  <1>1. PacketSize \in Nat
    BY PacketSizeAssumption
  <1>2. process \in Seq(Int) /\ Len(process) = PacketSize
    <2>1. process = [i \in 1..PacketSize |-> 0]
      BY DEF FileInit
    <2> QED
      BY <1>1, <2>1
  <1>3. Len(file) \in Nat
    BY DEF Given
  <1>4. ReaderTyped
    <2>1. NoInfo \in Infos
      BY DEF NoInfo, Infos
    <2>2. total \in 0..Len(file)
      BY <1>3 DEF FileInit
    <2> QED
      BY <1>2, <2>1, <2>2 DEF FileInit, ReaderTyped
  <1>5. Trim /\ Quiet /\ StartsAtOnset
    BY DEF FileInit, NoInfo, Trim, Quiet, StartsAtOnset
  <1> QED
    BY <1>4, <1>5 DEF ReaderInv

\* The first packet with a loud sample has the onset of the file.
LEMMA BeginFinds ==
  ASSUME Given, ReaderInv, BeginPacket, Packet # <<>>
  PROVE  /\ Onset(Packet) \in 0..Len(Packet)-1
         /\ StartsAtOnset'
  <1>1. /\ Packet \in Seq(Int) /\ Len(Packet) \in Nat /\ Len(Packet) <= PacketSize /\ total \in Nat
        /\ total + Len(Packet) <= Len(file) /\ Len(file) \in Nat /\ PacketSize \in Nat
        /\ DOMAIN Packet = 1..Len(Packet) /\ (Packet = <<>> <=> Len(Packet) = 0)
        /\ \A i \in 1..Len(Packet) : Packet[i] = file[total + i]
    BY Reads DEF ReaderInv
  <1>2. PICK i \in DOMAIN Packet : Loud(Packet[i])
    <2>1. PICK i \in DOMAIN Packet : Abs(Packet[i]) = Magnitude(Packet)
      BY <1>1, MagnitudeReached
    <2>2. Magnitude(Packet) \in Nat /\ Abs(Magnitude(Packet)) = Magnitude(Packet)
      BY <1>1, MagnitudeReached DEF Abs
    <2>3. Loud(Magnitude(Packet))
      BY DEF BeginPacket
    <2> QED
      BY <2>1, <2>2, <2>3 DEF Loud
  <1>3. PICK loud \in DOMAIN Packet :
           /\ Loud(Packet[loud]) /\ \A k \in 1..loud-1 : ~Loud(Packet[k])
           /\ Onset(Packet) \in 0..loud-1
           /\ Crossings(Packet, Onset(Packet) + 1, loud) = {}
    BY <1>1, <1>2, OnsetPlace
  <1>4. loud \in 1..Len(Packet)
    BY <1>1, <1>3
  <1>5. info'.start = total + Onset(Packet) /\ info'.peak = info.peak /\ fileVars' = fileVars
    BY DEF BeginPacket, ReaderInv, ReaderTyped, Infos
  <1>6. LoudAt' = LoudAt
    BY <1>5 DEF LoudAt, Loud, fileVars
  <1>7. total + loud - 1 \in LoudAt /\ \A k \in LoudAt : total + loud - 1 <= k
    <2>1. total + loud - 1 \in 0..Len(file)-1 /\ file[total + loud - 1 + 1] = Packet[loud]
      BY <1>1, <1>4
    <2>2. ASSUME NEW k \in LoudAt, k < total + loud - 1 PROVE FALSE
      <3>1. k \in 0..Len(file)-1 /\ Loud(file[k+1])
        BY <2>2 DEF LoudAt
      <3>2. CASE k < total
        BY <1>1, <3>1, <3>2 DEF ReaderInv, Quiet, BeginPacket
      <3>3. CASE k >= total
        <4>1. k + 1 - total \in 1..loud-1 /\ k + 1 - total \in 1..Len(Packet) /\ total + (k + 1 - total) = k + 1
          BY <1>1, <1>4, <2>2, <3>1, <3>3
        <4> QED
          BY <1>1, <1>3, <3>1, <4>1
      <3> QED
        BY <1>1, <3>1, <3>2, <3>3
    <2>3. total + loud - 1 \in LoudAt
      BY <1>3, <2>1 DEF LoudAt
    <2>4. \A k \in LoudAt : k \in Nat
      BY DEF LoudAt
    <2> QED
      BY <1>1, <1>4, <2>2, <2>3, <2>4
  <1>8. Min(LoudAt) = total + loud - 1
    <2>1. LoudAt \in SUBSET Nat
      BY DEF LoudAt
    <2> DEFINE m == Min(LoudAt)
    <2>2. m \in LoudAt /\ \A k \in LoudAt : m <= k
      BY <1>7, <2>1, MinOfNaturals
    <2> HIDE DEF m
    <2>3. m <= total + loud - 1 /\ total + loud - 1 <= m /\ m \in Nat
      BY <1>7, <2>1, <2>2
    <2>4. m = total + loud - 1
      <3>1. total + loud - 1 \in Int
        BY <1>1, <1>4
      <3> QED
        BY <2>3, <3>1
    <2> QED
      BY <2>4 DEF m
  <1>9. Crossings(file, info'.start + 1, Min(LoudAt) + 1) = {}
    <2> DEFINE o == Onset(Packet)
    <2>1. o \in Nat /\ info'.start + 1 = total + o + 1 /\ Min(LoudAt) + 1 = total + loud
      BY <1>1, <1>3, <1>4, <1>5, <1>8
    <2> HIDE DEF o
    <2>2. ASSUME NEW k \in Crossings(file, total + o + 1, total + loud) PROVE FALSE
      <3>1. k \in total+o+2..total+loud /\ (file[k] < 0) # (file[k-1] < 0)
        <4>1. k \in total+o+1+1..total+loud /\ (file[k] < 0) # (file[k-1] < 0)
          BY <2>2 DEF Crossings
        <4> QED
          BY <1>1, <2>1, <4>1
      <3>2. /\ k - total \in o+2..loud /\ k - total \in 1..Len(Packet) /\ k - total - 1 \in 1..Len(Packet)
            /\ total + (k - total) = k /\ total + (k - total - 1) = k - 1
        BY <1>1, <1>4, <2>1, <3>1
      <3>3. (Packet[k - total] < 0) # (Packet[k - total - 1] < 0)
        BY <1>1, <3>1, <3>2
      <3>4. k - total \in Crossings(Packet, o + 1, loud)
        BY <1>4, <2>1, <3>2, <3>3 DEF Crossings
      <3> QED
        BY <1>3, <3>4 DEF o
    <2> QED
      BY <2>1, <2>2
  <1>10. StartsAtOnset'
    <2>1. info'.start <= Min(LoudAt) /\ Min(LoudAt) - info'.start < PacketSize
      BY <1>1, <1>3, <1>4, <1>5, <1>8, PacketSizeAssumption
    <2>2. file' = file
      BY <1>5 DEF fileVars
    <2> QED
      BY <1>6, <1>9, <2>1, <2>2 DEF StartsAtOnset
  <1> QED
    BY <1>1, <1>3, <1>4, <1>10

\* The packet that is read moves the reader on and becomes the one before.
LEMMA AdvanceTyped ==
  ASSUME Given, ReaderTyped, Advance
  PROVE  /\ process' \in Seq(Int) /\ Len(process') = PacketSize
         /\ total' = total + Len(Packet) /\ total' \in 0..Len(file)
         /\ Packet = <<>> => reading' = "untrimmed" /\ total' = total /\ total = Len(file)
         /\ Packet # <<>> => reading' = "threshold" /\ total < total'
  <1>1. /\ Packet \in Seq(Int) /\ Len(Packet) \in 0..PacketSize /\ total \in Nat
        /\ total + Len(Packet) <= Len(file) /\ Len(file) \in Nat
        /\ Packet = <<>> <=> total = Len(file)
    BY Reads
  <1>2. process' \in Seq(Int) /\ Len(process') = PacketSize
    BY <1>1, Overlaid DEF Advance, ReaderTyped
  <1>3. Packet = <<>> <=> Len(Packet) = 0
    BY <1>1
  <1> QED
    BY <1>1, <1>2, <1>3 DEF Advance

\* Every step of preprocess keeps it.
LEMMA ReaderNext ==
  ASSUME Given, ReaderInv, preprocess
  PROVE  ReaderInv'
  <1>1. /\ Packet \in Seq(Int) /\ Len(Packet) \in Nat /\ Len(Packet) <= PacketSize /\ total \in Nat
        /\ total + Len(Packet) <= Len(file) /\ Len(file) \in Nat /\ PacketSize \in Nat
        /\ DOMAIN Packet = 1..Len(Packet) /\ (Packet = <<>> <=> Len(Packet) = 0)
        /\ \A i \in 1..Len(Packet) : Packet[i] = file[total + i]
    BY Reads DEF ReaderInv
  <1>2. fileVars' = fileVars /\ file' = file
    BY DEF preprocess, ReadPeak, ReadFails, BeginPacket, PassPacket, EndPacket, fileVars
  <1>3. CASE ReadPeak
    <2>1. Max({info.peak, Magnitude(Packet)}) \in Nat
      <3> DEFINE S == {info.peak, Magnitude(Packet)}
      <3>1. info.peak \in Nat /\ Magnitude(Packet) \in Nat
        BY <1>1, MagnitudeReached DEF ReaderInv, ReaderTyped, Infos
      <3>2. /\ S \in SUBSET Nat /\ S # {} /\ \A n \in S : n <= info.peak + Magnitude(Packet)
            /\ info.peak + Magnitude(Packet) \in Nat
        BY <3>1
      <3> QED
        BY <3>1, <3>2, MaxOfNaturals
    <2>2. info' \in Infos /\ info'.start = info.start /\ info'.end = info.end
      BY <1>3, <2>1 DEF ReadPeak, ReaderInv, ReaderTyped, Infos
    <2>3. /\ reading' \in {"peak", "threshold"} /\ looking' = looking /\ looking /\ process' = process
          /\ total' \in 0..Len(file) /\ (reading' = "threshold" => total' = 0)
      BY <1>1, <1>3 DEF ReadPeak, ReaderInv, Trim
    <2> QED
      BY <1>2, <1>3, <2>2, <2>3 DEF ReaderInv, ReaderTyped, Trim, Quiet, StartsAtOnset, ReadPeak
  <1>4. CASE ReadFails
    <2>1. /\ UNCHANGED <<looking, total, process, info>> /\ reading' = "untrimmed"
          /\ reading \in {"peak", "threshold"}
      BY <1>4 DEF ReadFails
    <2>2. StartsAtOnset'
      BY <1>2, <2>1, OnsetKept DEF ReaderInv
    <2> QED
      BY <1>2, <2>1, <2>2 DEF ReaderInv, ReaderTyped, Trim, Quiet
  <1>5. CASE BeginPacket
    <2>1. /\ process' \in Seq(Int) /\ Len(process') = PacketSize
          /\ total' = total + Len(Packet) /\ total' \in 0..Len(file)
          /\ Packet = <<>> => reading' = "untrimmed" /\ total' = total /\ total = Len(file)
          /\ Packet # <<>> => reading' = "threshold" /\ total < total'
      BY <1>5, AdvanceTyped DEF BeginPacket, ReaderInv
    <2>2. looking /\ looking' = FALSE /\ reading = "threshold" /\ info.end = 0
          /\ info' = [info EXCEPT !.start = total + Onset(Packet)]
      BY <1>5 DEF BeginPacket, ReaderInv, Trim
    <2>3. CASE Packet = <<>>
      <3>1. Onset(Packet) = 0
        <4> DEFINE loud == Min({i \in DOMAIN Packet : Loud(Packet[i])} \cup {Len(Packet) + 1})
        <4>1. {i \in DOMAIN Packet : Loud(Packet[i])} \cup {Len(Packet) + 1} = {1}
          BY <1>1, <2>3
        <4>2. Min({1}) = 1
          <5>1. {1} \in SUBSET Nat /\ {1} # {}
            OBVIOUS
          <5> QED
            BY <5>1, MinOfNaturals
        <4>3. Crossings(Packet, 1, 1) = {}
          BY DEF Crossings
        <4>4. loud = 1
          BY <4>1, <4>2
        <4>5. Onset(Packet) = IF Crossings(Packet, 1, loud) = {} THEN loud - 1
                              ELSE Max(Crossings(Packet, 1, loud)) - 1
          BY DEF Onset
        <4> HIDE DEF loud
        <4> QED
          BY <4>3, <4>4, <4>5
      <3>2. info' \in Infos /\ info'.start = total /\ info'.end = 0 /\ info'.peak = info.peak
        <4>1. info' = [info EXCEPT !.start = total] /\ info \in Infos /\ total \in Nat /\ info.end = 0
          BY <1>1, <2>2, <3>1 DEF ReaderInv, ReaderTyped
        <4> QED
          BY <4>1, InfoSet
      <3>3. LoudAt' = {}
        <4>1. LoudAt = {}
          BY <1>1, <2>1, <2>2, <2>3 DEF LoudAt, ReaderInv, Quiet
        <4> QED
          BY <1>2, <3>2, <4>1 DEF LoudAt, Loud, fileVars
      <3>4. ReaderTyped'
        BY <1>2, <2>1, <2>2, <2>3, <3>2 DEF ReaderTyped
      <3>5. Trim' /\ Quiet' /\ StartsAtOnset'
        BY <1>1, <2>1, <2>2, <2>3, <3>2, <3>3 DEF Trim, Quiet, StartsAtOnset
      <3> QED
        BY <3>4, <3>5 DEF ReaderInv
    <2>4. CASE Packet # <<>>
      <3>1. Onset(Packet) \in 0..Len(Packet)-1 /\ StartsAtOnset'
        BY <1>5, <2>4, BeginFinds
      <3>2. info' \in Infos /\ info'.start = total + Onset(Packet) /\ info'.end = 0
            /\ info'.start < total'
        <4>1. total + Onset(Packet) \in Nat /\ info \in Infos
          BY <1>1, <3>1 DEF ReaderInv, ReaderTyped
        <4>2. info' \in Infos /\ info'.start = total + Onset(Packet) /\ info'.end = 0
          BY <2>2, <4>1, InfoSet
        <4> QED
          BY <1>1, <2>1, <3>1, <4>2
      <3>3. ReaderTyped'
        BY <1>2, <2>1, <2>2, <2>4, <3>2 DEF ReaderTyped
      <3>4. Trim' /\ Quiet'
        BY <1>1, <2>1, <2>2, <2>4, <3>1, <3>2 DEF Trim, Quiet
      <3> QED
        BY <3>1, <3>3, <3>4 DEF ReaderInv
    <2> QED
      BY <2>3, <2>4
  <1>6. CASE PassPacket
    <2>1. /\ process' \in Seq(Int) /\ Len(process') = PacketSize
          /\ total' = total + Len(Packet) /\ total' \in 0..Len(file)
          /\ Packet = <<>> => reading' = "untrimmed" /\ total' = total /\ total = Len(file)
          /\ Packet # <<>> => reading' = "threshold" /\ total < total'
      BY <1>6, AdvanceTyped DEF PassPacket, ReaderInv
    <2>2. looking' = looking /\ info' = info /\ reading = "threshold" /\ (looking => ~Loud(Magnitude(Packet)))
      BY <1>6 DEF PassPacket
    <2>3. ASSUME looking, NEW i \in 0..total'-1 PROVE ~Loud(file[i+1])
      <3>1. CASE i < total
        BY <1>1, <2>2, <2>3, <3>1 DEF ReaderInv, Quiet
      <3>2. CASE i >= total
        <4>1. i + 1 - total \in 1..Len(Packet) /\ total + (i + 1 - total) = i + 1
          BY <1>1, <2>1, <2>3, <3>2
        <4>2. Packet[i + 1 - total] = file[i + 1]
          BY <1>1, <4>1
        <4>3. /\ Abs(file[i+1]) <= Magnitude(Packet) /\ Magnitude(Packet) \in Nat /\ Abs(file[i+1]) \in Nat
              /\ Abs(Magnitude(Packet)) = Magnitude(Packet)
          <5>1. Packet[i + 1 - total] \in Int /\ i + 1 - total \in DOMAIN Packet
            BY <1>1, <4>1
          <5>2. Magnitude(Packet) \in Nat
            BY <1>1, MagnitudeReached
          <5> QED
            BY <1>1, <4>2, <5>1, <5>2, MagnitudeReached, AbsNatural DEF Abs
        <4>4. ratio.begin \in Nat /\ info.peak \in Nat
          BY DEF Given, ReaderInv, ReaderTyped, Infos
        <4>5. Abs(file[i+1]) * ratio.begin <= Magnitude(Packet) * ratio.begin
          BY <4>3, <4>4, ProductMonotone
        <4>6. Abs(file[i+1]) * ratio.begin \in Int /\ Magnitude(Packet) * ratio.begin \in Int
          BY <4>3, <4>4
        <4> QED
          BY <2>2, <2>3, <4>3, <4>4, <4>5, <4>6 DEF Loud
      <3> QED
        BY <1>1, <3>1, <3>2
    <2>4. Quiet'
      BY <1>2, <2>2, <2>3, OnsetKept DEF Quiet
    <2>5. StartsAtOnset'
      BY <1>2, <2>2, OnsetKept DEF ReaderInv
    <2> QED
      BY <1>1, <1>2, <2>1, <2>2, <2>4, <2>5 DEF ReaderInv, ReaderTyped, Trim, Infos
  <1>7. CASE EndPacket
    <2>1. EndLocation \in total-PacketSize..total-1
      BY <1>1, EndPlace DEF ReaderInv, ReaderTyped
    <2>2. ~looking /\ UNCHANGED <<looking, total, process>> /\ reading = "threshold"
      BY <1>7 DEF EndPacket, EndsHere
    <2>3. /\ info' \in Infos /\ info'.start = info.start /\ info'.peak = info.peak
          /\ reading' = "untrimmed" => info'.end = info.end
          /\ reading' = "trimmed" => info'.end = EndLocation /\ total >= PacketSize
          /\ reading' \in {"trimmed", "untrimmed"}
      BY <1>1, <1>7, <2>1, PacketSizeAssumption DEF EndPacket, ReaderInv, ReaderTyped, Infos
    <2>4. StartsAtOnset'
      BY <1>2, <2>2, <2>3, OnsetKept DEF ReaderInv
    <2>5. Trim'
      BY <1>1, <1>2, <2>1, <2>2, <2>3, PacketSizeAssumption DEF ReaderInv, ReaderTyped, Trim, Infos
    <2> QED
      BY <1>2, <2>2, <2>3, <2>4, <2>5 DEF ReaderInv, ReaderTyped, Quiet
  <1> QED
    BY <1>3, <1>4, <1>5, <1>6, <1>7 DEF preprocess

-----------------------------------------------------------------------------
(* The filter bank's constructor.                                           *)

\* All filters there can be.
Triangles == {TriangleFilter(left, right) : left \in Nat, right \in Nat}

\* Each filter spans from the center before its own to the one after.
BankInv ==
  /\ building \in {"arguments", "filters", "built", "thrown"}
  /\ filters \in Seq(Triangles) /\ Len(filters) <= NumBands
  /\ \A i \in 1..Len(filters) :
       LET left == Bin(bank.edges[i])  right == Bin(bank.edges[i+2])
       IN  left < right /\ filters[i] = TriangleFilter(left, right)
  /\ building = "built" => bank.edges[NumBands + 2] <= Nyquist

\* A bin is a natural number, and grows with the frequency.
LEMMA BinGrows ==
  ASSUME NEW x \in Nat, NEW y \in Nat, x <= y
  PROVE  Bin(x) \in Nat /\ Bin(x) <= Bin(y)
  BY DEF Bin

\* The edges and the number of bands.
LEMMA Bands ==
  ASSUME Given
  PROVE  /\ NumBands \in Nat /\ DOMAIN bank.edges = 1..NumBands+2
         /\ \A i \in 1..NumBands+2 : bank.edges[i] \in Nat /\ Bin(bank.edges[i]) \in Nat
  <1>1. bank.edges \in Seq(Nat) /\ Len(bank.edges) >= 2
    BY DEF Given
  <1>2. /\ NumBands \in Nat /\ Len(bank.edges) = NumBands + 2
        /\ DOMAIN bank.edges = 1..NumBands+2
    BY <1>1 DEF NumBands
  <1>3. \A i \in 1..NumBands+2 : bank.edges[i] \in Nat
    BY <1>1, <1>2
  <1> QED
    BY <1>2, <1>3, BinGrows

\* Every step of the constructor keeps it.
LEMMA BankNext ==
  ASSUME Given, BankInv, MelFilterBank
  PROVE  BankInv'
  <1>1. bank' = bank /\ NumBands' = NumBands /\ Nyquist' = Nyquist
    BY DEF MelFilterBank, CheckArguments, AddFilter, Build, NumBands, Nyquist
  <1>0. CASE CheckArguments
    <2>1. filters' = filters /\ building' \in {"thrown", "filters"}
      BY <1>0 DEF CheckArguments
    <2> QED
      BY <1>1, <2>1 DEF BankInv
  <1>2. CASE AddFilter
    <2> DEFINE n == Len(filters)
               left == Bin(bank.edges[n + 1])
               right == Bin(bank.edges[n + 3])
    <2>1. n \in Nat /\ n < NumBands /\ building = "filters"
      BY <1>2 DEF AddFilter, BankInv
    <2>2. left \in Nat /\ right \in Nat
      BY <2>1, Bands
    <2>3. CASE left >= right
      BY <1>1, <1>2, <2>3 DEF AddFilter, BankInv
    <2>4. CASE left < right
      <3>1. filters' = Append(filters, TriangleFilter(left, right)) /\ building' = building
        BY <1>2, <2>2, <2>4 DEF AddFilter
      <3>2. TriangleFilter(left, right) \in Triangles /\ filters \in Seq(Triangles)
        BY <2>2 DEF Triangles, BankInv
      <3> DEFINE f == TriangleFilter(left, right)
      <3> HIDE DEF f
      <3>3. /\ filters' \in Seq(Triangles) /\ Len(filters') = n + 1
            /\ \A i \in 1..n : filters'[i] = filters[i]
            /\ filters'[n + 1] = f
        BY <3>1, <3>2 DEF f
      <3>4. ASSUME NEW i \in 1..n+1
            PROVE  Bin(bank.edges[i]) < Bin(bank.edges[i+2])
                   /\ filters'[i] = TriangleFilter(Bin(bank.edges[i]), Bin(bank.edges[i+2]))
        <4>1. CASE i = n + 1
          BY <2>1, <2>4, <3>3, <4>1 DEF f
        <4>2. CASE i # n + 1
          <5>1. i \in 1..n
            BY <2>1, <4>2
          <5> QED
            BY <3>3, <5>1 DEF BankInv
        <4> QED
          BY <4>1, <4>2
      <3>5. n + 1 <= NumBands /\ building' = "filters"
        BY <2>1, <3>1, Bands
      <3> HIDE DEF n, left, right
      <3> QED
        BY <1>1, <3>3, <3>4, <3>5 DEF BankInv
    <2> QED
      BY <2>2, <2>3, <2>4
  <1>3. CASE Build
    <2>1. filters' = filters /\ building' \in {"built", "thrown"}
          /\ (building' = "built" => ~(bank.edges[NumBands + 2] > Nyquist))
      BY <1>3 DEF Build
    <2>2. bank.edges[NumBands + 2] \in Nat /\ Nyquist \in Nat
      <3>1. NumBands \in Nat /\ NumBands + 2 \in 1..NumBands+2
        BY Bands
      <3> QED
        BY <3>1, Bands DEF Given, Nyquist
    <2> QED
      BY <1>1, <2>1, <2>2 DEF BankInv
  <1> QED
    BY <1>0, <1>2, <1>3 DEF MelFilterBank

\* What the invariant says of the arrays.
LEMMA BankCorrect ==
  ASSUME Given, BankInv
  PROVE  FiltersFilled /\ WeighsMagnitudes
  <1> SUFFICES ASSUME NEW i \in DOMAIN filters, Fits(filters[i])
               PROVE  /\ Filled(filters[i])
                      /\ building = "built" =>
                           \A w \in filters[i].data :
                             filters[i].left + w.at \notin 0..bank.bins-1
                               => (w.num # 0 <=> filters[i].left = bank.bins - 1)
    BY DEF FiltersFilled, WeighsMagnitudes
  <1> DEFINE left == Bin(bank.edges[i])
             right == Bin(bank.edges[i+2])
  <1>1. /\ i \in 1..Len(filters) /\ i \in 1..NumBands /\ NumBands \in Nat
        /\ i \in 1..NumBands+2 /\ i + 2 \in 1..NumBands+2 /\ NumBands + 2 \in 1..NumBands+2
    <2>1. NumBands \in Nat /\ Len(filters) \in Nat /\ Len(filters) <= NumBands /\ i \in 1..Len(filters)
      BY Bands DEF BankInv
    <2> QED
      BY <2>1
  <1>2. left < right /\ filters[i] = TriangleFilter(left, right)
    BY <1>1 DEF BankInv
  <1>3. left \in Nat /\ right \in Nat
    BY <1>1, Bands
  <1>4. building = "built" => right <= bank.bins
    <2> SUFFICES ASSUME building = "built" PROVE right <= bank.bins
      OBVIOUS
    <2>1. bank.edges[NumBands + 2] <= 2 * bank.bins /\ bank.bins \in Nat
      BY DEF BankInv, Given, Nyquist
    <2>2. i + 2 \in DOMAIN bank.edges /\ NumBands + 2 \in DOMAIN bank.edges /\ i + 2 <= NumBands + 2
      BY <1>1, Bands
    <2>3. bank.edges[i + 2] <= bank.edges[NumBands + 2]
      BY <2>2 DEF Given
    <2>4. bank.edges[i + 2] \in Nat /\ bank.edges[NumBands + 2] \in Nat
      BY <1>1, Bands
    <2>5. right <= Bin(2 * bank.bins)
      BY <2>1, <2>3, <2>4, BinGrows
    <2>6. Bin(2 * bank.bins) = bank.bins
      BY <2>1 DEF Bin
    <2> QED
      BY <2>5, <2>6
  <1> HIDE DEF left, right
  <1>5. Filled(filters[i])
    BY <1>2, <1>3, TriangleFilled
  <1>6. ASSUME building = "built", NEW w \in filters[i].data,
               filters[i].left + w.at \notin 0..bank.bins-1
        PROVE  w.num # 0 <=> filters[i].left = bank.bins - 1
    <2>1. /\ left + w.at \in 0..right
          /\ left + w.at = right => (w.num # 0 <=> left = right - 1)
      BY <1>2, <1>3, <1>6, TriangleWeighs
    <2>2. filters[i].left = left
      BY <1>2, <1>3, TriangleFits
    <2>3. right <= bank.bins /\ bank.bins \in Nat
      BY <1>4, <1>6 DEF Given
    <2>4. right = bank.bins /\ left + w.at = right
      BY <1>3, <1>6, <2>1, <2>2, <2>3
    <2> QED
      BY <2>1, <2>2, <2>4
  <1> QED
    BY <1>5, <1>6

-----------------------------------------------------------------------------
(* The windows.                                                             *)

\* All features there can be.
Windows == [at : Nat, left : Int]

\* The types of the extraction.
ExtractTyped ==
  /\ stage \in {"preprocess", "construct", "count", "packets", "done", "aborted"}
  /\ packets \in Nat /\ iPacket \in 0..packets
  /\ border \in -1..Len(file) /\ skipped \in BOOLEAN
  /\ features \in Seq(Windows) /\ Len(features) <= iPacket

\* Nothing is extracted before the packets are counted.
Fresh ==
  stage \in {"preprocess", "construct", "count"} =>
    packets = 0 /\ iPacket = 0 /\ features = <<>> /\ border = -1

\* The packets end before the sound does.
Counted == stage = "packets" /\ Clipped >= 0 => packets * HopTwice <= 2 * Clipped

\* While no window is missing, each feature is at its time, but for the rounding,
\* and the border is where the last of them says.
Placed ==
  Len(features) = iPacket =>
    /\ border = IF iPacket = 0 THEN -1 ELSE features[iPacket].at + Hop - 1
    /\ \A k \in 1..iPacket : 2 * features[k].at - 2 * info.start - (k - 1) * HopTwice \in -1..1

\* The sample taken for the left neighbour of a window is its neighbour or the one
\* before that, if no window is missing, and its neighbour if the interval is a whole
\* number of samples.
BorderNear ==
  Len(features) = iPacket => \A k \in DOMAIN features :
    IF k = 1 THEN features[k].left = -1
             ELSE /\ features[k].at - features[k].left \in {1, 2}
                  /\ HopTwice = 2 * Hop => features[k].at - features[k].left = 1

\* No window is missing unless a failed read was left out, and all begin before the
\* sound ends.
Complete ==
  stage \in {"packets", "done"} /\ Clipped >= 0 /\ ~skipped =>
    Len(features) = iPacket /\ \A k \in 1..iPacket : features[k].at < info.end

ExtractInv == ExtractTyped /\ Fresh /\ Counted /\ Placed /\ Complete /\ BorderNear

\* Division rounds down.
LEMMA DivisionBelow ==
  ASSUME NEW a \in Nat, NEW h \in Nat, h > 0
  PROVE  a \div h \in Nat /\ (a \div h) * h <= a
  OBVIOUS

\* The interval, and its whole samples.
LEMMA Hops ==
  /\ HopTwice \in Nat /\ HopTwice >= 2 /\ Window \in Nat /\ Window > 0 /\ Hop \in Nat
  /\ HopTwice <= 2 * Window /\ 2 * Hop <= HopTwice /\ HopTwice <= 2 * Hop + 1 /\ Many \in Nat
  BY WindowAssumption DEF Hop

\* The next packet ends a window before the file does, and before the sound does.
LEMMA Inside ==
  ASSUME Given, ReaderInv, ExtractTyped, Counted, InPackets, Clipped >= 0
  PROVE  /\ info.start + Clipped \in Nat /\ info.start + Clipped <= info.end
         /\ info.start + Clipped + Window <= Len(file)
         /\ Location + HopTwice <= 2 * (info.start + Clipped)
  <1>1. /\ Len(file) \in Nat /\ info.start \in Nat /\ info.end \in Nat /\ info.end <= Len(file)
    <2>1. info.end <= Len(file)
      BY Reads DEF ReaderInv, Trim
    <2> QED
      BY <2>1, Reads DEF ReaderInv
  <1>2. /\ iPacket \in Nat /\ packets \in Nat /\ iPacket + 1 <= packets /\ stage = "packets"
    BY DEF ExtractTyped, InPackets
  <1>3. Clipped = IF Len(file) - info.end < Window THEN info.end - info.start - Window
                                                   ELSE info.end - info.start
    BY DEF Clipped, Duration
  <1>4. Clipped \in Nat
    BY <1>1, <1>3, Hops
  <1>5. (iPacket + 1) * HopTwice <= packets * HopTwice
    BY <1>2, Hops, ProductMonotone
  <1>6. /\ (iPacket + 1) * HopTwice = iPacket * HopTwice + HopTwice
        /\ iPacket * HopTwice \in Nat /\ packets * HopTwice \in Nat
    BY <1>2, Hops
  <1>7. packets * HopTwice <= 2 * Clipped
    BY <1>2 DEF Counted
  <1>8. Location = 2 * info.start + iPacket * HopTwice
    BY DEF Location
  <1>9. Location + HopTwice <= 2 * (info.start + Clipped)
    <2> DEFINE here == iPacket * HopTwice
               last == packets * HopTwice
    <2>1. /\ here \in Nat /\ last \in Nat /\ here + HopTwice <= last /\ last <= 2 * Clipped
          /\ Location = 2 * info.start + here
      BY <1>5, <1>6, <1>7, <1>8
    <2> HIDE DEF here, last
    <2>2. info.start \in Nat /\ Clipped \in Nat /\ HopTwice \in Nat
      BY <1>1, <1>4, Hops
    <2> QED
      BY <2>1, <2>2
  <1>10. info.start + Clipped \in Nat /\ info.start + Clipped <= info.end
         /\ info.start + Clipped + Window <= Len(file)
    <2>1. CASE Len(file) - info.end < Window
      BY <1>1, <1>3, <1>4, <2>1, Hops
    <2>2. CASE ~(Len(file) - info.end < Window)
      BY <1>1, <1>3, <1>4, <2>2, Hops
    <2> QED
      BY <2>1, <2>2
  <1> QED
    BY <1>9, <1>10

\* A feature more leaves those before it as they were, with its number.
LEMMA FeatureAppended ==
  ASSUME ExtractTyped, NEW at \in Nat, TakeFeature(at)
  PROVE  LET n == Len(features)
         IN  /\ features' \in Seq(Windows) /\ n \in Nat /\ Len(features') = n + 1
             /\ \A k \in 1..n : features'[k] = features[k]
             /\ features'[n+1].at = at /\ features'[n+1].left = border
             /\ border' = at + Hop - 1
  <1> DEFINE f == [at |-> at, left |-> border]
  <1>1. f \in Windows /\ f.at = at /\ f.left = border
    BY DEF ExtractTyped, Windows
  <1>2. features \in Seq(Windows) /\ features' = Append(features, f) /\ border' = at + Hop - 1
    BY DEF ExtractTyped, TakeFeature
  <1> HIDE DEF f
  <1> QED
    BY <1>1, <1>2

\* How far two windows that follow one another are apart.
LEMMA Apart ==
  ASSUME NEW at \in Nat, NEW before \in Nat, NEW start \in Nat, NEW n \in Nat,
         2 * at - 2 * start - (n + 1) * HopTwice \in -1..1,
         2 * before - 2 * start - n * HopTwice \in -1..1
  PROVE  /\ at - (before + Hop - 1) \in {1, 2}
         /\ HopTwice = 2 * Hop => at - (before + Hop - 1) = 1
  <1> DEFINE h == n * HopTwice
  <1>1. h \in Nat /\ (n + 1) * HopTwice = h + HopTwice
    BY Hops
  <1>2. CASE HopTwice = 2 * Hop
    <2>1. h = 2 * (n * Hop) /\ n * Hop \in Nat
      BY <1>2, Hops
    <2> DEFINE m == n * Hop
    <2>2. 2 * (before - start - m) \in -1..1 /\ 2 * (at - start - m - Hop) \in -1..1 /\ m \in Nat
      BY <1>1, <1>2, <2>1, Hops
    <2> HIDE DEF m
    <2>3. before - start - m = 0 /\ at - start - m - Hop = 0
      BY <2>2, Hops
    <2> QED
      BY <2>2, <2>3, Hops
  <1>3. CASE HopTwice = 2 * Hop + 1
    <2>1. 2 * at - 2 * start - h - 2 * Hop - 1 \in -1..1 /\ 2 * before - 2 * start - h \in -1..1
      BY <1>1, <1>3, Hops
    <2> HIDE DEF h
    <2>2. 2 * (at - before - Hop) \in -1..3
      BY <1>1, <2>1, Hops
    <2>3. HopTwice # 2 * Hop
      BY <1>3, Hops
    <2> QED
      BY <2>2, <2>3, Hops
  <1> QED
    BY <1>2, <1>3, Hops

\* A window that is read is placed, next to the one before.
LEMMA FeatureTaken ==
  ASSUME Given, ReaderInv, ExtractInv, InPackets, NEW at \in Seek, at + Window <= Len(file),
         TakeFeature(at), iPacket' = iPacket + 1, skipped' = skipped,
         UNCHANGED <<file, info, stage, packets>>
  PROVE  ExtractInv'
  <1> DEFINE n == Len(features)
  <1>1. /\ at \in Nat /\ 2 * at - Location \in -1..1 /\ Len(file) \in Nat /\ info.start \in Nat
        /\ Location = 2 * info.start + iPacket * HopTwice /\ iPacket * HopTwice \in Nat
    <2>1. Len(file) \in Nat /\ info.start \in Nat /\ iPacket \in Nat
      BY Reads DEF ReaderInv, ExtractInv, ExtractTyped
    <2>2. at \in 0..Len(file)+1 /\ 2 * at \in Location-1..Location+1
      BY DEF Seek
    <2>3. Location = 2 * info.start + iPacket * HopTwice /\ iPacket * HopTwice \in Nat
      BY <2>1, Hops DEF Location
    <2>4. Location \in Int
      BY <2>1, <2>3
    <2>5. 2 * at - Location \in -1..1 /\ at \in Nat
      BY <2>1, <2>2, <2>4
    <2> QED
      BY <2>1, <2>3, <2>5
  <1> DEFINE h == iPacket * HopTwice
  <1>a. 2 * at - 2 * info.start - h \in -1..1 /\ h \in Nat
    <2>1. h \in Nat /\ Location = 2 * info.start + h
      BY <1>1
    <2>2. at \in Nat /\ info.start \in Nat /\ 2 * at - Location \in -1..1
      BY <1>1
    <2> HIDE DEF h
    <2> QED
      BY <2>1, <2>2
  <1> HIDE DEF h
  <1>2. /\ features' \in Seq(Windows) /\ n \in Nat /\ Len(features') = n + 1
        /\ \A k \in 1..n : features'[k] = features[k]
        /\ features'[n+1].at = at /\ features'[n+1].left = border
        /\ border' = at + Hop - 1
    BY <1>1, FeatureAppended DEF ExtractInv
  <1>3. /\ iPacket \in Nat /\ packets \in Nat /\ iPacket + 1 <= packets /\ n <= iPacket
        /\ stage = "packets" /\ skipped \in BOOLEAN
    BY DEF ExtractInv, ExtractTyped, InPackets
  <1>4. \A k \in 1..n : features[k].at \in Nat
    <2>0. features \in Seq(Windows)
      BY DEF ExtractInv, ExtractTyped
    <2>1. \A k \in 1..n : features[k] \in Windows
      BY <2>0
    <2> QED
      BY <2>1 DEF Windows
  <1>5. ExtractTyped'
    <2>1. border' \in -1..Len(file)
      BY <1>1, <1>2, Hops
    <2>2. iPacket' \in 0..packets /\ Len(features') <= iPacket'
      BY <1>2, <1>3
    <2> QED
      BY <1>2, <1>3, <2>1, <2>2 DEF ExtractTyped
  <1>6. Fresh' /\ Counted'
    <2>1. stage' = "packets" /\ packets' = packets /\ Clipped' = Clipped
      BY <1>3 DEF Clipped, Duration
    <2> QED
      BY <1>3, <2>1 DEF Fresh, Counted, ExtractInv
  <1>7. ASSUME n = iPacket, NEW k \in 1..n+1
        PROVE  2 * features'[k].at - 2 * info.start - (k - 1) * HopTwice \in -1..1
    <2>1. CASE k = n + 1
      <3>1. k - 1 = iPacket
        BY <1>3, <1>7, <2>1
      <3>2. 2 * at - 2 * info.start - iPacket * HopTwice \in -1..1
        BY <1>a DEF h
      <3> QED
        BY <1>2, <2>1, <3>1, <3>2
    <2>2. CASE k # n + 1
      <3>1. k \in 1..n
        BY <1>2, <2>2
      <3> QED
        BY <1>2, <1>7, <3>1 DEF ExtractInv, Placed
    <2> QED
      BY <2>1, <2>2
  <1>8. Placed'
    <2> SUFFICES ASSUME n = iPacket
                 PROVE  /\ border' = features'[iPacket + 1].at + Hop - 1
                        /\ \A k \in 1..iPacket+1 :
                             2 * features'[k].at - 2 * info.start - (k - 1) * HopTwice \in -1..1
      <3>1. iPacket' # 0 /\ (Len(features') = iPacket' => n = iPacket)
        BY <1>2, <1>3
      <3> QED
        BY <3>1 DEF Placed
    <2> QED
      BY <1>2, <1>7
  <1>9. Complete'
    <2>1. Clipped' = Clipped
      BY DEF Clipped, Duration
    <2> SUFFICES ASSUME Clipped >= 0, ~skipped
                 PROVE  /\ n = iPacket
                        /\ \A k \in 1..n+1 : features'[k].at < info.end
      BY <1>2, <2>1 DEF Complete
    <2>2. n = iPacket /\ \A k \in 1..n : features[k].at < info.end
      BY <1>3 DEF ExtractInv, Complete
    <2>3. at < info.end
      <3>1. /\ info.start + Clipped \in Nat /\ info.start + Clipped <= info.end
            /\ Location + HopTwice <= 2 * (info.start + Clipped)
        BY Inside DEF ExtractInv
      <3>2. info.end \in Nat
        BY Reads DEF ReaderInv
      <3> DEFINE e == info.start + Clipped
      <3>3. e \in Nat /\ e <= info.end /\ Location + HopTwice <= 2 * e
        BY <3>1
      <3>4. at \in Nat /\ Location \in Int /\ 2 * at <= Location + 1
        <4>1. at \in Nat /\ info.start \in Nat /\ Location = 2 * info.start + h
          BY <1>1 DEF h
        <4>2. Location \in Int
          BY <1>a, <4>1
        <4>3. 2 * at - Location \in -1..1
          BY <1>1
        <4> QED
          BY <4>1, <4>2, <4>3
      <3> HIDE DEF e
      <3> QED
        BY <3>2, <3>3, <3>4, Hops
    <2>4. ASSUME NEW k \in 1..n+1 PROVE features'[k].at < info.end
      <3>1. k = n + 1 \/ k \in 1..n
        BY <1>2
      <3> QED
        BY <1>2, <2>2, <2>3, <3>1
    <2> QED
      BY <2>2, <2>4
  <1>10. BorderNear'
    <2> SUFFICES ASSUME n = iPacket, NEW k \in 1..n+1
                 PROVE  IF k = 1 THEN features'[k].left = -1
                                 ELSE /\ features'[k].at - features'[k].left \in {1, 2}
                                      /\ HopTwice = 2 * Hop => features'[k].at - features'[k].left = 1
      <3>1. DOMAIN features' = 1..n+1 /\ (Len(features') = iPacket' => n = iPacket)
        BY <1>2, <1>3
      <3> QED
        BY <3>1 DEF BorderNear
    <2>1. CASE k \in 1..n
      <3>1. k \in DOMAIN features
        BY <2>1
      <3> QED
        BY <1>2, <2>1, <3>1 DEF ExtractInv, BorderNear
    <2>2. CASE k = n + 1 /\ n = 0
      BY <1>2, <2>2 DEF ExtractInv, Placed
    <2>3. CASE k = n + 1 /\ n # 0
      <3>1. n \in 1..n /\ n - 1 \in Nat /\ features[n].at \in Nat /\ n - 1 + 1 = n
        BY <1>2, <1>4, <2>3
      <3>2. border = features[n].at + Hop - 1
            /\ 2 * features[n].at - 2 * info.start - (n - 1) * HopTwice \in -1..1
        BY <2>3, <3>1 DEF ExtractInv, Placed
      <3>3. 2 * at - 2 * info.start - (n - 1 + 1) * HopTwice \in -1..1
        <4>1. n = iPacket
          OBVIOUS
        <4> QED
          BY <1>a, <3>1, <4>1 DEF h
      <3>4. /\ at - (features[n].at + Hop - 1) \in {1, 2}
            /\ HopTwice = 2 * Hop => at - (features[n].at + Hop - 1) = 1
        BY <1>1, <3>1, <3>2, <3>3, Apart
      <3>5. k # 1 /\ features'[k].at = at /\ features'[k].left = border
        BY <1>2, <2>3
      <3> QED
        BY <3>2, <3>4, <3>5
    <2> QED
      BY <1>2, <2>1, <2>2, <2>3
  <1> QED
    BY <1>5, <1>6, <1>8, <1>9, <1>10 DEF ExtractInv

\* A window that is missing ends what is said of complete ones.
LEMMA MissedKept ==
  ASSUME Given, ReaderInv, ExtractInv, InPackets, iPacket' = iPacket + 1,
         UNCHANGED <<file, info, stage, packets, border, features>>,
         skipped' \in BOOLEAN, Clipped >= 0 => skipped'
  PROVE  ExtractInv'
  <1>1. /\ iPacket \in Nat /\ packets \in Nat /\ iPacket + 1 <= packets
        /\ stage = "packets" /\ Len(features) \in Nat /\ Len(features) <= iPacket
    <2>1. features \in Seq(Windows) /\ packets \in Nat /\ iPacket \in 0..packets
          /\ iPacket < packets /\ Len(features) <= iPacket /\ stage = "packets"
      BY DEF ExtractInv, ExtractTyped, InPackets
    <2>2. Len(features) \in Nat
      BY <2>1
    <2>3. iPacket \in Nat /\ iPacket + 1 <= packets
      BY <2>1
    <2> QED
      BY <2>1, <2>2, <2>3
  <1>2. Clipped' = Clipped
    BY DEF Clipped, Duration
  <1>3. ExtractTyped'
    BY <1>1 DEF ExtractInv, ExtractTyped
  <1>4. Len(features') # iPacket'
    BY <1>1
  <1> QED
    BY <1>1, <1>2, <1>3, <1>4 DEF ExtractInv, Fresh, Counted, Placed, Complete, BorderNear

\* Every step of the program keeps it.
LEMMA ExtractNext ==
  ASSUME Given, ReaderInv, ExtractInv, ReaderInv', Next
  PROVE  ExtractInv'
  <1>1. file' = file
    BY DEF Next, Preprocess, preprocess, ReadPeak, ReadFails, BeginPacket, PassPacket, EndPacket,
           get_mfcc_features, ConstructProcessor, CountPackets, ReadWindow, SkipFailedRead,
           AssertFails, Finish, fileVars
  <1>2. CASE Preprocess \/ ConstructProcessor
    <2>1. /\ stage \in {"preprocess", "construct"} /\ UNCHANGED <<packets, iPacket, border, features, skipped>>
          /\ stage' \in {"preprocess", "construct", "count", "done"}
      BY <1>2 DEF Preprocess, ConstructProcessor
    <2>2. packets = 0 /\ iPacket = 0 /\ features = <<>> /\ border = -1
      BY <2>1 DEF ExtractInv, Fresh
    <2>3. ExtractTyped'
      BY <1>1, <2>1 DEF ExtractInv, ExtractTyped
    <2> QED
      BY <2>1, <2>2, <2>3 DEF ExtractInv, Fresh, Counted, Placed, Complete, BorderNear
  <1>3. CASE CountPackets
    <2>1. /\ stage = "count" /\ stage' \in {"packets", "done"}
          /\ UNCHANGED <<info, iPacket, border, features, skipped>>
      BY <1>3 DEF CountPackets, passVars
    <2>2. packets = 0 /\ iPacket = 0 /\ features = <<>> /\ border = -1
      BY <2>1 DEF ExtractInv, Fresh
    <2>3. /\ Clipped' = Clipped /\ Clipped \in Int
      <3>1. Len(file) \in Nat /\ info.start \in Nat /\ info.end \in Nat
        BY Reads DEF ReaderInv
      <3> QED
        BY <1>1, <2>1, <3>1, Hops DEF Clipped, Duration
    <2>4. packets' \in Nat /\ (Clipped >= 0 => packets' * HopTwice <= 2 * Clipped)
      <3>1. CASE packets' = packets
        BY <2>2, <2>3, <3>1, Hops
      <3>2. CASE packets' # packets /\ Clipped < 0
        BY <1>3, <2>3, <3>2, Hops DEF CountPackets
      <3>3. CASE packets' # packets /\ Clipped >= 0
        <4>1. packets' = (2 * Clipped) \div HopTwice /\ 2 * Clipped \in Nat
          BY <1>3, <2>3, <3>3 DEF CountPackets
        <4> QED
          BY <4>1, Hops, DivisionBelow
      <3> QED
        BY <2>3, <3>1, <3>2, <3>3
    <2>5. ExtractTyped'
      BY <1>1, <2>1, <2>2, <2>4 DEF ExtractInv, ExtractTyped
    <2> QED
      BY <2>1, <2>2, <2>3, <2>4, <2>5 DEF ExtractInv, Fresh, Counted, Placed, Complete, BorderNear
  <1>4. CASE ReadWindow
    <2>1. PICK at \in Seek : IF at + Window <= Len(file) THEN TakeFeature(at) ELSE UNCHANGED <<border, features>>
      BY <1>4 DEF ReadWindow
    <2>2. /\ InPackets /\ iPacket' = iPacket + 1 /\ skipped' = skipped
          /\ UNCHANGED <<file, info, stage, packets>>
      BY <1>1, <1>4 DEF ReadWindow, passVars
    <2>3. CASE at + Window <= Len(file)
      BY <2>1, <2>2, <2>3, FeatureTaken
    <2>4. CASE ~(at + Window <= Len(file))
      <3>1. UNCHANGED <<border, features>>
        BY <2>1, <2>4
      <3>2. ~(Clipped >= 0)
        <4> SUFFICES ASSUME Clipped >= 0 PROVE FALSE
          OBVIOUS
        <4>1. /\ info.start + Clipped \in Nat /\ info.start + Clipped + Window <= Len(file)
              /\ Location + HopTwice <= 2 * (info.start + Clipped)
          BY <2>2, Inside DEF ExtractInv
        <4>2. at \in Nat /\ 2 * at \in Location-1..Location+1 /\ Location \in Int /\ Len(file) \in Nat
          <5>1. Len(file) \in Nat /\ info.start \in Nat /\ iPacket \in Nat
            BY Reads DEF ReaderInv, ExtractInv, ExtractTyped
          <5>2. Location \in Int
            BY <5>1, Hops DEF Location
          <5> QED
            BY <5>1, <5>2 DEF Seek
        <4> DEFINE e == info.start + Clipped
        <4>3. e \in Nat /\ e + Window <= Len(file) /\ Location + HopTwice <= 2 * e
          BY <4>1
        <4> HIDE DEF e
        <4> QED
          BY <2>4, <4>2, <4>3, Hops
      <3>3. skipped' \in BOOLEAN
        BY <2>2 DEF ExtractInv, ExtractTyped
      <3> QED
        BY <1>1, <2>2, <3>1, <3>2, <3>3, MissedKept
    <2> QED
      BY <2>3, <2>4
  <1>5. CASE SkipFailedRead
    <2>1. InPackets /\ iPacket' = iPacket + 1 /\ skipped' \in BOOLEAN /\ skipped'
          /\ UNCHANGED <<file, info, stage, packets, border, features>>
      BY <1>1, <1>5 DEF SkipFailedRead, passVars
    <2> QED
      BY <2>1, MissedKept
  <1>6. CASE AssertFails \/ Finish
    <2>1. /\ stage = "packets" /\ UNCHANGED <<info, packets, iPacket, border, features, skipped>>
          /\ stage' \in {"done", "aborted"}
      BY <1>6 DEF AssertFails, Finish, InPackets, passVars
    <2>2. Clipped' = Clipped
      BY <1>1, <2>1 DEF Clipped, Duration
    <2>3. ExtractTyped'
      BY <1>1, <2>1 DEF ExtractInv, ExtractTyped
    <2>4. Fresh' /\ Counted' /\ Complete'
      BY <2>1, <2>2 DEF ExtractInv, Fresh, Counted, Complete
    <2> QED
      BY <2>1, <2>3, <2>4 DEF ExtractInv, Placed, BorderNear
  <1> QED
    BY <1>2, <1>3, <1>4, <1>5, <1>6 DEF Next, get_mfcc_features

-----------------------------------------------------------------------------
(* The theorems.                                                            *)

\* The inductive invariant.
IInv == Given /\ ReaderInv /\ BankInv /\ ExtractInv

\* It holds of every input.
LEMMA InitInv == Init => IInv
  <1> SUFFICES ASSUME Init PROVE IInv
    OBVIOUS
  <1>1. Given
    BY InputsAssumption DEF Init, Given
  <1>2. ReaderInv
    BY <1>1, ReaderInit DEF Init
  <1>3. BankInv
    <2>1. filters = <<>> /\ building = "arguments" /\ NumBands \in Nat
      BY <1>1, Bands DEF Init, BankInit
    <2> QED
      BY <2>1 DEF BankInv
  <1>4. ExtractInv
    <2>1. /\ stage = "preprocess" /\ packets = 0 /\ iPacket = 0 /\ border = -1
          /\ features = <<>> /\ skipped = FALSE
      BY DEF Init
    <2>2. ExtractTyped
      <3>1. Len(file) \in Nat
        BY <1>1 DEF Given
      <3>2. border \in -1..Len(file)
        BY <2>1, <3>1
      <3>3. features \in Seq(Windows) /\ Len(features) <= iPacket
        BY <2>1
      <3>4. skipped \in BOOLEAN
        BY <2>1
      <3> QED
        BY <2>1, <3>2, <3>3, <3>4 DEF ExtractTyped
    <2> QED
      BY <2>1, <2>2 DEF ExtractInv, Fresh, Counted, Placed, Complete, BorderNear
  <1> QED
    BY <1>1, <1>2, <1>3, <1>4 DEF IInv

\* Every step keeps it.
LEMMA NextInv == IInv /\ [Next]_vars => IInv'
  <1> SUFFICES ASSUME IInv, [Next]_vars PROVE IInv'
    OBVIOUS
  <1>1. fileVars' = fileVars /\ bank' = bank
    BY DEF Next, Preprocess, preprocess, ReadPeak, ReadFails, BeginPacket, PassPacket, EndPacket,
           get_mfcc_features, ConstructProcessor, MelFilterBank, CheckArguments, AddFilter, Build, CountPackets,
           ReadWindow, SkipFailedRead, AssertFails, Finish, bankVars, vars
  <1>2. Given'
    BY <1>1 DEF IInv, Given, fileVars
  <1>3. ReaderInv'
    <2>1. CASE Preprocess
      BY <2>1, ReaderNext DEF IInv, Preprocess
    <2>2. CASE UNCHANGED passVars
      <3>1. StartsAtOnset'
        BY <1>1, <2>2, OnsetKept DEF IInv, ReaderInv, passVars
      <3>2. ReaderTyped' /\ Trim'
        BY <1>1, <2>2 DEF IInv, ReaderInv, ReaderTyped, Trim, fileVars, passVars
      <3>3. Quiet'
        BY <1>1, <2>2 DEF IInv, ReaderInv, Quiet, Loud, fileVars, passVars
      <3> QED
        BY <3>1, <3>2, <3>3 DEF ReaderInv
    <2> QED
      BY <2>1, <2>2 DEF Next, get_mfcc_features, ConstructProcessor, CountPackets, ReadWindow,
         SkipFailedRead, AssertFails, Finish, vars
  <1>4. BankInv'
    <2>1. CASE ConstructProcessor
      BY <2>1, BankNext DEF IInv, ConstructProcessor
    <2>2. CASE UNCHANGED bankVars
      BY <2>2 DEF IInv, BankInv, bankVars, NumBands, Nyquist
    <2> QED
      BY <2>1, <2>2 DEF Next, Preprocess, get_mfcc_features, CountPackets, ReadWindow,
         SkipFailedRead, AssertFails, Finish, vars
  <1>5. ExtractInv'
    <2>1. CASE Next
      BY <1>3, <2>1, ExtractNext DEF IInv
    <2>2. CASE UNCHANGED vars
      <3>1. UNCHANGED <<file, info, stage, packets, iPacket, border, features, skipped>>
        BY <2>2 DEF vars, fileVars, passVars, extractVars
      <3>2. ExtractTyped' /\ Fresh'
        BY <3>1 DEF IInv, ExtractInv, ExtractTyped, Fresh
      <3>3. Clipped' = Clipped
        BY <3>1 DEF Clipped, Duration
      <3>4. Counted' /\ Complete'
        BY <3>1, <3>3 DEF IInv, ExtractInv, Counted, Complete
      <3>5. Placed' /\ BorderNear'
        BY <3>1 DEF IInv, ExtractInv, Placed, BorderNear
      <3> QED
        BY <3>2, <3>4, <3>5 DEF ExtractInv
    <2> QED
      BY <2>1, <2>2
  <1> QED
    BY <1>2, <1>3, <1>4, <1>5 DEF IInv

\* So it always holds.
LEMMA Invariance == Spec => []IInv
  BY InitInv, NextInv, PTL DEF Spec

\* Every variable of the extraction keeps its type, and there are never more
\* features than packets.
THEOREM TypeCorrect == Spec => []TypeOK
  <1>1. IInv => TypeOK
    <2> SUFFICES ASSUME IInv PROVE TypeOK
      OBVIOUS
    <2>1. DOMAIN process = 1..PacketSize
      BY DEF IInv, ReaderInv, ReaderTyped
    <2> QED
      BY <2>1 DEF IInv, ReaderInv, ReaderTyped, BankInv, ExtractInv, ExtractTyped, TypeOK
  <1> QED
    BY <1>1, Invariance, PTL

\* However the packets cut a file, the sound begins at its first loud sample or at
\* the zero crossing before it in the same packet.
THEOREM SoundStartsAtOnset == Spec => []StartsAtOnset
  <1>1. IInv => StartsAtOnset
    BY DEF IInv, ReaderInv
  <1> QED
    BY <1>1, Invariance, PTL

\* preprocess returns positions of the file.
THEOREM TrimStaysInFile == Spec => []TrimInFile
  <1>1. IInv => TrimInFile
    <2> SUFFICES ASSUME IInv PROVE TrimInFile
      OBVIOUS
    <2>1. /\ info.start <= total /\ total <= Len(file) /\ info.start \in Nat
          /\ total \in Nat /\ Len(file) \in Nat
      BY Reads DEF IInv, ReaderInv, Trim
    <2>2. info.end <= Len(file)
      BY <2>1 DEF IInv, ReaderInv, Trim
    <2> QED
      BY <2>1, <2>2 DEF IInv, ReaderInv, Trim, TrimInFile
  <1> QED
    BY <1>1, Invariance, PTL

\* The two ramps of every filter whose size fits fill its array exactly.
THEOREM FiltersAreFilled == Spec => []FiltersFilled
  <1>1. IInv => FiltersFilled
    BY BankCorrect DEF IInv
  <1> QED
    BY <1>1, Invariance, PTL

\* The filters of a processor that was built weigh the magnitudes of the spectrum,
\* and beyond them the value at the Nyquist bin only if they begin right before it.
THEOREM FiltersWeighMagnitudes == Spec => []WeighsMagnitudes
  <1>1. IInv => WeighsMagnitudes
    BY BankCorrect DEF IInv
  <1> QED
    BY <1>1, Invariance, PTL

\* The windows follow one another at the interval, all inside the file, and begin
\* before the sound ends.
THEOREM WindowsInSound == Spec => []WindowsFollow
  <1>1. IInv => WindowsFollow
    <2> SUFFICES ASSUME IInv, stage \in {"packets", "done"}, Clipped >= 0, ~skipped
                 PROVE  /\ Len(features) = iPacket
                        /\ InPackets => Location <= 2 * Len(file)
                        /\ \A k \in DOMAIN features :
                             /\ 2 * features[k].at - 2 * info.start - (k - 1) * HopTwice \in -1..1
                             /\ features[k].at < info.end
      BY DEF WindowsFollow
    <2>1. Len(features) = iPacket /\ \A k \in 1..iPacket : features[k].at < info.end
      BY DEF IInv, ExtractInv, Complete
    <2>2. DOMAIN features = 1..iPacket
      BY <2>1 DEF IInv, ExtractInv, ExtractTyped
    <2>3. ASSUME InPackets PROVE Location <= 2 * Len(file)
      <3>1. /\ info.start + Clipped \in Nat /\ info.start + Clipped + Window <= Len(file)
            /\ Location + HopTwice <= 2 * (info.start + Clipped)
        BY <2>3, Inside DEF IInv, ExtractInv
      <3>2. Len(file) \in Nat /\ info.start \in Nat /\ iPacket \in Nat
        BY Reads DEF IInv, ReaderInv, ExtractInv, ExtractTyped
      <3>3. Location \in Int
        BY <3>2, Hops DEF Location
      <3> DEFINE e == info.start + Clipped
      <3>4. e \in Nat /\ e + Window <= Len(file) /\ Location + HopTwice <= 2 * e
        BY <3>1
      <3> HIDE DEF e
      <3> QED
        BY <3>2, <3>3, <3>4, Hops
    <2> QED
      BY <2>1, <2>2, <2>3 DEF IInv, ExtractInv, Placed
  <1> QED
    BY <1>1, Invariance, PTL

\* What is taken for the left neighbour of a window is at most one sample off, and
\* only if the interval is not a whole number of samples.
THEOREM BordersNear == Spec => []BorderNear
  <1>1. IInv => BorderNear
    BY DEF IInv, ExtractInv
  <1> QED
    BY <1>1, Invariance, PTL
=============================================================================
