----------------------- MODULE WordMatchSessionProofs -----------------------
(* Proofs about WordMatchSession, for every window, session length and     *)
(* sequence of buffer sizes.                                               *)
EXTENDS WordMatchSession, TLAPS, SequenceTheorems

\* What the proofs need of the window's size.
LEMMA HopCounted == /\ Hop \in Nat /\ Hop > 1 /\ Window = 2 * Hop /\ Window \in Nat
                    /\ SizeMod \in Nat /\ SizeMod > 4 * Window
  BY WindowAssumption, SizeAssumption

\* A size that does not wrap around is itself.
LEMMA SizeTSmall == \A i \in 0..SizeMod-1 : SizeT(i) = i
  BY HopCounted DEF SizeT

\* Any size is a natural number.
LEMMA SizeTNat == \A i \in Int : SizeT(i) \in Nat
  BY HopCounted DEF SizeT

\* There is nothing of a session that is not there.
Gone == ~session => features = <<>> /\ overlap = <<>> /\ expected = 0

IInv == TypeOK /\ Gone /\ CarryBounded

\* The samples of the incoming buffer, and what is knitted of them.
LEMMA SamplesTyped ==
  ASSUME TypeOK, NEW fc \in Nat
  PROVE  /\ \A i \in Int : Sample(fc, i) \in Samples
         /\ Knitted(fc) \in [0..3*Hop-1 -> Samples]
  <1>1. \A i \in Int : Sample(fc, i) \in Samples
    BY DEF TypeOK, Sample, Samples
  <1>2. \A i \in 0..3*Hop-1 : i < num_overlap => overlap[i+1] \in Samples
    BY HopCounted DEF TypeOK, num_overlap
  <1>3. \A i \in 0..3*Hop-1 : i - num_overlap \in Int
    BY HopCounted DEF TypeOK, num_overlap
  <1> QED
    BY <1>1, <1>2, <1>3 DEF Knitted

\* A window inside a buffer makes a feature.
LEMMA FeatureTyped ==
  ASSUME NEW size \in Nat, NEW buffer \in [0..size-1 -> Samples], NEW i \in Nat,
         i + Window <= size, NEW left \in Samples
  PROVE  Feature(buffer, i, left) \in Features
  <1>1. \A k \in 0..Window-1 : i + k \in 0..size-1
    BY HopCounted
  <1> QED
    BY <1>1 DEF Feature, Features

\* The knitting makes none, one or two features, and never more than the
\* session has room for.
LEMMA KnitTyped ==
  ASSUME TypeOK, ~WMSessionIsCompleted, NEW fc \in Nat
  PROVE  /\ KnitFeatures(fc) \in Seq(Features)
         /\ Len(KnitFeatures(fc)) = IF num_overlap = 0 THEN 0 ELSE IF KnitTwice THEN 2 ELSE 1
         /\ Len(features) + Len(KnitFeatures(fc)) <= expected
         /\ KnitBorder(fc) \in Samples
  <1> DEFINE buffer == Knitted(fc)
             first  == Feature(buffer, 0, border)
             second == Feature(buffer, Hop, buffer[Hop - 1])
  <1>1. buffer \in [0..3*Hop-1 -> Samples] /\ 3*Hop \in Nat
    BY SamplesTyped, HopCounted
  <1>2. /\ 0 + Window <= 3*Hop /\ Hop + Window <= 3*Hop /\ Hop \in Nat
        /\ Hop - 1 \in 0..3*Hop-1 /\ 2*Hop - 1 \in 0..3*Hop-1
    BY HopCounted
  <1>3. buffer[Hop - 1] \in Samples /\ buffer[2*Hop - 1] \in Samples
    BY <1>1, <1>2
  <1>4. border \in Samples
    BY DEF TypeOK
  <1> HIDE DEF buffer
  <1>5. first \in Features /\ second \in Features
    BY <1>1, <1>2, <1>3, <1>4, FeatureTyped
  <1>6. KnitFeatures(fc) = IF num_overlap = 0 THEN <<>>
                           ELSE IF KnitTwice THEN <<first, second>> ELSE <<first>>
    BY DEF KnitFeatures, buffer
  <1>7. KnitBorder(fc) \in Samples
    BY <1>3, <1>4 DEF KnitBorder, buffer
  <1> HIDE DEF first, second
  <1>8. /\ KnitFeatures(fc) \in Seq(Features)
        /\ Len(KnitFeatures(fc)) = IF num_overlap = 0 THEN 0 ELSE IF KnitTwice THEN 2 ELSE 1
    BY <1>5, <1>6
  <1>9. Len(features) \in Nat /\ expected \in Nat /\ Len(features) < expected
    BY DEF TypeOK, WMSessionIsCompleted
  <1> QED
    BY <1>7, <1>8, <1>9 DEF KnitTwice

\* Unless the session is completed by it, the knitting leaves off early in the
\* incoming buffer.
LEMMA OffsetSmall ==
  ASSUME TypeOK, session, ~WMSessionIsCompleted, CarryBounded
  PROVE  /\ DirectOffset \in Nat
         /\ num_overlap <= Hop \/ KnitTwice => DirectOffset < Hop
  <1>1. num_overlap = 0 \/ num_overlap \in Hop-1..2*Hop-2
    BY DEF CarryBounded
  <1>2. 2 * Hop - num_overlap \in Int /\ Hop - num_overlap \in Int
    BY <1>1, HopCounted
  <1>3. DirectOffset \in Nat
    BY <1>2, SizeTNat DEF DirectOffset
  <1>4. ASSUME KnitTwice PROVE DirectOffset < Hop
    <2>1. 2 * Hop - num_overlap \in 0..Hop-1 /\ num_overlap # 0
      BY <1>1, <1>4, HopCounted DEF KnitTwice
    <2>2. 2 * Hop - num_overlap \in 0..SizeMod-1
      BY <2>1, HopCounted
    <2> QED
      BY <1>4, <2>1, <2>2, SizeTSmall, HopCounted DEF DirectOffset
  <1>5. ASSUME num_overlap <= Hop, ~KnitTwice, num_overlap # 0 PROVE DirectOffset < Hop
    <2>1. Hop - num_overlap \in 0..1
      BY <1>1, <1>5, HopCounted
    <2>2. Hop - num_overlap \in 0..SizeMod-1
      BY <2>1, HopCounted
    <2> QED
      BY <1>5, <2>1, <2>2, SizeTSmall, HopCounted DEF DirectOffset
  <1>6. ASSUME num_overlap = 0 PROVE DirectOffset < Hop
    BY <1>6, HopCounted DEF DirectOffset
  <1> QED
    BY <1>3, <1>4, <1>5, <1>6

\* The turns of the loop: their features, and how far they reach.
LEMMA TurnsTyped ==
  ASSUME TypeOK, NEW fc \in Nat, NEW offset \in Nat, NEW room \in Nat, NEW n \in Nat,
         Turns(fc, offset, room, n), KnitBorder(fc) \in Samples
  PROVE  /\ DirectFeatures(fc, offset, n) \in Seq(Features)
         /\ Len(DirectFeatures(fc, offset, n)) = n
         /\ n * Hop \in Nat
         /\ n > 0 => offset + n * Hop + Hop <= fc
  <1> DEFINE data == [i \in 0..fc-1 |-> Sample(fc, i)]
             f(j) == Feature(data, offset + (j - 1) * Hop,
                             IF j = 1 THEN KnitBorder(fc) ELSE data[offset + (j - 1) * Hop - 1])
  <1>1. data \in [0..fc-1 -> Samples]
    BY SamplesTyped
  <1>2. \A j \in Nat : j * Hop \in Nat /\ (j > 0 => j * Hop >= Hop /\ j * Hop = (j - 1) * Hop + Hop)
    BY HopCounted
  <1>3. ASSUME NEW j \in 1..n PROVE f(j) \in Features
    <2>1. j - 1 \in 0..n-1 /\ j - 1 \in Nat
      OBVIOUS
    <2>2. offset + (j - 1) * Hop \in Nat /\ offset + (j - 1) * Hop + Window <= fc
      BY <1>2, <2>1 DEF Turns
    <2>3. j # 1 => (j - 1) * Hop >= Hop
      BY <1>2, <2>1
    <2>4. j # 1 => offset + (j - 1) * Hop - 1 \in 0..fc-1
      BY <2>2, <2>3, HopCounted
    <2>5. (IF j = 1 THEN KnitBorder(fc) ELSE data[offset + (j - 1) * Hop - 1]) \in Samples
      BY <1>1, <2>4
    <2> HIDE DEF data
    <2> QED
      BY <1>1, <2>2, <2>5, FeatureTyped
  <1>4. DirectFeatures(fc, offset, n) = [j \in 1..n |-> f(j)]
    BY DEF DirectFeatures
  <1> HIDE DEF f
  <1>5. DirectFeatures(fc, offset, n) \in [1..n -> Features]
    BY <1>3, <1>4
  <1>6. ASSUME n > 0 PROVE offset + n * Hop + Hop <= fc
    <2>1. n - 1 \in 0..n-1
      BY <1>6
    <2>2. offset + (n - 1) * Hop + Window <= fc
      BY <2>1 DEF Turns
    <2>3. n * Hop = (n - 1) * Hop + Hop /\ (n - 1) * Hop \in Nat
      BY <1>2, <1>6
    <2> QED
      BY <2>2, <2>3, HopCounted
  <1> QED
    BY <1>2, <1>5, <1>6

\* Appending to a sequence lengthens it and keeps what is there.
LEMMA Appended ==
  ASSUME NEW S, NEW a \in Seq(S), NEW b \in Seq(S)
  PROVE  /\ a \o b \in Seq(S)
         /\ Len(a \o b) = Len(a) + Len(b)
         /\ \A i \in 1..Len(a) : (a \o b)[i] = a[i]
  OBVIOUS

LEMMA AppendedTwice ==
  ASSUME NEW S, NEW a \in Seq(S), NEW b \in Seq(S), NEW c \in Seq(S)
  PROVE  /\ a \o b \o c \in Seq(S)
         /\ Len(a \o b \o c) = Len(a) + Len(b) + Len(c)
         /\ \A i \in 1..Len(a) : (a \o b \o c)[i] = a[i]
  <1>1. a \o b \in Seq(S) /\ Len(a \o b) = Len(a) + Len(b) /\ \A i \in 1..Len(a) : (a \o b)[i] = a[i]
    OBVIOUS
  <1>2. /\ (a \o b) \o c \in Seq(S) /\ Len((a \o b) \o c) = Len(a \o b) + Len(c)
        /\ \A i \in 1..Len(a \o b) : ((a \o b) \o c)[i] = (a \o b)[i]
    BY <1>1
  <1>3. Len(a) \in Nat /\ Len(b) \in Nat
    OBVIOUS
  <1> QED
    BY <1>1, <1>2, <1>3

\* The feed consumes the buffer: what it leaves behind.
LEMMA FeedKeeps ==
  ASSUME IInv, NEW fc \in Nat, NEW format, Feed(fc, format)
  PROVE  /\ TypeOK' /\ CarryBounded' /\ session'
         /\ Len(features') > Len(features)
         /\ \A i \in 1..Len(features) : features'[i] = features[i]
  <1> DEFINE knit   == KnitFeatures(fc)
             offset == DirectOffset
             room   == Room(fc)
  <1>1. /\ session /\ ~WMSessionIsCompleted /\ fc >= Window /\ TypeOK /\ CarryBounded
        /\ num_read' = num_read + fc /\ expected' = expected /\ session' = session
        /\ result' = "OK" /\ Deinterleaved(fc, format)
    BY DEF Feed, Usable, IInv
  <1>2. PICK n \in 0..fc : Turns(fc, offset, room, n) /\ Consume(fc, n)
    BY DEF Feed
  <1> DEFINE direct == DirectFeatures(fc, offset, n)
             rest   == offset + n * Hop
  <1>c. /\ rest < fc - 1
        /\ features' = features \o knit \o direct
        /\ border' = IF n = 0 THEN KnitBorder(fc) ELSE Sample(fc, rest - 1)
        /\ overlap' = [i \in 1..(fc - 1 - rest) |-> Sample(fc, rest + i - 1)]
    BY <1>2 DEF Consume
  <1>3. /\ knit \in Seq(Features) /\ KnitBorder(fc) \in Samples
        /\ Len(knit) = IF num_overlap = 0 THEN 0 ELSE IF KnitTwice THEN 2 ELSE 1
        /\ Len(features) + Len(knit) <= expected
    BY <1>1, KnitTyped
  <1>4. /\ expected \in Nat /\ Len(features) \in Nat /\ Len(knit) \in Nat /\ room \in Nat
        /\ room = expected - Len(features) - Len(knit)
        /\ Len(features) < expected /\ features \in Seq(Features)
    BY <1>1, <1>3 DEF TypeOK, WMSessionIsCompleted, Room
  <1>5. offset \in Nat /\ (num_overlap <= Hop \/ KnitTwice => offset < Hop)
    BY <1>1, OffsetSmall
  <1> HIDE DEF offset, room
  <1>6. /\ direct \in Seq(Features) /\ Len(direct) = n /\ n * Hop \in Nat
        /\ n > 0 => offset + n * Hop + Hop <= fc
    BY <1>1, <1>2, <1>3, <1>4, <1>5, TurnsTyped
  <1>7. n <= room /\ (n = room \/ rest + Window > fc)
    BY <1>2 DEF Turns
  <1> HIDE DEF knit, direct
  <1>8. /\ features' \in Seq(Features)
        /\ Len(features') = Len(features) + Len(knit) + n
        /\ \A i \in 1..Len(features) : features'[i] = features[i]
    <2>1. /\ features \o knit \o direct \in Seq(Features)
          /\ Len(features \o knit \o direct) = Len(features) + Len(knit) + Len(direct)
          /\ \A i \in 1..Len(features) : (features \o knit \o direct)[i] = features[i]
      <3> DEFINE F == Features
      <3>1. features \in Seq(F) /\ knit \in Seq(F) /\ direct \in Seq(F)
        BY <1>3, <1>4, <1>6
      <3> HIDE DEF F, knit, direct
      <3>2. /\ features \o knit \o direct \in Seq(F)
            /\ Len(features \o knit \o direct) = Len(features) + Len(knit) + Len(direct)
            /\ \A i \in 1..Len(features) : (features \o knit \o direct)[i] = features[i]
        BY <3>1, AppendedTwice
      <3> QED
        BY <3>2 DEF F
    <2>2. features' = features \o knit \o direct
      BY <1>c
    <2>3. Len(direct) = n
      BY <1>6
    <2> HIDE DEF knit, direct
    <2> QED
      BY <2>1, <2>2, <2>3
  <1>9. Len(features') <= expected
    BY <1>2, <1>4, <1>7, <1>8
  <1>10. Len(features') > Len(features)
    <2>1. CASE num_overlap = 0
      <3>1. Len(knit) = 0 /\ room > 0 /\ offset = 0
        BY <1>3, <1>4, <2>1 DEF DirectOffset, offset
      <3>2. n > 0
        <4> SUFFICES ASSUME n = 0 PROVE FALSE
          BY <1>2
        <4>1. n * Hop = 0
          BY HopCounted
        <4> QED
          BY <1>1, <1>7, <3>1, <4>1, HopCounted
      <3> QED
        BY <1>4, <1>8, <3>1, <3>2
    <2>2. CASE num_overlap # 0
      <3>1. Len(knit) >= 1
        BY <1>3, <2>2
      <3> QED
        BY <1>2, <1>4, <1>8, <3>1
    <2> QED
      BY <2>1, <2>2
  <1>11. fc - 1 - rest \in Nat /\ rest \in Nat
    BY <1>c, <1>5, <1>6
  <1>12. overlap' \in Seq(Samples) /\ Len(overlap') = fc - 1 - rest
    <2>1. \A i \in 1..(fc - 1 - rest) : Sample(fc, rest + i - 1) \in Samples
      BY <1>1, <1>11, SamplesTyped
    <2>2. overlap' \in [1..(fc - 1 - rest) -> Samples]
      BY <1>c, <2>1
    <2> QED
      BY <1>11, <2>2
  <1>13. border' \in Samples
    BY <1>1, <1>c, <1>3, <1>11, SamplesTyped
  <1>14. num_read' \in Nat /\ max_frames' \in Nat
    BY <1>1 DEF TypeOK, Deinterleaved
  <1>15. TypeOK'
    BY <1>1, <1>8, <1>9, <1>12, <1>13, <1>14 DEF TypeOK, Codes
  \* With room left, less than a window is, and more than the last half of one.
  <1>16. ASSUME ~(WMSessionIsCompleted') PROVE num_overlap' \in Hop-1..2*Hop-2
    <2>1. Len(features') # expected
      BY <1>1, <1>16 DEF WMSessionIsCompleted
    <2>2. n # room
      BY <1>4, <1>8, <2>1
    <2>3. rest + Window > fc
      BY <1>7, <2>2
    <2>4. rest + Hop <= fc
      <3>1. CASE n > 0
        BY <1>6, <3>1
      <3>2. CASE n = 0
        <4>1. num_overlap <= Hop \/ KnitTwice
          <5>1. num_overlap \in Nat
            BY <1>1 DEF TypeOK, num_overlap
          <5>2. ASSUME num_overlap > Hop, ~KnitTwice PROVE FALSE
            <6>1. Len(knit) = 1 /\ Len(features') = Len(features) + 1
              BY <1>3, <1>4, <1>8, <3>2, <5>1, <5>2, HopCounted
            <6>2. Len(features) + 1 >= expected
              BY <1>4, <5>2 DEF KnitTwice
            <6> QED
              BY <1>4, <1>9, <2>1, <6>1, <6>2
          <5> QED
            BY <5>1, <5>2, HopCounted
        <4>2. n * Hop = 0
          BY <3>2, HopCounted
        <4> QED
          BY <1>1, <1>5, <4>1, <4>2, HopCounted
      <3> QED
        BY <1>2, <3>1, <3>2
    <2>5. num_overlap' = fc - 1 - rest
      BY <1>12 DEF num_overlap
    <2> QED
      BY <1>11, <2>3, <2>4, <2>5, HopCounted
  <1>17. CarryBounded'
    BY <1>16 DEF CarryBounded
  <1> QED
    BY <1>1, <1>8, <1>10, <1>15, <1>17

\* The feed that ends in the "impossible state" completes the session.
LEMMA FeedImpossibleKeeps ==
  ASSUME IInv, NEW fc \in Nat, NEW format, FeedImpossible(fc, format)
  PROVE  TypeOK' /\ CarryBounded' /\ session'
  <1>1. /\ session /\ ~WMSessionIsCompleted /\ fc >= Window /\ TypeOK /\ CarryBounded
        /\ DirectOffset >= fc - 1 /\ features' = features \o KnitFeatures(fc)
        /\ border' = KnitBorder(fc) /\ result' = "Generic" /\ Deinterleaved(fc, format)
        /\ UNCHANGED <<session, expected, num_read, overlap>>
    BY DEF FeedImpossible, Usable, IInv
  <1>2. /\ KnitFeatures(fc) \in Seq(Features) /\ KnitBorder(fc) \in Samples
        /\ Len(KnitFeatures(fc)) = IF num_overlap = 0 THEN 0 ELSE IF KnitTwice THEN 2 ELSE 1
        /\ Len(features) + Len(KnitFeatures(fc)) <= expected
    BY <1>1, KnitTyped
  <1>3. /\ features \in Seq(Features) /\ Len(features) \in Nat /\ expected \in Nat
        /\ num_overlap \in Nat
    BY <1>1 DEF TypeOK, num_overlap
  <1>4. /\ features' \in Seq(Features)
        /\ Len(features') = Len(features) + Len(KnitFeatures(fc))
    <2>1. /\ features \o KnitFeatures(fc) \in Seq(Features)
          /\ Len(features \o KnitFeatures(fc)) = Len(features) + Len(KnitFeatures(fc))
      BY <1>2, <1>3, Appended
    <2>2. features' = features \o KnitFeatures(fc)
      BY <1>1
    <2> QED
      BY <2>1, <2>2
  <1>5. max_frames' \in Nat
    BY <1>1 DEF TypeOK, Deinterleaved
  <1>6. TypeOK'
    BY <1>1, <1>2, <1>4, <1>5 DEF TypeOK, Codes
  <1>7. num_overlap > Hop /\ ~KnitTwice
    BY <1>1, <1>3, OffsetSmall, HopCounted
  <1>8. Len(KnitFeatures(fc)) = 1 /\ Len(features) + 1 >= expected
    BY <1>2, <1>3, <1>7, HopCounted DEF KnitTwice
  <1>9. WMSessionIsCompleted'
    <2>1. Len(features') = Len(features) + 1
      BY <1>4, <1>8
    <2>2. Len(features) + 1 <= expected
      BY <1>2, <1>8
    <2>3. Len(features') = expected
      BY <1>3, <1>8, <2>1, <2>2
    <2>4. expected' = expected
      BY <1>1
    <2> QED
      BY <2>3, <2>4 DEF WMSessionIsCompleted
  <1> QED
    BY <1>1, <1>6, <1>9 DEF CarryBounded

\* The sizes a caller may choose are sizes.
LEMMA InputsCounted == Totals \subseteq Nat /\ FrameCounts \subseteq Nat
  BY SizeAssumption

\* A new session expects at least one feature.
LEMMA ExpectedCounted ==
  ASSUME NEW total \in Nat, total >= Window
  PROVE  (total \div Window) * 2 - 1 \in Nat /\ (total \div Window) * 2 - 1 > 0
  <1>1. total \div Window \in Nat /\ total \div Window >= 1
    BY HopCounted
  <1> QED
    BY <1>1

\* Nothing is a sequence of anything.
LEMMA NothingTyped ==
  /\ <<>> \in Seq(Features) /\ <<>> \in Seq(Samples)
  /\ NoSample \in Samples
  <1>1. \A S : <<>> \in Seq(S)
    OBVIOUS
  <1> QED
    BY <1>1 DEF Samples

\* Where there is no session, the invariant holds.
LEMMA BlankInv ==
  ASSUME session = FALSE, expected = 0, features = <<>>, num_read = 0, overlap = <<>>,
         border = NoSample, max_frames = 0, result \in Codes
  PROVE  IInv
  <1>1. TypeOK
    <2>1. Len(features) = 0
      OBVIOUS
    <2>2. features \in Seq(Features) /\ overlap \in Seq(Samples) /\ border \in Samples
      BY NothingTyped, Zenon
    <2>3. expected \in Nat /\ num_read \in Nat /\ max_frames \in Nat /\ Len(features) <= expected
      BY <2>1
    <2>4. session \in BOOLEAN
      BY Zenon
    <2> QED
      BY <2>2, <2>3, <2>4, Zenon DEF TypeOK
  <1> QED
    BY <1>1 DEF IInv, Gone, CarryBounded

\* The inductive invariant holds before the first call,
LEMMA InitInv == Init => IInv
  BY BlankInv DEF Init, Codes

\* and every call keeps it.
LEMMA NextInv == IInv /\ [Next]_vars => IInv'
  <1> SUFFICES ASSUME IInv, [Next]_vars PROVE IInv'
    OBVIOUS
  <1>0. TypeOK /\ Gone /\ CarryBounded
    BY DEF IInv
  <1>1. ASSUME NEW code \in Codes, NoSession(code) PROVE IInv'
    <2>1. /\ session' = FALSE /\ expected' = 0 /\ features' = <<>> /\ num_read' = 0 /\ overlap' = <<>>
          /\ border' = NoSample /\ max_frames' = 0 /\ result' \in Codes
      BY <1>1 DEF NoSession
    <2>2. TypeOK'
      <3>1. Len(features') = 0
        BY <2>1
      <3>2. features' \in Seq(Features) /\ overlap' \in Seq(Samples) /\ border' \in Samples
        BY <2>1, NothingTyped, Zenon
      <3>3. /\ expected' \in Nat /\ num_read' \in Nat /\ max_frames' \in Nat
            /\ Len(features') <= expected'
        BY <2>1, <3>1
      <3>4. session' \in BOOLEAN /\ result' \in Codes
        BY <2>1, Zenon
      <3> QED
        BY <3>2, <3>3, <3>4, Zenon DEF TypeOK
    <2> QED
      BY <2>1, <2>2 DEF IInv, Gone, CarryBounded
  <1>2. ASSUME NEW code \in Codes, Returns(code) PROVE IInv'
    BY <1>0, <1>2 DEF Returns, IInv, TypeOK, Gone, CarryBounded, WMSessionIsCompleted, num_overlap
  <1>3. CASE UNCHANGED vars
    BY <1>0, <1>3 DEF vars, IInv, TypeOK, Gone, CarryBounded, WMSessionIsCompleted, num_overlap
  <1>4. ASSUME NEW total \in Totals, Create(total) PROVE IInv'
    <2>1. expected' \in Nat
      BY <1>4, InputsCounted, ExpectedCounted DEF Create
    <2>2. features = <<>> /\ overlap = <<>>
      BY <1>0, <1>4 DEF Gone, Create
    <2> QED
      BY <1>0, <1>4, <2>1, <2>2 DEF Create, IInv, TypeOK, Gone, CarryBounded, num_overlap, Codes
  <1>5. CASE Destroy
    BY <1>1, <1>5 DEF Destroy, Codes
  <1>6. CASE CreateFails \/ NullSession \/ FeedSkipped \/ FeedRefused
    BY <1>2, <1>6 DEF CreateFails, NullSession, FeedSkipped, FeedRefused, Codes
  <1>7. CASE Reset
    BY <1>0, <1>7 DEF Reset, IInv, TypeOK, Gone, CarryBounded, num_overlap, Codes, Samples, NoSample
  <1>8. ASSUME NEW fc \in FrameCounts, NEW format \in {"mono", "stereo", "other"} PROVE
          /\ FeedUnusable(fc, format) => IInv'
          /\ Feed(fc, format) => IInv'
          /\ FeedImpossible(fc, format) => IInv'
          /\ FeedCrashes(fc, format) => IInv'
    <2>0. fc \in Nat
      BY InputsCounted
    <2>1. CASE FeedUnusable(fc, format)
      BY <1>0, <2>0, <2>1 DEF FeedUnusable, IInv, TypeOK, Gone, CarryBounded, WMSessionIsCompleted,
                              num_overlap, Codes
    <2>2. CASE Feed(fc, format)
      BY <2>0, <2>2, FeedKeeps DEF IInv, Gone
    <2>3. CASE FeedImpossible(fc, format)
      BY <2>0, <2>3, FeedImpossibleKeeps DEF IInv, Gone
    <2>4. CASE FeedCrashes(fc, format)
      BY <1>1, <2>4 DEF FeedCrashes, Codes
    <2> QED
      BY <2>1, <2>2, <2>3, <2>4
  <1> QED
    BY <1>3, <1>4, <1>5, <1>6, <1>7, <1>8 DEF Next

\* So it always holds.
LEMMA Invariance == Spec => []IInv
  BY InitInv, NextInv, PTL DEF Spec

\* Every reachable state has the types TypeOK gives; in particular no sequence
\* of feeds computes more features than the session allocated room for.
THEOREM TypeCorrect == Spec => []TypeOK
  <1>1. IInv => TypeOK
    BY DEF IInv
  <1> QED
    BY <1>1, Invariance, PTL

\* For every window and every way to cut a stream into buffers, an unfinished
\* session carries at least half a window less one sample, and too few for two
\* windows: overlap_buffer is then large enough.
THEOREM CarryIsBounded == Spec => []CarryBounded
  <1>1. IInv => CarryBounded
    BY DEF IInv
  <1> QED
    BY <1>1, Invariance, PTL

\* Every accepted feed stores a feature and keeps those stored before, so a
\* session is complete after at most as many accepted feeds as it expects features.
THEOREM FeedsAdvance == Spec => FeedAdvances
  <1> DEFINE A == result' = "OK" /\ num_read' > num_read =>
                    /\ Len(features') > Len(features)
                    /\ \A i \in 1..Len(features) : features'[i] = features[i]
  <1>1. ASSUME IInv, [Next]_vars PROVE [A]_vars
    <2>1. num_read \in Nat /\ TypeOK
      BY <1>1 DEF IInv, TypeOK
    <2>2. ASSUME num_read' = num_read \/ num_read' = 0 \/ result' = "Generic" PROVE A
      BY <2>1, <2>2
    <2>3. ASSUME NEW fc \in FrameCounts, NEW format \in {"mono", "stereo", "other"}, Feed(fc, format)
          PROVE  A
      BY <1>1, <2>3, FeedKeeps, InputsCounted
    <2>4. ASSUME NEW fc \in FrameCounts, NEW format \in {"mono", "stereo", "other"},
                 FeedUnusable(fc, format) \/ FeedImpossible(fc, format) \/ FeedCrashes(fc, format)
          PROVE  A
      BY <2>2, <2>4 DEF FeedUnusable, FeedImpossible, FeedCrashes, NoSession
    <2>5. ASSUME NEW total \in Totals, Create(total) PROVE A
      BY <2>2, <2>5 DEF Create
    <2>6. CASE CreateFails \/ Destroy \/ Reset \/ NullSession \/ FeedSkipped \/ FeedRefused
      BY <2>2, <2>6 DEF CreateFails, Destroy, Reset, NullSession, FeedSkipped, FeedRefused,
                        Returns, NoSession
    <2> HIDE DEF A
    <2> QED
      BY <1>1, <2>3, <2>4, <2>5, <2>6 DEF Next
  <1>2. IInv /\ [Next]_vars => [A]_vars
    BY <1>1
  <1> QED
    BY <1>2, Invariance, PTL DEF Spec, FeedAdvances
-----------------------------------------------------------------------------
(* The features in the stream.  The carried samples and the incoming buffer *)
(* behind them are one stretch of the stream, and every window a feed takes *)
(* is a window of that stretch, whichever of the two buffers it is read     *)
(* from.                                                                    *)

Stream(fc, i) == IF i < num_overlap THEN overlap[i+1] ELSE Sample(fc, i - num_overlap)

\* The carried samples are of this session, in the order they were read.
Streamed ==
  /\ \A i \in 1..num_overlap : overlap[i] \in Nat /\ overlap[i] < num_read
  /\ \A i \in 1..num_overlap-1 : overlap[i] < overlap[i+1]

\* What is carried goes on where the last feature's first half ends.
Following ==
  /\ ~session => border = NoSample
  /\ session /\ ~WMSessionIsCompleted /\ features = <<>> => overlap = <<>> /\ border = NoSample
  /\ session /\ ~WMSessionIsCompleted /\ features # <<>> =>
       /\ num_overlap # 0
       /\ overlap[1] = features[Len(features)].samples[Hop]
       /\ border = features[Len(features)].samples[Hop-1]

StreamInv == Streamed /\ Following /\ Chained /\ WindowsInOrder

\* Window j of the stretch, and the sample left of it.
Placed(fc, j, f) ==
  /\ (j - 1) * Hop + Window <= num_overlap + fc
  /\ \A k \in 0..Window-1 : f.samples[k] = Stream(fc, (j - 1) * Hop + k)
  /\ f.left = IF j = 1 THEN border ELSE Stream(fc, (j - 1) * Hop - 1)

LEMMA Multiples ==
  /\ \A j \in Nat : j * Hop \in Nat /\ (j + 1) * Hop = j * Hop + Hop
  /\ 0 * Hop = 0 /\ 1 * Hop = Hop
  BY HopCounted

\* The stretch is in the order of the stream.
LEMMA StreamOrdered ==
  ASSUME TypeOK, Streamed, NEW fc \in Nat
  PROVE  /\ \A i \in 0..num_overlap+fc-1 : Stream(fc, i) \in Nat
         /\ \A i \in 1..num_overlap+fc-1 : Stream(fc, i - 1) < Stream(fc, i)
  <1>1. num_overlap \in Nat /\ num_read \in Nat
    BY DEF TypeOK, num_overlap
  <1>2. ASSUME NEW i \in 0..num_overlap+fc-1
        PROVE  Stream(fc, i) = IF i < num_overlap THEN overlap[i+1] ELSE num_read + (i - num_overlap)
    BY <1>1 DEF Stream, Sample
  <1>3. ASSUME NEW i \in 0..num_overlap+fc-1 PROVE Stream(fc, i) \in Nat
    <2>1. CASE i < num_overlap
      <3>1. i + 1 \in 1..num_overlap
        BY <1>1, <2>1
      <3> QED
        BY <1>2, <2>1, <3>1 DEF Streamed
    <2>2. CASE ~(i < num_overlap)
      BY <1>1, <1>2, <2>2
    <2> QED
      BY <2>1, <2>2
  <1>4. ASSUME NEW i \in 1..num_overlap+fc-1 PROVE Stream(fc, i - 1) < Stream(fc, i)
    <2>0. i \in 0..num_overlap+fc-1 /\ i - 1 \in 0..num_overlap+fc-1 /\ (i - 1) + 1 = i
      BY <1>1
    <2>1. CASE i < num_overlap
      <3>1. i \in 1..num_overlap-1
        BY <1>1, <2>1
      <3>2. Stream(fc, i - 1) = overlap[i] /\ Stream(fc, i) = overlap[i+1]
        BY <1>1, <1>2, <2>0, <2>1
      <3> QED
        BY <3>1, <3>2 DEF Streamed
    <2>2. CASE i = num_overlap
      <3>1. Stream(fc, i - 1) = overlap[i] /\ Stream(fc, i) = num_read + 0
        BY <1>1, <1>2, <2>0, <2>2
      <3>2. overlap[i] \in Nat /\ overlap[i] < num_read
        BY <1>1, <2>2 DEF Streamed
      <3> QED
        BY <1>1, <3>1, <3>2
    <2>3. CASE i > num_overlap
      <3>1. Stream(fc, i - 1) = num_read + (i - 1 - num_overlap) /\ Stream(fc, i) = num_read + (i - num_overlap)
        BY <1>1, <1>2, <2>0, <2>3
      <3> QED
        BY <1>1, <3>1
    <2> QED
      BY <1>1, <2>1, <2>2, <2>3
  <1> QED
    BY <1>3, <1>4

\* Where the windows knitted are in the stretch.
LEMMA KnitPlaced ==
  ASSUME TypeOK, session, ~WMSessionIsCompleted, CarryBounded, NEW fc \in Nat, fc >= Window,
         num_overlap # 0
  PROVE  /\ \A j \in 1..Len(KnitFeatures(fc)) : Placed(fc, j, KnitFeatures(fc)[j])
         /\ KnitBorder(fc) = Stream(fc, Len(KnitFeatures(fc)) * Hop - 1)
  <1> DEFINE buffer == Knitted(fc)
             first  == Feature(buffer, 0, border)
             second == Feature(buffer, Hop, buffer[Hop - 1])
  <1>1. num_overlap \in Hop-1..2*Hop-2 /\ num_overlap \in Nat
    BY HopCounted DEF CarryBounded
  <1>2. \A i \in 0..3*Hop-1 : buffer[i] = Stream(fc, i)
    BY DEF Knitted, Stream
  <1>3. /\ \A k \in 0..Window-1 : 0 + k \in 0..3*Hop-1 /\ Hop + k \in 0..3*Hop-1
        /\ Hop - 1 \in 0..3*Hop-1 /\ 2*Hop - 1 \in 0..3*Hop-1
    BY HopCounted
  <1> HIDE DEF buffer
  <1>4. \A k \in 0..Window-1 : first.samples[k] = Stream(fc, 0 + k) /\ second.samples[k] = Stream(fc, Hop + k)
    BY <1>2, <1>3 DEF Feature
  <1>5. first.left = border /\ second.left = Stream(fc, Hop - 1)
    BY <1>2, <1>3 DEF Feature
  <1>6. Placed(fc, 1, first)
    <2>1. (1 - 1) * Hop = 0
      BY HopCounted
    <2> HIDE DEF first
    <2> QED
      BY <1>1, <1>4, <1>5, <2>1, HopCounted DEF Placed
  <1>7. ASSUME KnitTwice PROVE Placed(fc, 2, second)
    <2>1. (2 - 1) * Hop = Hop
      BY HopCounted
    <2>2. num_overlap > Hop
      BY <1>7 DEF KnitTwice
    <2> HIDE DEF second
    <2> QED
      BY <1>1, <1>4, <1>5, <2>1, <2>2, HopCounted DEF Placed
  <1>8. KnitFeatures(fc) = IF KnitTwice THEN <<first, second>> ELSE <<first>>
    BY DEF KnitFeatures, buffer
  <1>9. KnitBorder(fc) = Stream(fc, (IF KnitTwice THEN 2 * Hop ELSE Hop) - 1)
    BY <1>2, <1>3 DEF KnitBorder, buffer
  <1> HIDE DEF first, second
  <1>10. CASE KnitTwice
    <2>1. KnitFeatures(fc) = <<first, second>> /\ Len(KnitFeatures(fc)) = 2
      BY <1>8, <1>10
    <2>2. \A j \in 1..2 : j = 1 \/ j = 2
      OBVIOUS
    <2> QED
      BY <1>6, <1>7, <1>9, <1>10, <2>1, <2>2
  <1>11. CASE ~KnitTwice
    <2>1. KnitFeatures(fc) = <<first>> /\ Len(KnitFeatures(fc)) = 1
      BY <1>8, <1>11
    <2>2. \A j \in 1..1 : j = 1
      OBVIOUS
    <2>3. 1 * Hop = Hop
      BY HopCounted
    <2> QED
      BY <1>6, <1>9, <1>11, <2>1, <2>2, <2>3
  <1> QED
    BY <1>10, <1>11

\* Where the windows are that are taken from the buffer itself, after m knitted
\* ones of which the last begins m - 1 half windows into the stretch.
LEMMA DirectPlaced ==
  ASSUME TypeOK, session, ~WMSessionIsCompleted, CarryBounded, NEW fc \in Nat, fc >= Window,
         NEW m \in Nat, NEW n \in Nat, NEW room \in Nat,
         m = Len(KnitFeatures(fc)),
         DirectOffset = m * Hop - num_overlap,
         Turns(fc, DirectOffset, room, n)
  PROVE  /\ \A j \in 1..n : Placed(fc, m + j, DirectFeatures(fc, DirectOffset, n)[j])
         /\ \A i \in Nat : Sample(fc, DirectOffset + n * Hop + i) = Stream(fc, (m + n) * Hop + i)
         /\ n > 0 => Sample(fc, (DirectOffset + n * Hop) - 1) = Stream(fc, (m + n) * Hop - 1)
  <1> DEFINE offset == DirectOffset
             data == [i \in 0..fc-1 |-> Sample(fc, i)]
             left(j) == IF j = 1 THEN KnitBorder(fc) ELSE data[offset + (j - 1) * Hop - 1]
             f(j) == Feature(data, offset + (j - 1) * Hop, left(j))
  <1>1. offset \in Nat /\ offset = m * Hop - num_overlap /\ num_overlap \in Nat /\ m * Hop \in Nat
    BY OffsetSmall, Multiples DEF TypeOK, num_overlap
  <1>2. \A j \in Nat : j * Hop \in Nat /\ (m + j) * Hop = m * Hop + j * Hop
    BY HopCounted
  <1>3. DirectFeatures(fc, offset, n) = [j \in 1..n |-> f(j)]
    BY DEF DirectFeatures
  <1>4. \A j \in 0..n-1 : offset + j * Hop + Window <= fc
    BY DEF Turns
  <1> HIDE DEF offset
  <1>s. offset \in Nat /\ num_overlap \in Nat
    BY <1>1
  \* A sample of the buffer, told from where the stretch begins.
  <1>5. ASSUME NEW i \in Nat PROVE Stream(fc, num_overlap + i) = Sample(fc, i)
    <2>1. ~(num_overlap + i < num_overlap) /\ num_overlap + i - num_overlap = i
      BY <1>1
    <2> DEFINE at == num_overlap + i
    <2> HIDE DEF at
    <2>2. ~(at < num_overlap) /\ at - num_overlap = i
      BY <1>s, <2>1 DEF at
    <2>3. Stream(fc, at) = Sample(fc, i)
      BY <2>2 DEF Stream
    <2> QED
      BY <2>3 DEF at
  <1>6. ASSUME NEW j \in 1..n PROVE Placed(fc, m + j, f(j))
    <2>1. j - 1 \in 0..n-1 /\ j - 1 \in Nat /\ (m + j) - 1 = m + (j - 1)
      OBVIOUS
    <2>2. (j - 1) * Hop \in Nat /\ ((m + j) - 1) * Hop = m * Hop + (j - 1) * Hop
      BY <1>2, <2>1
    <2> DEFINE p == (j - 1) * Hop
    <2>3. offset + p + Window <= fc /\ offset + p \in Nat /\ ((m + j) - 1) * Hop = num_overlap + (offset + p)
      BY <1>1, <1>4, <2>1, <2>2
    <2>4. ASSUME NEW k \in 0..Window-1 PROVE f(j).samples[k] = Stream(fc, ((m + j) - 1) * Hop + k)
      <3>1. f(j).samples[k] = data[offset + p + k]
        BY DEF Feature
      <3>2. offset + p + k \in 0..fc-1
        BY <2>3, HopCounted
      <3>3. data[offset + p + k] = Sample(fc, offset + p + k)
        BY <3>2
      <3> HIDE DEF p, data
      <3>4. offset + p + k \in Nat /\ num_overlap + (offset + p + k) = ((m + j) - 1) * Hop + k
        <4> DEFINE h == ((m + j) - 1) * Hop
        <4>1. h = num_overlap + (offset + p) /\ offset + p \in Nat
          BY <2>3
        <4>2. p \in Nat
          BY <2>2 DEF p
        <4> HIDE DEF h
        <4>3. num_overlap + (offset + p + k) = h + k
          BY <1>1, <4>1, <4>2
        <4> QED
          BY <3>2, <4>3 DEF h
      <3>5. Stream(fc, num_overlap + (offset + p + k)) = Sample(fc, offset + p + k)
        BY <1>1, <1>5, <3>4
      <3> QED
        BY <3>1, <3>3, <3>4, <3>5
    <2>5. f(j).left = IF m + j = 1 THEN border ELSE Stream(fc, ((m + j) - 1) * Hop - 1)
      <3>1. f(j).left = left(j)
        BY DEF Feature
      <3> HIDE DEF f
      <3>2. CASE j = 1 /\ num_overlap = 0
        <4>1. m = 0 /\ KnitBorder(fc) = border
          BY <3>2, KnitTyped DEF KnitBorder
        <4> QED
          BY <3>1, <3>2, <4>1
      <3>3. CASE j = 1 /\ num_overlap # 0
        <4>1. KnitBorder(fc) = Stream(fc, m * Hop - 1)
          BY <3>3, KnitPlaced
        <4>2. m > 0
          <5>1. m = IF KnitTwice THEN 2 ELSE 1
            BY <3>3, KnitTyped
          <5> QED
            BY <5>1
        <4>3. (m + j) - 1 = m /\ m + j # 1
          BY <3>3, <4>2
        <4> QED
          BY <3>1, <3>3, <4>1, <4>3
      <3>4. CASE j # 1
        <4>1. p >= Hop
          <5>1. j - 2 \in Nat /\ (j - 2) + 1 = j - 1
            BY <3>4
          <5>2. (j - 2) * Hop \in Nat /\ ((j - 2) + 1) * Hop = (j - 2) * Hop + Hop
            BY <5>1, Multiples
          <5> QED
            BY <5>1, <5>2, HopCounted
        <4>2. p \in Nat
          BY <2>2
        <4>3. left(j) = data[offset + p - 1]
          BY <3>4
        <4> HIDE DEF p
        <4>4. offset + p - 1 \in 0..fc-1
          BY <1>1, <2>3, <4>1, <4>2, HopCounted
        <4>5. data[offset + p - 1] = Sample(fc, offset + p - 1)
          BY <4>4
        <4> HIDE DEF data, left
        <4>6. offset + p - 1 \in Nat /\ num_overlap + (offset + p - 1) = ((m + j) - 1) * Hop - 1
          <5> DEFINE h == ((m + j) - 1) * Hop
          <5>1. h = num_overlap + (offset + p)
            BY <2>3 DEF p
          <5> HIDE DEF h
          <5>2. num_overlap + (offset + p - 1) = h - 1
            BY <1>1, <4>2, <5>1
          <5> QED
            BY <4>4, <5>2 DEF h
        <4>7. Stream(fc, num_overlap + (offset + p - 1)) = Sample(fc, offset + p - 1)
          BY <1>1, <1>5, <4>6
        <4>8. m + j # 1
          BY <3>4
        <4> QED
          BY <3>1, <4>3, <4>5, <4>6, <4>7, <4>8
      <3> QED
        BY <3>2, <3>3, <3>4
    <2>6. ((m + j) - 1) * Hop + Window <= num_overlap + fc
      BY <1>1, <2>3, HopCounted
    <2> HIDE DEF f
    <2> QED
      BY <2>4, <2>5, <2>6 DEF Placed
  <1>7. n * Hop \in Nat /\ (m + n) * Hop = num_overlap + (offset + n * Hop)
    <2> DEFINE g == m * Hop  q == n * Hop  h == (m + n) * Hop
    <2>1. q \in Nat /\ h = g + q /\ g \in Nat /\ offset = g - num_overlap
      BY <1>1, <1>2
    <2> HIDE DEF g, q, h
    <2>2. h = num_overlap + (offset + q)
      BY <1>s, <2>1
    <2> QED
      BY <2>1, <2>2 DEF q, h
  <1>8. ASSUME NEW i \in Nat PROVE Sample(fc, offset + n * Hop + i) = Stream(fc, (m + n) * Hop + i)
    <2>1. offset + n * Hop + i \in Nat /\ num_overlap + (offset + n * Hop + i) = (m + n) * Hop + i
      <3> DEFINE q == n * Hop  h == (m + n) * Hop
      <3>1. q \in Nat /\ h = num_overlap + (offset + q)
        BY <1>7
      <3> HIDE DEF q, h
      <3>2. offset + q + i \in Nat /\ num_overlap + (offset + q + i) = h + i
        BY <1>s, <3>1
      <3> QED
        BY <3>2 DEF q, h
    <2> QED
      BY <1>1, <1>5, <2>1
  <1>9. ASSUME n > 0 PROVE Sample(fc, (offset + n * Hop) - 1) = Stream(fc, (m + n) * Hop - 1)
    <2>1. n * Hop >= Hop
      <3>1. n - 1 \in Nat /\ (n - 1) + 1 = n
        BY <1>9
      <3>2. (n - 1) * Hop \in Nat /\ ((n - 1) + 1) * Hop = (n - 1) * Hop + Hop
        BY <3>1, Multiples
      <3> QED
        BY <3>1, <3>2, HopCounted
    <2>2. (offset + n * Hop) - 1 \in Nat /\ num_overlap + ((offset + n * Hop) - 1) = (m + n) * Hop - 1
      BY <1>1, <1>7, <2>1, HopCounted
    <2> QED
      BY <1>1, <1>5, <2>2
  <1> HIDE DEF f
  <1> QED
    BY <1>3, <1>6, <1>8, <1>9 DEF offset

\* Features taken one after another from the stretch continue those stored.
LEMMA Linked ==
  ASSUME TypeOK, session, ~WMSessionIsCompleted, StreamInv, NEW fc \in Nat,
         NEW more \in Nat \ {0}, features' \in Seq(Features), Len(features') = Len(features) + more,
         \A i \in 1..Len(features) : features'[i] = features[i],
         \A j \in 1..more : Placed(fc, j, features'[Len(features) + j])
  PROVE  Chained' /\ WindowsInOrder'
  <1> DEFINE stored == Len(features)
  <1>1. stored \in Nat /\ features \in Seq(Features) /\ num_overlap \in Nat
    BY DEF TypeOK, num_overlap
  <1>2. /\ \A i \in 0..num_overlap+fc-1 : Stream(fc, i) \in Nat
        /\ \A i \in 1..num_overlap+fc-1 : Stream(fc, i - 1) < Stream(fc, i)
    BY StreamOrdered DEF StreamInv
  <1>3. ASSUME NEW i \in 1..Len(features')-1
        PROVE  /\ features'[i+1].samples[0] = features'[i].samples[Hop]
               /\ features'[i+1].left = features'[i].samples[Hop - 1]
    <2>1. CASE i < stored
      <3>1. i \in 1..stored-1 /\ i \in 1..stored /\ i + 1 \in 1..stored
        BY <1>1, <2>1
      <3> QED
        BY <3>1 DEF StreamInv, Chained
    <2>2. CASE i = stored
      <3>1. stored \in 1..stored /\ features # <<>> /\ 1 \in 1..more
        BY <1>1, <2>2
      <3>2. num_overlap # 0 /\ overlap[1] = features[stored].samples[Hop] /\ border = features[stored].samples[Hop-1]
        BY <3>1 DEF StreamInv, Following
      <3>3. Placed(fc, 1, features'[stored + 1]) /\ features'[stored] = features[stored]
        BY <3>1
      <3>4. 0 \in 0..Window-1 /\ (1 - 1) * Hop + 0 = 0
        BY HopCounted
      <3>5. Stream(fc, 0) = overlap[1]
        BY <1>1, <3>2 DEF Stream
      <3> QED
        BY <2>2, <3>2, <3>3, <3>4, <3>5 DEF Placed
    <2>3. CASE i > stored
      <3> DEFINE j == i - stored
      <3>1. j \in 1..more /\ j + 1 \in 1..more /\ stored + j = i /\ stored + (j + 1) = i + 1 /\ j \in Nat /\ j - 1 \in Nat
        BY <1>1, <2>3
      <3>2. Placed(fc, j, features'[i]) /\ Placed(fc, j + 1, features'[i+1])
        BY <3>1
      <3>3. (j - 1) * Hop \in Nat /\ j * Hop = (j - 1) * Hop + Hop /\ (j + 1) - 1 = j /\ j + 1 # 1
        <4>1. ((j - 1) + 1) * Hop = (j - 1) * Hop + Hop /\ (j - 1) * Hop \in Nat
          BY <3>1, Multiples
        <4> QED
          BY <3>1, <4>1
      <3> HIDE DEF j
      <3>4. Hop \in 0..Window-1 /\ Hop - 1 \in 0..Window-1 /\ 0 \in 0..Window-1
        BY HopCounted
      <3>5. features'[i].samples[Hop] = Stream(fc, (j - 1) * Hop + Hop)
        BY <3>2, <3>4 DEF Placed
      <3>6. features'[i].samples[Hop-1] = Stream(fc, (j - 1) * Hop + (Hop - 1))
        BY <3>2, <3>4 DEF Placed
      <3>7. features'[i+1].samples[0] = Stream(fc, j * Hop + 0)
        BY <3>2, <3>3, <3>4 DEF Placed
      <3>8. features'[i+1].left = Stream(fc, j * Hop - 1)
        BY <3>2, <3>3 DEF Placed
      <3>9. (j - 1) * Hop + Hop = j * Hop + 0 /\ (j - 1) * Hop + (Hop - 1) = j * Hop - 1
        BY <3>3, HopCounted
      <3> QED
        BY <3>5, <3>6, <3>7, <3>8, <3>9
    <2> QED
      BY <1>1, <2>1, <2>2, <2>3
  <1>4. ASSUME NEW i \in 1..Len(features')
        PROVE  /\ features'[i].samples[0] >= 0
               /\ \A k \in 1..Window-1 : features'[i].samples[k-1] < features'[i].samples[k]
               /\ i = 1 => features'[i].left = NoSample
    <2>1. CASE i \in 1..stored
      BY <2>1 DEF StreamInv, WindowsInOrder
    <2>2. CASE i > stored
      <3> DEFINE j == i - stored
      <3>1. j \in 1..more /\ stored + j = i /\ j - 1 \in Nat
        BY <1>1, <2>2
      <3>2. Placed(fc, j, features'[i])
        BY <3>1
      <3> DEFINE p == (j - 1) * Hop
      <3>3. p \in Nat
        BY <3>1, Multiples
      <3>4. p + Window <= num_overlap + fc /\ \A k \in 0..Window-1 : features'[i].samples[k] = Stream(fc, p + k)
        BY <3>2 DEF Placed
      <3> HIDE DEF p
      <3>5. features'[i].samples[0] >= 0
        <4>1. 0 \in 0..Window-1 /\ p + 0 \in 0..num_overlap+fc-1
          BY <1>1, <3>3, <3>4, HopCounted
        <4> QED
          BY <1>2, <3>4, <4>1
      <3>6. ASSUME NEW k \in 1..Window-1 PROVE features'[i].samples[k-1] < features'[i].samples[k]
        <4>1. k \in 0..Window-1 /\ k - 1 \in 0..Window-1 /\ p + k \in 1..num_overlap+fc-1 /\ p + (k - 1) = (p + k) - 1
          BY <1>1, <3>3, <3>4, HopCounted
        <4> QED
          BY <1>2, <3>4, <4>1
      <3>7. ASSUME i = 1 PROVE features'[i].left = NoSample
        <4>1. j = 1 /\ features = <<>>
          BY <1>1, <2>2, <3>7
        <4>2. border = NoSample
          BY <4>1 DEF StreamInv, Following
        <4> QED
          BY <3>2, <4>1, <4>2 DEF Placed
      <3> QED
        BY <3>5, <3>6, <3>7
    <2> QED
      BY <1>1, <2>1, <2>2
  <1> QED
    BY <1>3, <1>4 DEF Chained, WindowsInOrder

\* Where the elements of three sequences are in the whole.
LEMMA AppendedWhere ==
  ASSUME NEW S, NEW a \in Seq(S), NEW b \in Seq(S), NEW c \in Seq(S)
  PROVE  /\ \A j \in 1..Len(b) : (a \o b \o c)[Len(a) + j] = b[j]
         /\ \A j \in 1..Len(c) : (a \o b \o c)[Len(a) + Len(b) + j] = c[j]
  <1>1. a \o b \in Seq(S) /\ Len(a \o b) = Len(a) + Len(b) /\ \A j \in 1..Len(b) : (a \o b)[Len(a) + j] = b[j]
    OBVIOUS
  <1>2. /\ \A i \in 1..Len(a \o b) : ((a \o b) \o c)[i] = (a \o b)[i]
        /\ \A j \in 1..Len(c) : ((a \o b) \o c)[Len(a \o b) + j] = c[j]
    BY <1>1
  <1>3. Len(a) \in Nat /\ Len(b) \in Nat
    OBVIOUS
  <1> QED
    BY <1>1, <1>2, <1>3

\* Unless the knitting completes the session, the loop goes on where it left off.
LEMMA OffsetFollows ==
  ASSUME TypeOK, session, ~WMSessionIsCompleted, CarryBounded, NEW fc \in Nat,
         num_overlap <= Hop \/ KnitTwice
  PROVE  DirectOffset = Len(KnitFeatures(fc)) * Hop - num_overlap
  <1>1. num_overlap = 0 \/ num_overlap \in Hop-1..2*Hop-2
    BY DEF CarryBounded
  <1>2. Len(KnitFeatures(fc)) = IF num_overlap = 0 THEN 0 ELSE IF KnitTwice THEN 2 ELSE 1
    BY KnitTyped
  <1>3. CASE num_overlap = 0
    BY <1>2, <1>3, Multiples DEF DirectOffset
  <1>4. CASE num_overlap # 0 /\ KnitTwice
    <2>1. 2 * Hop - num_overlap \in 0..SizeMod-1
      BY <1>1, <1>4, HopCounted DEF KnitTwice
    <2> QED
      BY <1>2, <1>4, <2>1, SizeTSmall DEF DirectOffset
  <1>5. CASE num_overlap # 0 /\ ~KnitTwice
    <2>1. Hop - num_overlap \in 0..SizeMod-1
      BY <1>1, <1>5, HopCounted
    <2>2. DirectOffset = Hop - num_overlap
      BY <1>5, <2>1, SizeTSmall DEF DirectOffset
    <2> QED
      BY <1>2, <1>5, <2>2, Multiples
  <1> QED
    BY <1>3, <1>4, <1>5

\* A size that wraps around is beyond every buffer.
LEMMA OffsetFar ==
  ASSUME TypeOK, session, ~WMSessionIsCompleted, CarryBounded, NEW fc \in FrameCounts,
         num_overlap > Hop, ~KnitTwice
  PROVE  DirectOffset >= fc - 1
  <1>1. num_overlap \in Hop-1..2*Hop-2
    BY HopCounted DEF CarryBounded
  <1>2. SizeMod > fc + Window /\ fc \in Nat
    BY SizeAssumption
  <1>3. DirectOffset = SizeT(Hop - num_overlap)
    BY HopCounted DEF DirectOffset
  <1>4. SizeMod + Hop - num_overlap \in 0..SizeMod-1
    BY <1>1, HopCounted
  <1>5. (Hop - num_overlap) % SizeMod = SizeMod + Hop - num_overlap
    <2> DEFINE d == Hop - num_overlap
    <2>1. d \in Int /\ d < 0 /\ d + SizeMod \in 0..SizeMod-1 /\ SizeMod \in Nat /\ SizeMod > 0
      BY <1>1, <1>4, HopCounted
    <2> HIDE DEF d
    <2>2. d % SizeMod = d + SizeMod
      BY <2>1
    <2>3. d + SizeMod = SizeMod + Hop - num_overlap
      BY <1>1, HopCounted DEF d
    <2> QED
      BY <2>2, <2>3 DEF d
  <1> QED
    BY <1>1, <1>2, <1>3, <1>5, HopCounted DEF SizeT

\* A feed continues the features, and carries what continues them.
LEMMA FeedStreams ==
  ASSUME IInv, StreamInv, NEW fc \in FrameCounts, NEW format, Feed(fc, format)
  PROVE  StreamInv'
  <1> DEFINE knit   == KnitFeatures(fc)
             room   == Room(fc)
             m      == Len(knit)
             stored == Len(features)
  <1>1. /\ session /\ ~WMSessionIsCompleted /\ fc >= Window /\ TypeOK /\ CarryBounded
        /\ num_read' = num_read + fc /\ session' = session
    BY DEF Feed, Usable, IInv
  <1>2. fc \in Nat /\ num_read \in Nat /\ num_overlap \in Nat /\ stored \in Nat
    BY <1>1, InputsCounted DEF TypeOK, num_overlap
  <1>3. PICK n \in 0..fc : Turns(fc, DirectOffset, room, n) /\ Consume(fc, n)
    BY DEF Feed
  <1> DEFINE direct == DirectFeatures(fc, DirectOffset, n)
             rest   == DirectOffset + n * Hop
             more   == m + n
  <1>4. /\ rest < fc - 1
        /\ features' = features \o knit \o direct
        /\ border' = IF n = 0 THEN KnitBorder(fc) ELSE Sample(fc, rest - 1)
        /\ overlap' = [i \in 1..(fc - 1 - rest) |-> Sample(fc, rest + i - 1)]
    BY <1>3 DEF Consume
  <1>5. /\ knit \in Seq(Features) /\ KnitBorder(fc) \in Samples
        /\ m = IF num_overlap = 0 THEN 0 ELSE IF KnitTwice THEN 2 ELSE 1
        /\ stored + m <= expected
    BY <1>1, <1>2, KnitTyped
  <1>6. m \in Nat /\ room \in Nat /\ room = expected - stored - m /\ stored < expected
    <2>1. expected \in Nat /\ stored <= expected /\ stored # expected
      BY <1>1 DEF TypeOK, WMSessionIsCompleted
    <2>2. m \in Nat
      BY <1>5
    <2> QED
      BY <1>2, <1>5, <2>1, <2>2 DEF Room
  <1>7. DirectOffset \in Nat /\ n * Hop \in Nat /\ n \in Nat
    BY <1>1, <1>3, OffsetSmall, Multiples
  <1>8. num_overlap <= Hop \/ KnitTwice
    <2> SUFFICES ASSUME num_overlap > Hop, ~KnitTwice PROVE FALSE
      BY <1>2, HopCounted
    <2>1. DirectOffset >= fc - 1
      BY <1>1, OffsetFar
    <2> QED
      BY <1>2, <1>4, <1>7, <2>1
  <1>9. DirectOffset = m * Hop - num_overlap
    BY <1>1, <1>2, <1>8, OffsetFollows
  <1>10. /\ direct \in Seq(Features) /\ Len(direct) = n
    BY <1>1, <1>2, <1>3, <1>5, <1>6, <1>7, TurnsTyped
  <1>11. /\ \A j \in 1..n : Placed(fc, m + j, direct[j])
         /\ \A i \in Nat : Sample(fc, rest + i) = Stream(fc, more * Hop + i)
         /\ n > 0 => Sample(fc, rest - 1) = Stream(fc, more * Hop - 1)
    <2>1. m = Len(KnitFeatures(fc)) /\ Turns(fc, DirectOffset, room, n)
      BY <1>3
    <2> HIDE DEF knit, m, room
    <2>2. /\ \A j \in 1..n : Placed(fc, m + j, DirectFeatures(fc, DirectOffset, n)[j])
          /\ \A i \in Nat : Sample(fc, DirectOffset + n * Hop + i) = Stream(fc, (m + n) * Hop + i)
          /\ n > 0 => Sample(fc, (DirectOffset + n * Hop) - 1) = Stream(fc, (m + n) * Hop - 1)
      <3>1. /\ TypeOK /\ session /\ ~WMSessionIsCompleted /\ CarryBounded /\ fc >= Window
            /\ fc \in Nat /\ m \in Nat /\ n \in Nat /\ room \in Nat
            /\ DirectOffset = m * Hop - num_overlap
        BY <1>1, <1>2, <1>6, <1>7, <1>9
      <3> QED
        BY <2>1, <3>1, DirectPlaced, ZenonT(60)
    <2> QED
      BY <2>2
  <1>12. \A j \in 1..m : Placed(fc, j, knit[j])
    <2>1. CASE num_overlap = 0
      BY <1>5, <2>1
    <2>2. CASE num_overlap # 0
      BY <1>1, <1>2, <2>2, KnitPlaced
    <2> QED
      BY <2>1, <2>2
  <1>13. /\ \A i \in 1..stored : features'[i] = features[i]
         /\ features' \in Seq(Features) /\ Len(features') = stored + m + n
         /\ \A j \in 1..m : features'[stored + j] = knit[j]
         /\ \A j \in 1..n : features'[stored + m + j] = direct[j]
    <2> DEFINE F == Features
    <2>1. features \in Seq(F) /\ knit \in Seq(F) /\ direct \in Seq(F)
      BY <1>1, <1>5, <1>10 DEF TypeOK
    <2> HIDE DEF F, knit, direct
    <2>2. /\ features \o knit \o direct \in Seq(F)
          /\ Len(features \o knit \o direct) = Len(features) + Len(knit) + Len(direct)
          /\ \A i \in 1..Len(features) : (features \o knit \o direct)[i] = features[i]
      BY <2>1, AppendedTwice
    <2>3. /\ \A j \in 1..Len(knit) : (features \o knit \o direct)[Len(features) + j] = knit[j]
          /\ \A j \in 1..Len(direct) : (features \o knit \o direct)[Len(features) + Len(knit) + j] = direct[j]
      BY <2>1, AppendedWhere
    <2>4. features' = features \o knit \o direct /\ Len(direct) = n
      BY <1>4, <1>10
    <2> QED
      BY <2>2, <2>3, <2>4 DEF F
  <1>14. more \in Nat \ {0}
    <2>1. CASE num_overlap = 0
      <3>1. m = 0 /\ DirectOffset = 0
        BY <1>5, <2>1 DEF DirectOffset
      <3>2. n = room \/ DirectOffset + n * Hop + Window > fc
        BY <1>3 DEF Turns
      <3>3. n # 0
        <4> SUFFICES ASSUME n = 0 PROVE FALSE
          OBVIOUS
        <4>1. n * Hop = 0
          BY Multiples
        <4>2. room > 0
          <5>1. expected \in Nat
            BY <1>1 DEF TypeOK
          <5> HIDE DEF knit, m, stored, room
          <5> QED
            BY <1>2, <1>6, <3>1, <5>1
        <4> QED
          BY <1>1, <1>2, <3>1, <3>2, <4>1, <4>2, HopCounted
      <3> QED
        BY <1>7, <3>1, <3>3
    <2>2. CASE num_overlap # 0
      BY <1>5, <1>7, <2>2
    <2> QED
      BY <2>1, <2>2
  <1> HIDE DEF knit, direct
  <1>15. \A j \in 1..more : Placed(fc, j, features'[stored + j])
    <2> SUFFICES ASSUME NEW j \in 1..more PROVE Placed(fc, j, features'[stored + j])
      OBVIOUS
    <2>1. CASE j <= m
      <3>1. j \in 1..m
        BY <1>6, <2>1
      <3> QED
        BY <1>12, <1>13, <3>1
    <2>2. CASE j > m
      <3>1. j - m \in 1..n /\ m + (j - m) = j /\ stored + m + (j - m) = stored + j
        BY <1>2, <1>6, <1>7, <2>2
      <3>2. Placed(fc, m + (j - m), direct[j - m]) /\ features'[stored + m + (j - m)] = direct[j - m]
        BY <1>11, <1>13, <3>1
      <3> QED
        BY <3>1, <3>2
    <2> QED
      BY <1>6, <2>1, <2>2
  <1>16. Len(features') = stored + more
    BY <1>2, <1>6, <1>7, <1>13
  <1>17. Chained' /\ WindowsInOrder'
    <2> HIDE DEF more
    <2> QED
      BY <1>1, <1>2, <1>13, <1>14, <1>15, <1>16, Linked
  <1>18. num_overlap' = fc - 1 - rest /\ fc - 1 - rest \in Nat \ {0} /\ rest \in Nat
    <2>1. rest \in Nat /\ fc - 1 - rest \in Nat \ {0}
      BY <1>2, <1>4, <1>7
    <2> HIDE DEF rest
    <2> QED
      BY <1>4, <2>1 DEF num_overlap
  \* What is carried is in the order it was read.
  <1>19. Streamed'
    <2>1. ASSUME NEW i \in 1..num_overlap' PROVE overlap'[i] = num_read + (rest + i - 1) /\ rest + i - 1 \in 0..fc-1
      <3> HIDE DEF rest
      <3>1. rest + i - 1 \in 0..fc-1 /\ i \in 1..(fc - 1 - rest)
        BY <1>2, <1>18
      <3> QED
        BY <1>4, <3>1 DEF Sample
    <2> HIDE DEF rest
    <2>2. ASSUME NEW i \in 1..num_overlap' PROVE overlap'[i] \in Nat /\ overlap'[i] < num_read'
      BY <1>1, <1>2, <1>18, <2>1
    <2>3. ASSUME NEW i \in 1..num_overlap'-1 PROVE overlap'[i] < overlap'[i+1]
      <3>1. i \in 1..num_overlap' /\ i + 1 \in 1..num_overlap'
        BY <1>2, <1>18
      <3>2. overlap'[i] = num_read + (rest + i - 1) /\ overlap'[i+1] = num_read + (rest + (i + 1) - 1)
        BY <2>1, <3>1
      <3> QED
        BY <1>2, <1>18, <3>2
    <2> QED
      BY <2>2, <2>3 DEF Streamed
  \* And it goes on from the last feature.
  <1>20. Following'
    <2> DEFINE last == features'[Len(features')]
    <2>1. Placed(fc, more, last) /\ more \in Nat /\ more - 1 \in Nat
      <3>1. more \in 1..more /\ more \in Nat /\ more - 1 \in Nat
        BY <1>14
      <3> HIDE DEF more
      <3> QED
        BY <1>15, <1>16, <3>1
    <2>2. (more - 1) * Hop \in Nat /\ more * Hop = (more - 1) * Hop + Hop
      <3>1. ((more - 1) + 1) * Hop = (more - 1) * Hop + Hop /\ (more - 1) * Hop \in Nat
        BY <2>1, Multiples
      <3> HIDE DEF more
      <3> QED
        BY <2>1, <3>1
    <2>3. Hop \in 0..Window-1 /\ Hop - 1 \in 0..Window-1
      BY HopCounted
    <2>4. last.samples[Hop] = Stream(fc, more * Hop + 0) /\ last.samples[Hop-1] = Stream(fc, more * Hop - 1)
      <3> DEFINE p == (more - 1) * Hop
                 q == more * Hop
      <3>1. last.samples[Hop] = Stream(fc, p + Hop) /\ last.samples[Hop-1] = Stream(fc, p + (Hop - 1))
        BY <2>1, <2>3 DEF Placed
      <3>2. q = p + Hop /\ p \in Nat
        BY <2>2
      <3> HIDE DEF p, q
      <3>3. p + Hop = q + 0 /\ p + (Hop - 1) = q - 1
        BY <3>2, HopCounted
      <3>4. last.samples[Hop] = Stream(fc, q + 0) /\ last.samples[Hop-1] = Stream(fc, q - 1)
        BY <3>1, <3>3
      <3> QED
        BY <3>4 DEF q
    <2>5. overlap'[1] = Sample(fc, rest + 0)
      <3> HIDE DEF rest
      <3>1. 1 \in 1..(fc - 1 - rest) /\ rest + 1 - 1 = rest + 0
        BY <1>2, <1>18
      <3> QED
        BY <1>4, <3>1
    <2>6. overlap'[1] = last.samples[Hop]
      BY <1>11, <2>4, <2>5
    <2>7. border' = Stream(fc, more * Hop - 1)
      <3>1. CASE n = 0
        <4>1. num_overlap # 0 /\ more = m
          BY <1>5, <1>6, <1>14, <3>1
        <4>2. KnitBorder(fc) = Stream(fc, m * Hop - 1)
          BY <1>1, <1>2, <4>1, KnitPlaced DEF knit
        <4> QED
          BY <1>4, <3>1, <4>1, <4>2
      <3>2. CASE n # 0
        <4>1. n > 0
          BY <1>7, <3>2
        <4> QED
          BY <1>4, <1>11, <3>2, <4>1
      <3> QED
        BY <3>1, <3>2
    <2>8. features' # <<>> /\ num_overlap' # 0
      <3> HIDE DEF more, rest
      <3>1. Len(features') # 0
        BY <1>2, <1>14, <1>16
      <3> QED
        BY <1>18, <3>1
    <2>9. session'
      BY <1>1
    <2> QED
      BY <2>4, <2>6, <2>7, <2>8, <2>9 DEF Following
  <1> QED
    BY <1>17, <1>19, <1>20 DEF StreamInv

\* The feed that completes the session on the first of two windows continues the
\* features too.
LEMMA FeedImpossibleStreams ==
  ASSUME IInv, StreamInv, NEW fc \in FrameCounts, NEW format, FeedImpossible(fc, format)
  PROVE  StreamInv'
  <1> DEFINE knit == KnitFeatures(fc)
  <1>1. /\ session /\ ~WMSessionIsCompleted /\ fc >= Window /\ TypeOK /\ CarryBounded
        /\ DirectOffset >= fc - 1 /\ features' = features \o KnitFeatures(fc)
        /\ UNCHANGED <<session, expected, num_read, overlap>>
    BY DEF FeedImpossible, Usable, IInv
  <1>2. fc \in Nat /\ num_overlap \in Nat
    BY <1>1, InputsCounted DEF TypeOK, num_overlap
  <1>3. num_overlap > Hop /\ ~KnitTwice /\ num_overlap # 0
    BY <1>1, <1>2, OffsetSmall, HopCounted
  <1>4. knit \in Seq(Features) /\ Len(knit) = 1 /\ Len(features) + 1 <= expected
    BY <1>1, <1>2, <1>3, KnitTyped
  <1>5. \A j \in 1..Len(knit) : Placed(fc, j, knit[j])
    BY <1>1, <1>2, <1>3, KnitPlaced
  <1>6. features \in Seq(Features) /\ Len(features) \in Nat /\ expected \in Nat
    BY <1>1 DEF TypeOK
  <1> HIDE DEF knit
  <1>7. /\ features' \in Seq(Features) /\ Len(features') = Len(features) + 1
        /\ \A i \in 1..Len(features) : features'[i] = features[i]
        /\ features'[Len(features) + 1] = knit[1]
    <2>1. features' = features \o knit
      BY <1>1 DEF knit
    <2> DEFINE F == Features
    <2>2. features \in Seq(F) /\ knit \in Seq(F)
      BY <1>4, <1>6
    <2> HIDE DEF F
    <2>3. features' \in Seq(F)
      BY <2>1, <2>2
    <2>4. /\ Len(features') = Len(features) + 1
          /\ \A i \in 1..Len(features) : features'[i] = features[i]
          /\ features'[Len(features) + 1] = knit[1]
      <3>1. /\ Len(features \o knit) = Len(features) + Len(knit)
            /\ \A i \in 1..Len(features) : (features \o knit)[i] = features[i]
            /\ \A j \in 1..Len(knit) : (features \o knit)[Len(features) + j] = knit[j]
        BY <2>2
      <3>2. 1 \in 1..Len(knit)
        BY <1>4
      <3> QED
        BY <1>4, <2>1, <3>1, <3>2
    <2> QED
      BY <2>3, <2>4 DEF F
  <1>8. \A j \in 1..1 : Placed(fc, j, features'[Len(features) + j])
    <2>1. Placed(fc, 1, knit[1])
      BY <1>4, <1>5
    <2>2. \A j \in 1..1 : j = 1
      OBVIOUS
    <2> QED
      BY <1>7, <2>1, <2>2
  <1>9. Chained' /\ WindowsInOrder'
    <2>1. 1 \in Nat \ {0}
      OBVIOUS
    <2> QED
      BY <1>1, <1>2, <1>7, <1>8, <2>1, Linked
  <1>10. WMSessionIsCompleted' /\ session'
    <2>1. Len(features) + 1 >= expected
      BY <1>2, <1>3, <1>6, HopCounted DEF KnitTwice
    <2>2. Len(features') = expected
      BY <1>4, <1>6, <1>7, <2>1
    <2> QED
      BY <1>1, <2>2 DEF WMSessionIsCompleted
  <1>11. Streamed'
    BY <1>1 DEF StreamInv, Streamed, num_overlap
  <1>12. Following'
    BY <1>10 DEF Following
  <1> QED
    BY <1>9, <1>11, <1>12 DEF StreamInv

\* Where nothing is stored and nothing carried, there is nothing to be out of order.
LEMMA NothingStreams ==
  ASSUME features = <<>>, overlap = <<>>, border = NoSample
  PROVE  StreamInv
  <1>1. Len(features) = 0 /\ num_overlap = 0
    BY DEF num_overlap
  <1>2. Chained /\ WindowsInOrder
    BY <1>1 DEF Chained, WindowsInOrder
  <1>3. Streamed
    BY <1>1 DEF Streamed
  <1>4. Following
    BY DEF Following
  <1> QED
    BY <1>2, <1>3, <1>4 DEF StreamInv

LEMMA StreamNext == IInv /\ StreamInv /\ [Next]_vars => StreamInv'
  <1> SUFFICES ASSUME IInv, StreamInv, [Next]_vars PROVE StreamInv'
    OBVIOUS
  <1>1. ASSUME features' = <<>>, overlap' = <<>>, border' = NoSample PROVE StreamInv'
    <2>1. Len(features') = 0 /\ num_overlap' = 0
      BY <1>1 DEF num_overlap
    <2>2. Chained' /\ WindowsInOrder'
      BY <2>1 DEF Chained, WindowsInOrder
    <2>3. Streamed'
      BY <2>1 DEF Streamed
    <2>4. Following'
      BY <1>1 DEF Following
    <2> QED
      BY <2>2, <2>3, <2>4 DEF StreamInv
  <1>2. ASSUME UNCHANGED <<session, expected, features, num_read, overlap, border>> PROVE StreamInv'
    BY <1>2 DEF StreamInv, Streamed, Following, Chained, WindowsInOrder, WMSessionIsCompleted, num_overlap
  <1>3. CASE UNCHANGED vars
    BY <1>2, <1>3 DEF vars
  <1>4. ASSUME NEW total \in Totals, Create(total) PROVE StreamInv'
    <2>1. features' = <<>> /\ overlap' = <<>> /\ border' = NoSample
      BY <1>4 DEF Create, IInv, Gone, StreamInv, Following
    <2> QED
      BY <1>1, <2>1
  <1>5. CASE Destroy \/ Reset
    BY <1>1, <1>5 DEF Destroy, NoSession, Reset
  <1>6. CASE CreateFails \/ NullSession \/ FeedSkipped \/ FeedRefused
    BY <1>2, <1>6 DEF CreateFails, NullSession, FeedSkipped, FeedRefused, Returns
  <1>7. ASSUME NEW fc \in FrameCounts, NEW format \in {"mono", "stereo", "other"} PROVE
          /\ FeedUnusable(fc, format) => StreamInv'
          /\ Feed(fc, format) => StreamInv'
          /\ FeedImpossible(fc, format) => StreamInv'
          /\ FeedCrashes(fc, format) => StreamInv'
    <2>1. CASE FeedUnusable(fc, format)
      <3>1. /\ num_read' = num_read + fc /\ fc \in Nat /\ num_read \in Nat /\ num_overlap \in Nat
            /\ UNCHANGED <<session, expected, features, overlap, border>>
        BY <2>1, InputsCounted DEF FeedUnusable, IInv, TypeOK, num_overlap
      <3>2. Streamed'
        <4>1. num_overlap' = num_overlap
          BY <3>1 DEF num_overlap
        <4>2. ASSUME NEW i \in 1..num_overlap PROVE overlap'[i] \in Nat /\ overlap'[i] < num_read'
          <5>1. overlap[i] \in Nat /\ overlap[i] < num_read /\ overlap'[i] = overlap[i]
            BY <3>1 DEF StreamInv, Streamed
          <5> QED
            BY <3>1, <5>1
        <4>3. ASSUME NEW i \in 1..num_overlap-1 PROVE overlap'[i] < overlap'[i+1]
          BY <3>1 DEF StreamInv, Streamed
        <4> QED
          BY <4>1, <4>2, <4>3 DEF Streamed
      <3>3. Following' /\ Chained' /\ WindowsInOrder'
        BY <3>1 DEF StreamInv, Following, Chained, WindowsInOrder, WMSessionIsCompleted, num_overlap
      <3> QED
        BY <3>2, <3>3 DEF StreamInv
    <2>2. CASE Feed(fc, format)
      BY <2>2, FeedStreams
    <2>3. CASE FeedImpossible(fc, format)
      BY <2>3, FeedImpossibleStreams
    <2>4. CASE FeedCrashes(fc, format)
      BY <1>1, <2>4 DEF FeedCrashes, NoSession
    <2> QED
      BY <2>1, <2>2, <2>3, <2>4
  <1> QED
    BY <1>3, <1>4, <1>5, <1>6, <1>7 DEF Next

LEMMA Streaming == Spec => []StreamInv
  <1>1. Init => StreamInv
    BY NothingStreams DEF Init
  <1> QED
    BY <1>1, StreamNext, Invariance, PTL DEF Spec

\* For every window and every way to cut a stream into buffers, the features
\* stored follow one another at half a window, each with the sample left of it.
THEOREM FeaturesAreChained == Spec => []Chained
  <1>1. StreamInv => Chained
    BY DEF StreamInv
  <1> QED
    BY <1>1, Streaming, PTL

\* For every window and every way to cut a stream into buffers, no feature is
\* made of memory nobody wrote, of a sample twice or of one before the reset.
THEOREM WindowsAreInOrder == Spec => []WindowsInOrder
  <1>1. StreamInv => WindowsInOrder
    BY DEF StreamInv
  <1> QED
    BY <1>1, Streaming, PTL
=============================================================================
