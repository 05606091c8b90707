-------------------------- MODULE WordMatchSession --------------------------
(***************************************************************************)
(* A WMSession: a caller feeds it the sample buffers of a capture, in      *)
(* sizes of the caller's choosing, and it extracts one feature for every   *)
(* window of Window samples, half a window apart, until it has as many as  *)
(* the session's duration holds.  What a buffer leaves over is carried in  *)
(* overlap_buffer to the next one.                                         *)
(*                                                                         *)
(* A sample is named by its position in the stream of the samples counted  *)
(* in num_read_samples; a feature is the window it was computed from, with *)
(* the sample the pre-emphasis filter took for its left neighbour.         *)
(***************************************************************************)
EXTENDS Integers, Sequences

CONSTANTS
  Window,       \* window_size
  Totals,       \* the numbers of samples a session may be created for
  FrameCounts,  \* the numbers of frames a sample buffer may have
  SizeMod,      \* size_t wraps at this number
  MaxRead       \* bound: samples are fed only up to this many

Hop == Window \div 2

\* WMSessionCreate refuses an odd window.  With a window of 2 a buffer never
\* leaves anything to carry, and every feed is the "impossible state".
ASSUME WindowAssumption == Window \in Nat /\ Window = 2 * Hop /\ Hop \in Nat /\ Hop > 1

ASSUME SizeAssumption ==
  /\ Totals \subseteq Nat /\ FrameCounts \subseteq Nat
  /\ SizeMod \in Nat /\ MaxRead \in Nat
  /\ SizeMod > 4 * Window /\ \A fc \in FrameCounts : SizeMod > fc + Window

VARIABLES
  session,         \* is there a session?
  expected,        \* num_of_features_expected
  features,        \* mfcc_data, up to num_of_features_set
  num_read,        \* num_read_samples
  overlap,         \* overlap_buffer, up to num_of_overlap_samples
  border,          \* preemph_border
  max_frames,      \* max_incoming_frames_per_buffer, 0 before the first stereo buffer
  result           \* what the last call returned

vars == <<session, expected, features, num_read, overlap, border, max_frames, result>>

num_overlap == Len(overlap)

NoSample == -1  \* silence before the stream, or memory nothing was written to

SizeT(n) == n % SizeMod

NoSession(code) ==
  /\ session' = FALSE
  /\ expected' = 0
  /\ features' = <<>>
  /\ num_read' = 0
  /\ overlap' = <<>>
  /\ border' = NoSample
  /\ max_frames' = 0
  /\ result' = code

Init ==
  /\ session = FALSE
  /\ expected = 0
  /\ features = <<>>
  /\ num_read = 0
  /\ overlap = <<>>
  /\ border = NoSample
  /\ max_frames = 0
  /\ result = "OK"

\* A call that only returns.
Returns(code) ==
  /\ result' = code
  /\ UNCHANGED <<session, expected, features, num_read, overlap, border, max_frames>>

-----------------------------------------------------------------------------
(* The life of a session.                                                  *)

\* WMSessionCreate, for a session of total samples.
Create(total) ==
  /\ ~session
  /\ total >= Window
  /\ session' = TRUE
  /\ expected' = (total \div Window) * 2 - 1
  /\ result' = "OK"
  /\ UNCHANGED <<features, num_read, overlap, border, max_frames>>

\* WMSessionCreate refuses its arguments; or the constructor of the processor,
\* or an allocation, throws.  The latter is certain for a session shorter than
\* one window: the number of features it expects wraps around.
CreateFails ==
  /\ ~session
  /\ \E code \in {"InvalidArgument", "InvalidWindowSize", "Generic"} : Returns(code)

\* WMSessionDestroy.
Destroy == session /\ NoSession("OK")

\* Mutant: the carried samples are not forgotten.
ResetKeepsOverlap ==
  /\ session
  /\ num_read' = 0
  /\ features' = <<>>
  /\ border' = NoSample
  /\ result' = "OK"
  /\ UNCHANGED <<session, expected, overlap, max_frames>>

\* WMSessionReset: the counters only.
Reset ==
  /\ session
  /\ num_read' = 0
  /\ features' = <<>>
  /\ overlap' = <<>>
  /\ border' = NoSample
  /\ result' = "OK"
  /\ UNCHANGED <<session, expected, max_frames>>

\* WMSessionDestroy, WMSessionReset and WMSessionFeed of no session.
NullSession == ~session /\ Returns("InvalidArgument")

WMSessionIsCompleted == Len(features) = expected

-----------------------------------------------------------------------------
(* WMSessionFeedFromSampleBuffer.                                          *)

\* The i-th sample of the incoming buffer of fc frames.
Sample(fc, i) == IF i \in 0..fc-1 THEN num_read + i ELSE NoSample

\* What process makes of the window at position i of a buffer.
Feature(buffer, i, left) == [left |-> left, samples |-> [k \in 0..Window-1 |-> buffer[i + k]]]

\* Mutant: only one window's worth of samples is copied.
KnittedShort(fc) ==
  [i \in 0..3*Hop-1 |-> IF i < num_overlap THEN overlap[i+1]
                        ELSE IF i < 2*Hop THEN Sample(fc, i - num_overlap) ELSE NoSample]

\* overlap_buffer: the carried samples, and as many new ones as it has room for.
Knitted(fc) ==
  [i \in 0..3*Hop-1 |-> IF i < num_overlap THEN overlap[i+1] ELSE Sample(fc, i - num_overlap)]

\* The features of the windows that begin in the carried samples: none, one or
\* two, the second only while the session is not completed.
KnitTwice == num_overlap > Hop /\ Len(features) + 1 < expected

KnitFeatures(fc) ==
  LET buffer == Knitted(fc)
      first  == Feature(buffer, 0, border)
      second == Feature(buffer, Hop, buffer[Hop - 1])
  IN  IF num_overlap = 0 THEN <<>>
      ELSE IF KnitTwice THEN <<first, second>>
      ELSE <<first>>

\* Mutant: the second window is not counted.
DirectOffsetOfOne ==
  IF num_overlap = 0 THEN 0
  ELSE IF num_overlap > Hop THEN 0 ELSE SizeT(Hop - num_overlap)

\* Where in the incoming buffer the next window begins.
DirectOffset ==
  IF num_overlap = 0 THEN 0
  ELSE SizeT((IF KnitTwice THEN 2 * Hop ELSE Hop) - num_overlap)

KnitBorder(fc) ==
  IF num_overlap = 0 THEN border
  ELSE Knitted(fc)[IF KnitTwice THEN 2 * Hop - 1 ELSE Hop - 1]

\* Mutant: a last window that fits exactly is left over.
TurnsShort(fc, offset, room, n) ==
  /\ n <= room
  /\ \A j \in 0..n-1 : offset + j * Hop + Window < fc
  /\ n = room \/ offset + n * Hop + Window >= fc

\* Mutant: the loop goes on in a completed session.
TurnsOn(fc, offset, room, n) ==
  /\ \A j \in 0..n-1 : offset + j * Hop + Window <= fc
  /\ offset + n * Hop + Window > fc

\* The loop over the incoming buffer makes n turns from the offset on: as long
\* as a window is left, and the session has room for its feature.
Turns(fc, offset, room, n) ==
  /\ n <= room
  /\ \A j \in 0..n-1 : offset + j * Hop + Window <= fc
  /\ n = room \/ offset + n * Hop + Window > fc

DirectFeatures(fc, offset, n) ==
  LET data == [i \in 0..fc-1 |-> Sample(fc, i)]
  IN  [j \in 1..n |-> Feature(data, offset + (j - 1) * Hop,
                              IF j = 1 THEN KnitBorder(fc) ELSE data[offset + (j - 1) * Hop - 1])]

\* memcpy reads past the incoming buffer.
OverRead(fc) == num_overlap # 0 /\ 3 * Hop - num_overlap > fc

\* Samples the session has no use for: too few for a window.
FeedSkipped ==
  /\ session /\ ~WMSessionIsCompleted
  /\ Returns("OK")

\* A completed session, a buffer that is not ready, of another sampling rate,
\* or without its buffer list.
FeedRefused == session /\ Returns("Generic")

\* A format the session does not know, or a stereo buffer longer than the
\* first one: an error, but its samples are counted as read.
FeedUnusable(fc, format) ==
  /\ session /\ ~WMSessionIsCompleted
  /\ fc >= Window /\ num_read + fc <= MaxRead
  /\ format = "other" \/ (format = "stereo" /\ max_frames # 0 /\ max_frames < fc)
  /\ num_read' = num_read + fc
  /\ result' = "Generic"
  /\ UNCHANGED <<session, expected, features, overlap, border, max_frames>>

Usable(fc, format) ==
  /\ session /\ ~WMSessionIsCompleted
  /\ fc >= Window /\ num_read + fc <= MaxRead
  /\ format = "mono" \/ (format = "stereo" /\ (max_frames = 0 \/ max_frames >= fc))

\* The first stereo buffer sizes the buffer that takes its channels apart.
Deinterleaved(fc, format) ==
  max_frames' = IF format = "stereo" /\ max_frames = 0 THEN fc ELSE max_frames

\* How many features the session still wants after those of the knitting.
Room(fc) == expected - Len(features) - Len(KnitFeatures(fc))

\* The samples are consumed: the windows that begin in the carried samples,
\* then n of the incoming buffer itself; the rest is carried.  The last sample
\* of the buffer never is.
Consume(fc, n) ==
  LET rest  == DirectOffset + n * Hop
      carry == fc - 1 - rest
  IN  /\ rest < fc - 1
      /\ features' = features \o KnitFeatures(fc) \o DirectFeatures(fc, DirectOffset, n)
      /\ border' = IF n = 0 THEN KnitBorder(fc) ELSE Sample(fc, rest - 1)
      /\ overlap' = [i \in 1..carry |-> Sample(fc, rest + i - 1)]

Feed(fc, format) ==
  /\ Usable(fc, format)
  /\ \E n \in 0..fc : Turns(fc, DirectOffset, Room(fc), n) /\ Consume(fc, n)
  /\ num_read' = num_read + fc
  /\ Deinterleaved(fc, format)
  /\ result' = "OK"
  /\ UNCHANGED <<session, expected>>

\* The "impossible state": the session completes on the first of two windows
\* in the carried samples, the offset wraps around, and no turn is made.
FeedImpossible(fc, format) ==
  /\ Usable(fc, format)
  /\ DirectOffset >= fc - 1
  /\ features' = features \o KnitFeatures(fc)
  /\ border' = KnitBorder(fc)
  /\ Deinterleaved(fc, format)
  /\ result' = "Generic"
  /\ UNCHANGED <<session, expected, num_read, overlap>>

\* A read beyond the incoming buffer, or a rest longer than overlap_buffer
\* (left by a session that completes early in a long buffer), may end the
\* process, and with it the session.
FeedCrashes(fc, format) ==
  /\ Usable(fc, format)
  /\ \/ OverRead(fc)
     \/ \E n \in 0..fc :
          /\ Turns(fc, DirectOffset, Room(fc), n)
          /\ fc - 1 - (DirectOffset + n * Hop) > 3 * Hop
  /\ NoSession("Crash")

-----------------------------------------------------------------------------
Next ==
  \/ \E total \in Totals : Create(total)
  \/ CreateFails
  \/ Destroy
  \/ Reset
  \/ NullSession
  \/ FeedSkipped
  \/ FeedRefused
  \/ \E fc \in FrameCounts, format \in {"mono", "stereo", "other"} :
       \/ FeedUnusable(fc, format)
       \/ Feed(fc, format)
       \/ FeedImpossible(fc, format)
       \/ FeedCrashes(fc, format)

Spec == Init /\ [][Next]_vars
-----------------------------------------------------------------------------
Samples == Nat \cup {NoSample}

Features == [left : Samples, samples : [0..Window-1 -> Samples]]

Codes == {"OK", "InvalidArgument", "InvalidWindowSize", "Generic", "Crash"}

\* Every variable has its type, and a session never computes more features than
\* it allocated mfcc_data for: the "tmp buffer overflow" branch of
\* copy_mfcc_and_advance is not taken, so the model has none.
TypeOK ==
  /\ session \in BOOLEAN
  /\ expected \in Nat
  /\ features \in Seq(Features) /\ Len(features) <= expected
  /\ num_read \in Nat
  /\ overlap \in Seq(Samples)
  /\ border \in Samples
  /\ max_frames \in Nat
  /\ result \in Codes

\* While a session still wants features, what it carries from buffer to buffer
\* is enough to begin the next window and too little for two whole ones: the
\* "worst case scenario" overlap_buffer is sized for, and why the knitting makes
\* at most two features and its offset does not wrap around.
CarryBounded ==
  session /\ ~WMSessionIsCompleted => num_overlap = 0 \/ num_overlap \in Hop-1..2*Hop-2

\* Whatever the sizes of the buffers, the features follow one another at half a
\* window: each begins in the middle of the one before, and takes for its left
\* neighbour the last sample of the first half of that one.
Chained ==
  \A i \in 1..Len(features)-1 :
    /\ features[i+1].samples[0] = features[i].samples[Hop]
    /\ features[i+1].left = features[i].samples[Hop - 1]

\* No feature is computed from memory nobody wrote, from a sample twice, or from
\* samples of before the Reset: the samples of a window are in stream order.
WindowsInOrder ==
  \A i \in 1..Len(features) :
    LET f == features[i]
    IN  /\ f.samples[0] >= 0
        /\ \A k \in 1..Window-1 : f.samples[k-1] < f.samples[k]
        /\ i = 1 => f.left = NoSample

\* Every feed that is accepted brings the session nearer to completion: it
\* stores a feature, and none stored before is lost or overwritten.
FeedAdvances ==
  [][result' = "OK" /\ num_read' > num_read =>
       /\ Len(features') > Len(features)
       /\ \A i \in 1..Len(features) : features'[i] = features[i]]_vars

(* What the comments of the code say, and the code breaks.                 *)

\* "Copying the rest that wasn't processed into the overlap buffer": what is
\* carried ends with the last sample read (WordMatchSession.cpp:443-444).
RestIsCarried ==
  session /\ ~WMSessionIsCompleted /\ num_overlap # 0 =>
    overlap[num_overlap] = num_read - 1
=============================================================================
