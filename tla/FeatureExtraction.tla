-------------------------- MODULE FeatureExtraction -------------------------
(***************************************************************************)
(* From a file to its features: preprocess trims it, get_mfcc_features     *)
(* builds a processor and turns one window after another into a feature.   *)
(* A feature is told by its window and by the sample that was taken for    *)
(* its left neighbour.                                                     *)
(***************************************************************************)
EXTENDS AudioFile, FilterBank

CONSTANTS
  Inputs,      \* files, thresholds and filter banks, as records
  Window,      \* window_frame_size
  HopTwice,    \* interval_time_duration, in halves of a sample: not a whole one
  Many         \* bound: what a negative number of packets becomes, if not zero

ASSUME InputsAssumption ==
  \A input \in Inputs :
    /\ input.file \in Seq(Int)
    /\ input.ratio.begin \in Nat /\ input.ratio.end \in Nat
    /\ input.bank.edges \in Seq(Nat) /\ Len(input.bank.edges) >= 2 /\ input.bank.bins \in Nat
    /\ \A i, j \in DOMAIN input.bank.edges :
         i <= j => input.bank.edges[i] <= input.bank.edges[j]

ASSUME WindowAssumption == Window \in Nat \ {0} /\ HopTwice \in 2..2*Window /\ Many \in Nat

VARIABLES
  stage,       \* how far get_mfcc_features has come
  packets,     \* num_packets
  iPacket,
  border,      \* left_of_packet: its position, -1 for none
  features,    \* mfcc_features
  skipped      \* history: did a failed read go unnoticed

extractVars == <<stage, packets, iPacket, border, features, skipped>>

vars == <<fileVars, passVars, bankVars, extractVars>>

Init ==
  /\ \E input \in Inputs : file = input.file /\ ratio = input.ratio /\ bank = input.bank
  /\ FileInit
  /\ BankInit
  /\ stage = "preprocess"
  /\ packets = 0 /\ iPacket = 0
  /\ border = -1
  /\ features = <<>>
  /\ skipped = FALSE

\* interval_frame_size: the interval cut to whole samples.
Hop == HopTwice \div 2

Preprocess ==
  /\ stage = "preprocess"
  /\ preprocess
  /\ stage' = IF reading' \in {"trimmed", "untrimmed"} THEN "construct" ELSE stage
  /\ UNCHANGED <<bankVars, packets, iPacket, border, features, skipped>>

ConstructProcessor ==
  /\ stage = "construct"
  /\ MelFilterBank
  /\ stage' = CASE building' = "built" -> "count" [] building' = "thrown" -> "done" [] OTHER -> stage
  /\ UNCHANGED <<fileVars, passVars, packets, iPacket, border, features, skipped>>

Duration == info.end - info.start

\* Mutant: without taking a window off.
ClippedNot == Duration

\* A window is taken off when less than one follows the end.
Clipped == IF Len(file) - info.end < Window THEN Duration - Window ELSE Duration

\* The conversion of a negative number to size_t is undefined.
CountPackets ==
  /\ stage = "count"
  /\ IF Duration <= 0 THEN stage' = "done" /\ UNCHANGED packets
     ELSE /\ stage' = "packets"
          /\ packets' \in IF Clipped < 0 THEN {0, Many} ELSE {(2 * Clipped) \div HopTwice}
  /\ UNCHANGED <<fileVars, passVars, bankVars, iPacket, border, features, skipped>>

\* Mutant: the interval cut to whole samples.
LocationOfHop == 2 * info.start + iPacket * 2 * Hop

\* Twice the position of the next window, and where read_floats seeks: the float
\* it rounds may be on either side of a half.
Location == 2 * info.start + iPacket * HopTwice

Seek == {at \in 0..Len(file)+1 : 2 * at \in Location-1..Location+1}

\* Mutant: one packet more.
InPacketsMore == stage = "packets" /\ iPacket <= packets

InPackets == stage = "packets" /\ iPacket < packets

TakeFeature(at) ==
  /\ features' = Append(features, [at |-> at, left |-> border])
  /\ border' = at + Hop - 1

\* A window that the file cuts short is left out.
ReadWindow ==
  /\ InPackets
  /\ Location <= 2 * Len(file)
  /\ \E at \in Seek :
       IF at + Window <= Len(file) THEN TakeFeature(at) ELSE UNCHANGED <<border, features>>
  /\ iPacket' = iPacket + 1
  /\ UNCHANGED <<fileVars, passVars, bankVars, stage, packets, skipped>>

\* A read that fails with fewer samples is left out like a short one, before the
\* assertion sees that it failed.
SkipFailedRead ==
  /\ InPackets
  /\ iPacket' = iPacket + 1
  /\ skipped' = TRUE
  /\ UNCHANGED <<fileVars, passVars, bankVars, stage, packets, border, features>>

\* A seek behind the end fails, and any read may: assert(success).
AssertFails ==
  /\ InPackets
  /\ stage' = "aborted"
  /\ UNCHANGED <<fileVars, passVars, bankVars, packets, iPacket, border, features, skipped>>

Finish ==
  /\ stage = "packets" /\ iPacket = packets
  /\ stage' = "done"
  /\ UNCHANGED <<fileVars, passVars, bankVars, packets, iPacket, border, features, skipped>>

get_mfcc_features ==
  ConstructProcessor \/ CountPackets \/ ReadWindow \/ SkipFailedRead \/ AssertFails \/ Finish

Next == Preprocess \/ get_mfcc_features

Spec == Init /\ [][Next]_vars
-----------------------------------------------------------------------------
Infos == [peak : Nat, start : Nat, end : Nat]

\* Every variable has its type, and there are no more features than packets.
TypeOK ==
  /\ reading \in {"peak", "threshold", "trimmed", "untrimmed"} /\ looking \in BOOLEAN
  /\ total \in 0..Len(file) /\ DOMAIN process = 1..PacketSize /\ info \in Infos
  /\ building \in {"arguments", "filters", "built", "thrown"} /\ Len(filters) <= NumBands
  /\ stage \in {"preprocess", "construct", "count", "packets", "done", "aborted"}
  /\ packets \in Nat /\ iPacket \in 0..packets
  /\ border \in -1..Len(file) /\ Len(features) <= iPacket /\ skipped \in BOOLEAN

\* Unless a failed read was left out, the features follow one another at the
\* interval from the start of the sound, none missing, and all of them begin before
\* the sound ends: "we are always reading full packages" (MFCCUtils.cpp:90), so no
\* window is cut short, wherever the sound ends and however the times are rounded.
\* (Not if the count of packets came from a negative number.)
WindowsFollow ==
  stage \in {"packets", "done"} /\ Clipped >= 0 /\ ~skipped =>
    /\ Len(features) = iPacket
    /\ InPackets => Location <= 2 * Len(file)
    /\ \A k \in DOMAIN features :
         /\ 2 * features[k].at - 2 * info.start - (k - 1) * HopTwice \in -1..1
         /\ features[k].at < info.end

\* What the comments of the code say, and the code breaks.

\* "Memorize the element which is going to be just left of the next packet to read"
\* (MFCCUtils.cpp:103): if no window is missing, each has its left neighbour.
BorderIsLeft ==
  Len(features) = iPacket => \A k \in DOMAIN features :
    features[k].left = IF k = 1 THEN -1 ELSE features[k].at - 1
=============================================================================
