----------------------------- MODULE AudioFile ------------------------------
(***************************************************************************)
(* AudioFileReader: reading a file packet by packet, and preprocess, which *)
(* finds where the sound in it begins and ends.                            *)
(*                                                                         *)
(* A file is the sequence of its samples, integers of which only the sign  *)
(* and the size relative to the peak matter; a time is the position of a   *)
(* sample, counted from 0.  A threshold in decibels is given as the number *)
(* of times it goes into the peak.                                         *)
(***************************************************************************)
EXTENDS Integers, Sequences, FiniteSetsExt

CONSTANT PacketSize  \* packet_size

ASSUME PacketSizeAssumption == PacketSize \in Nat \ {0}

VARIABLES
  file,      \* the samples of the file
  ratio,     \* the begin and the end threshold
  reading,   \* the pass of preprocess, or how it ended
  looking,   \* looking_for_beginning
  total,     \* total_samples_read, which is also the position of the reader
  process,   \* process_data: the packet before
  info       \* what preprocess returns

fileVars == <<file, ratio>>

Abs(x) == IF x < 0 THEN -x ELSE x

\* vDSP_maxmgv; of no samples it is 0.
Magnitude(s) == Max({Abs(s[i]) : i \in DOMAIN s} \cup {0})

\* read_floats without a time: the next packet, short or empty at the end.
Packet == SubSeq(file, total + 1, Min({total + PacketSize, Len(file)}))

\* vDSP_nzcros: the positions after from, up to to, where the sign of s changes.
Crossings(s, from, to) == {i \in from+1..to : (s[i] < 0) # (s[i-1] < 0)}

NoInfo == [peak |-> 0, start |-> 0, end |-> 0]

FileInit ==
  /\ reading = "peak"
  /\ looking = TRUE
  /\ total = 0
  /\ process = [i \in 1..PacketSize |-> 0]
  /\ info = NoInfo

ReadPeak ==
  /\ reading = "peak"
  /\ info' = [info EXCEPT !.peak = Max({@, Magnitude(Packet)})]
  /\ IF Packet = <<>> THEN reading' = "threshold" /\ total' = 0
                      ELSE reading' = "peak" /\ total' = total + Len(Packet)
  /\ UNCHANGED <<fileVars, looking, process>>

\* A read error ends either pass with what was found so far.
ReadFails ==
  /\ reading \in {"peak", "threshold"}
  /\ reading' = "untrimmed"
  /\ UNCHANGED <<fileVars, looking, total, process, info>>

\* The packet becomes the packet before; a short one leaves the rest of
\* process_data as it was.  The empty one at the end of the file is the last.
Advance ==
  /\ process' = Packet \o SubSeq(process, Len(Packet) + 1, PacketSize)
  /\ total' = total + Len(Packet)
  /\ reading' = IF Packet = <<>> THEN "untrimmed" ELSE "threshold"

Loud(x) == Abs(x) * ratio.begin >= info.peak

\* Mutant: the greatest sample of the packet instead of the first loud one.
OnsetAtMaximum(p) ==
  LET loud == Min({i \in DOMAIN p : Abs(p[i]) = Magnitude(p)} \cup {Len(p) + 1})
      crossings == Crossings(p, 1, loud)
  IN  IF crossings = {} THEN loud - 1 ELSE Max(crossings) - 1

\* The last zero crossing left of the first loud sample, or that sample.
Onset(p) ==
  LET loud == Min({i \in DOMAIN p : Loud(p[i])} \cup {Len(p) + 1})
      crossings == Crossings(p, 1, loud)
  IN  IF crossings = {} THEN loud - 1 ELSE Max(crossings) - 1

BeginPacket ==
  /\ reading = "threshold" /\ looking
  /\ Loud(Magnitude(Packet))
  /\ info' = [info EXCEPT !.start = total + Onset(Packet)]
  /\ looking' = FALSE
  /\ Advance
  /\ UNCHANGED fileVars

EndsHere == ~looking /\ Magnitude(Packet) * ratio.end <= info.peak

PassPacket ==
  /\ reading = "threshold"
  /\ ~(looking /\ Loud(Magnitude(Packet))) /\ ~EndsHere
  /\ Advance
  /\ UNCHANGED <<fileVars, looking, info>>

\* The end is searched in the packet before, from an index looked up in its
\* reverse: the distance of its last maximum from its end.
Offset == PacketSize - Max({i \in 1..PacketSize : Abs(process[i]) = Magnitude(process)})

\* Mutant: without taking the packet before off the samples read.
EndOfTotal ==
  LET crossings == Crossings(process, Offset + 1, PacketSize)
  IN  total + (IF crossings = {} THEN Offset ELSE Min(crossings) - 1)

\* The first zero crossing right of that index, or the index itself.
EndLocation ==
  LET crossings == Crossings(process, Offset + 1, PacketSize)
  IN  total - PacketSize + (IF crossings = {} THEN Offset ELSE Min(crossings) - 1)

\* A quiet packet ends the sound, the empty one at the end of the file too.
EndPacket ==
  /\ reading = "threshold"
  /\ EndsHere
  /\ IF total < PacketSize
       THEN reading' = "untrimmed" /\ UNCHANGED info
       ELSE reading' = "trimmed" /\ info' = [info EXCEPT !.end = EndLocation]
  /\ UNCHANGED <<fileVars, looking, total, process>>

preprocess == ReadPeak \/ ReadFails \/ BeginPacket \/ PassPacket \/ EndPacket

passVars == <<reading, looking, total, process, info>>
-----------------------------------------------------------------------------
\* The positions of the samples that reach the begin threshold.
LoudAt == {i \in 0..Len(file)-1 : Loud(file[i+1])}

\* The sound begins at its very first loud sample or at the zero crossing before
\* it, at most a packet earlier, however the packets cut it: no loud sample is
\* before the start, and none of the other sign between the start and it.
StartsAtOnset ==
  ~looking /\ LoudAt # {} =>
    LET onset == Min(LoudAt)
    IN  /\ info.start <= onset
        /\ onset - info.start < PacketSize
        /\ Crossings(file, info.start + 1, onset + 1) = {}

\* Where it begins and where it ends are positions of the file, and the end,
\* though it may precede the start, is never a packet before it.
TrimInFile ==
  /\ info.start <= Len(file) /\ info.end <= Len(file)
  /\ reading = "trimmed" => info.start < info.end + PacketSize

\* The end is "the first zero crossing right next to the last maximum value that
\* went over threshold" (AudioFileReader.cpp:352-353): it does not come before the
\* maximum of the last packet of sound.
EndsAfterMaximum ==
  reading = "trimmed" =>
    LET last == SubSeq(file, total - PacketSize + 1, total)
    IN  info.end >= total - PacketSize
                      + Max({i \in 1..PacketSize : Abs(last[i]) = Magnitude(last)}) - 1
=============================================================================
