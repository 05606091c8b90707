----------------------------- MODULE FilterBank -----------------------------
(***************************************************************************)
(* MelFilterBank and TriangleFilter: the filters that warp a spectrum.     *)
(*                                                                         *)
(* Frequencies are in halves of the distance of two bins.  The mel scale   *)
(* only spaces the edges; they are an input here, any that ascend.  What   *)
(* is kept of a filter is the array it allocates and what is written to    *)
(* it: an index and a weight, in units of the height, as a fraction.       *)
(***************************************************************************)
EXTENDS Integers, Sequences

CONSTANT SizeMod  \* 2^16: size_ is an unsigned short

ASSUME SizeModAssumption == SizeMod \in Nat \ {0}

VARIABLES
  bank,      \* the arguments: [edges, bins]
  filters,   \* filters_
  building   \* the outcome of the constructors

bankVars == <<bank, filters, building>>

\* The bin closest to a frequency.
Bin(hz) == (hz + 1) \div 2

Center(left, right) == (left + right + 1) \div 2

\* Mutant: the center rounded down for the right side only.
RightSideLow(left, right, size) ==
  LET length == right - (left + right) \div 2
  IN  {[at |-> size - length - 1 + k, num |-> length - k, den |-> length] : k \in 0..length}

LeftSide(left, right) ==
  LET length == Center(left, right) - left
  IN  {[at |-> k, num |-> k, den |-> length] : k \in 0..length-1}

\* The falling side, and the center.  Between neighbours it has no length: its only
\* weight is the height, or not a number, as it falls by infinity; neither is zero.
RightSide(left, right, size) ==
  LET length == right - Center(left, right)
  IN  IF length = 0 THEN {[at |-> size - 1, num |-> 1, den |-> 1]}
      ELSE {[at |-> size - length - 1 + k, num |-> length - k, den |-> length] : k \in 0..length}

TriangleFilter(left, right) ==
  LET size == (right - left + 1) % SizeMod
  IN  [left |-> left, right |-> right, size |-> size,
       data |-> LeftSide(left, right) \cup RightSide(left, right, size)]

BankInit ==
  /\ filters = <<>>
  /\ building = "arguments"

NumBands == Len(bank.edges) - 2

\* The checks before the loop.  The rate is that of a file, never zero.
CheckArguments ==
  LET min_freq == bank.edges[1]
      max_freq == bank.edges[NumBands + 2]
  IN  /\ building = "arguments"
      /\ building' = IF min_freq >= max_freq \/ max_freq = 0 \/ NumBands = 0 \/ bank.bins = 0
                     THEN "thrown" ELSE "filters"
      /\ UNCHANGED <<bank, filters>>

\* One turn of the constructor's loop: the left edge is the center before.
AddFilter ==
  LET i == Len(filters)
      left == Bin(bank.edges[i + 1])
      right == Bin(bank.edges[i + 3])
  IN  /\ building = "filters" /\ i < NumBands
      /\ IF left >= right
           THEN building' = "thrown" /\ UNCHANGED filters
           ELSE filters' = Append(filters, TriangleFilter(left, right)) /\ UNCHANGED building
      /\ UNCHANGED bank

Nyquist == 2 * bank.bins

\* Mutant: without the check of the Nyquist limit.
BuildAny ==
  /\ building = "filters" /\ Len(filters) = NumBands
  /\ building' = "built"
  /\ UNCHANGED <<bank, filters>>

\* The checks of MFCCProcessor, and its FFT setup that may fail, come after its
\* filter bank.
Build ==
  /\ building = "filters" /\ Len(filters) = NumBands
  /\ building' \in IF bank.edges[NumBands + 2] > Nyquist THEN {"thrown"} ELSE {"built", "thrown"}
  /\ UNCHANGED <<bank, filters>>

MelFilterBank == CheckArguments \/ AddFilter \/ Build
-----------------------------------------------------------------------------
\* The size of a filter fits the type it is kept in.
Fits(f) == f.right - f.left + 1 < SizeMod

\* The two ramps fill the array of a filter: every index is written exactly once,
\* none outside of it, if its size fits.
Filled(f) ==
  /\ {w.at : w \in f.data} = 0..f.size-1
  /\ \A v, w \in f.data : v.at = w.at => v = w

FiltersFilled ==
  \A i \in DOMAIN filters : Fits(filters[i]) => Filled(filters[i])

\* A processor that was built weighs the magnitudes of the spectrum, at 0..bins-1,
\* and of what process_buffer_ holds beyond them only the value at the Nyquist bin,
\* and that only by a filter that spans no more than the last magnitude and it.
WeighsMagnitudes ==
  building = "built" =>
    \A i \in DOMAIN filters : Fits(filters[i]) =>
      \A w \in filters[i].data :
        LET bin == filters[i].left + w.at
        IN  bin \notin 0..bank.bins-1 => (w.num # 0 <=> filters[i].left = bank.bins - 1)
=============================================================================
