------------------------ MODULE MCFeatureExtraction ------------------------
(* FeatureExtraction for TLC: all short files with one filter bank, and     *)
(* one file with all small filter banks.                                    *)
EXTENDS FeatureExtraction

MCFiles == {<<0, 0, 0, 0>>} \cup UNION {[1..n -> {-4, 1, 4}] : n \in 0..7}
             \cup {f \o <<1, 1, 1, 0>> : f \in [1..6 -> {-4, 4}]}

\* Thresholds well below the peak, and those of the app: nothing but silence is
\* below them.
MCRatios == {[begin |-> 2, end |-> 4], [begin |-> 100, end |-> 100]}

MCBank == [edges |-> <<0, 2, 5, 8>>, bins |-> 4]

\* The edges ascend, the last may be beyond the Nyquist frequency.  A filter between
\* the last magnitude and the Nyquist bin, and arguments that are refused.
MCBanks == {[edges |-> e, bins |-> n] : e \in {<<a, b, c, d>> : a \in 0..2, b \in 3..6, c \in 6..9, d \in 9..13},
                                        n \in 5..7}
             \cup {[edges |-> <<0, 2*n - 2, 2*n - 1, 2*n>>, bins |-> n] : n \in 5..7}
             \cup {[edges |-> e, bins |-> 4] : e \in {<<4, 4, 4, 4>>, <<0, 0, 0>>, <<0, 8>>}}
             \cup {[edges |-> <<0, 2, 4>>, bins |-> 0]}

MCInputs ==
  {[file |-> f, ratio |-> r, bank |-> MCBank] : f \in MCFiles, r \in MCRatios}
    \cup {[file |-> <<1, 4>>, ratio |-> [begin |-> 2, end |-> 4], bank |-> b] : b \in MCBanks}
=============================================================================
