----------------------------- MODULE MCScoring -----------------------------
(* Scoring for TLC: all recordings and files of a few features.            *)
EXTENDS Scoring

\* Apart by one, similar; by three or more, not; 1 and 3 are barely so.
MCFeatureValues == {0, 1, 3}
MCUserSizes == 0..4
MCDatabaseSizes == 0..3

=============================================================================
