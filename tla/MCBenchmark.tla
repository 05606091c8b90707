---------------------------- MODULE MCBenchmark -----------------------------
(* Benchmark for TLC: two samples of one speaker with all short sequences   *)
(* of features, and two of each of two speakers with a few.                 *)
EXTENDS Benchmark

\* In tenths; the distances are 0 (of 0 and 0.8, too), 2 and 3.
MCFeatures == {<<0, 0>>, <<0, 8>>, <<30, 0>>}

MCSequences == UNION {[1..n -> MCFeatures] : n \in 1..3}

MCLong ==
  {<<<<0, 0>>, <<30, 0>>, <<10, 0>>, <<30, 0>>>>, [n \in 1..5 |-> IF n = 3 THEN <<0, 0>> ELSE <<30, 0>>],
   <<<<0, 0>>, Undefined, <<30, 0>>>>, <<Undefined>>, <<>>}

MCPair(f, g, n, u) ==
  [speakers |-> 1, samples |-> 2, r |-> n, nan |-> u,
   features |-> [s \in {0} \X (0..1) |-> IF s[2] = 0 THEN f ELSE g]]

MCSome == {<<<<0, 0>>>>, <<<<0, 0>>, <<30, 0>>>>, <<>>}

MCCorpora ==
  {MCPair(f, g, n, NaN) : f \in MCSequences \cup MCLong, g \in MCSequences \cup MCLong, n \in 1..2}
    \cup {MCPair(f, g, 1, 0) : f \in MCSequences \cup MCLong, g \in MCLong}
    \cup {[speakers |-> 2, samples |-> 2, r |-> 2, nan |-> 0, features |-> f] :
           f \in [(0..1) \X (0..1) -> MCSome]}
=============================================================================
