------------------------- MODULE MCAccelIncludePath -------------------------
(* Small instances of AccelIncludePath for TLC. *)
EXTENDS AccelIncludePath, TLC

CONSTANTS w1, w2, p1, p2, p3
Symmetric == Permutations(Worker) \cup Permutations(Path \ {Default})
=============================================================================
