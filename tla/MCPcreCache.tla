----------------------------- MODULE MCPcreCache -----------------------------
(* A small instance of PcreCache for TLC. *)
EXTENDS PcreCache, TLC

CONSTANTS r1, r2, r3, r4, e1, e2, e3, e4, e5, i1, l1, l2, none
Symmetric == Permutations(Regex) \cup Permutations(Entry)
=============================================================================
