------------------------------ MODULE MCSysvSem ------------------------------
(* Small instances of SysvSem for TLC. *)
EXTENDS SysvSem, TLC

CONSTANTS p1, p2, p3
Symmetric == Permutations(Process)
=============================================================================
