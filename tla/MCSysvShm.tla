------------------------------ MODULE MCSysvShm ------------------------------
(* Small instances of SysvShm for TLC. *)
EXTENDS SysvShm, TLC

CONSTANTS p1, p2, k1, k2, k3, short, long
Units == short :> 1 @@ long :> 2
Symmetric == Permutations(Process) \cup Permutations(Key)
=============================================================================
