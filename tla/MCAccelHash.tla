----------------------------- MODULE MCAccelHash -----------------------------
(* Small instances of AccelHash for TLC. *)
EXTENDS AccelHash, TLC

CONSTANTS k1, k2, k3, d1, d2, r1

(* Two keys that collide and one in a slot of its own. *)
Collide == (k1 :> 0) @@ (k2 :> 0) @@ (k3 :> 1)
DataSymmetry == Permutations(Data)
=============================================================================
