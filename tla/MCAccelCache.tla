---------------------------- MODULE MCAccelCache ----------------------------
(* Small instances of AccelCache for TLC. *)
EXTENDS AccelCache, TLC

CONSTANTS w1, w2, a, b, c

(* b is a file and a another name of it (a link, or a relative path); or   *)
(* both are files. *)
Linked == (a :> b) @@ (b :> b)
Apart == (a :> a) @@ (b :> b)
(* A third name, of b. *)
Third == (a :> a) @@ (b :> b) @@ (c :> b)

UnitSize == [n \in Name |-> 1]
OneTwo == [n \in Name |-> IF n = b THEN 1 ELSE 2]
WorkerSymmetry == Permutations(Worker)
=============================================================================
