--------------------------- MODULE MCAccelInterned ---------------------------
(* A small instance of AccelInterned for TLC: three strings, two of them in  *)
(* one slot, one of them two units long.                                     *)
EXTENDS AccelInterned

CONSTANTS p1, p2, parent, none, a, b, c
Hash == [s \in String |-> IF s = c THEN 2 ELSE 1]
Sizes == [s \in String |-> IF s = b THEN 2 ELSE 1]
=============================================================================
