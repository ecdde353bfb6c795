---------------------------- MODULE MCSessionFiles ----------------------------
(* Small instances of SessionFiles for TLC. *)
EXTENDS SessionFiles

CONSTANTS p1, p2, p3, a, b
=============================================================================
