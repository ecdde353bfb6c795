-------------------------- MODULE MCAccelRestart --------------------------
(* AccelRestart with one worker per process (a non-ZTS build), and the     *)
(* instances the configurations use.                                       *)
EXTENDS AccelRestart, TLC

CONSTANTS p1, p2, p3, t1, t2

TwoProcs == {p1, p2}
OneProc == {p2}
ThreeProcs == {p1, p2, p3}
OwnProcess == [w \in Worker |-> w]
(* Two threads of p1 and one of p2. *)
ThreadWorkers == {t1, t2, p2}
ThreadOf == [w \in ThreadWorkers |-> IF w = p2 THEN p2 ELSE p1]
Symmetric == Permutations(Worker)
=============================================================================
