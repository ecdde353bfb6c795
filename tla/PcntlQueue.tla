----------------------------- MODULE PcntlQueue -----------------------------
(***************************************************************************)
(* What pcntl promises to a script (pcntl/pcntl.c): signals that arrive    *)
(* are kept in the order of their arrival, as many as there are records    *)
(* for them, and given to the script's functions one at a time, each once. *)
(***************************************************************************)
EXTENDS Naturals, Sequences

CONSTANTS Signal, NoSignal

VARIABLES waiting,    \* the signals kept, the one being played first
          capacity,   \* how many can be kept
          functions,  \* the signals that have a function
          playing     \* the signal a function has been given, and has not returned from
vars == <<waiting, capacity, functions, playing>>

Init == waiting = <<>> /\ capacity = 0 /\ functions = {} /\ playing = NoSignal

(* More records. *)
Grow ==
  /\ capacity' = capacity + 1
  /\ UNCHANGED <<waiting, functions, playing>>

(* The script chooses its functions. *)
Choose ==
  /\ functions' \in SUBSET Signal
  /\ UNCHANGED <<waiting, capacity, playing>>

(* A signal arrives; without a record it is forgotten, which is no step. *)
Arrive(s) ==
  /\ Len(waiting) < capacity
  /\ waiting' = Append(waiting, s)
  /\ UNCHANGED <<capacity, functions, playing>>

(* The oldest signal is given to its function. *)
Play ==
  /\ playing = NoSignal /\ waiting # <<>> /\ Head(waiting) \in functions
  /\ playing' = Head(waiting)
  /\ UNCHANGED <<waiting, capacity, functions>>

(* Its function has returned. *)
Return ==
  /\ playing # NoSignal
  /\ playing' = NoSignal /\ waiting' = Tail(waiting)
  /\ UNCHANGED <<capacity, functions>>

(* The oldest signal has no function any more. *)
Skip ==
  /\ playing = NoSignal /\ waiting # <<>> /\ Head(waiting) \notin functions
  /\ waiting' = Tail(waiting)
  /\ UNCHANGED <<capacity, functions, playing>>

(* The request ends. *)
Drop == Init'

Next == Grow \/ Choose \/ Play \/ Return \/ Skip \/ Drop \/ \E s \in Signal : Arrive(s)

Spec == Init /\ [][Next]_vars
=============================================================================
