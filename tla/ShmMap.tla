-------------------------------- MODULE ShmMap --------------------------------
(***************************************************************************)
(* What the variables of a shared memory segment are to the scripts that   *)
(* use it under a semaphore: a map from keys to values.  A script that     *)
(* replaces a value may fail after the old one is gone, and one that dies  *)
(* while it changes a segment may break it; nothing is promised then.      *)
(***************************************************************************)
CONSTANTS Segment, Key, Value, NoValue

VARIABLES
  contents,   \* the value of each key of a segment, or NoValue
  broken      \* segments that somebody broke

Empty == [k \in Key |-> NoValue]

Init ==
  /\ contents = [g \in Segment |-> Empty]
  /\ broken = {}

Others(g) == \A h \in Segment \ {g} : contents'[h] = contents[h]

(* Put a value where there is none, or forget one. *)
Change(g, k) ==
  /\ contents[g][k] = NoValue \/ contents'[g][k] = NoValue
  /\ \A j \in Key \ {k} : contents'[g][j] = contents[g][j]
  /\ Others(g)
  /\ UNCHANGED broken

Delete(g) ==
  /\ contents'[g] = Empty /\ Others(g)
  /\ broken' = broken \ {g}

Break(g) ==
  /\ broken' # broken /\ broken' = broken \cup {g}
  /\ Others(g)

Next ==
  \/ \E g \in Segment, k \in Key : g \notin broken /\ Change(g, k)
  \/ \E g \in Segment : Break(g) \/ Delete(g)

Spec == Init /\ [][Next]_<<contents, broken>>
=============================================================================
