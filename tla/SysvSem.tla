------------------------------- MODULE SysvSem -------------------------------
(***************************************************************************)
(* Semaphores of PHP scripts (sysvsem/sysvsem.c) on one key.               *)
(*                                                                         *)
(* A semaphore is a set of three semaphores of the kernel: "sem" counts    *)
(* the units that may be acquired, "usage" the processes that use it, and  *)
(* "setval" serializes sem_get().  A kernel call is one step.  The kernel  *)
(* keeps, per process and set, what to add to the values when the process  *)
(* ends (SEM_UNDO); setting a value clears what it keeps for it (Linux).   *)
(* A removed set is never the current one again and calls on it fail.      *)
(***************************************************************************)
EXTENDS Sysv, Integers, FiniteSets, FiniteSetsExt

CONSTANTS
  max_acquire,   \* the argument of sem_get(), the same for all processes
  MaxSets,       \* bound: sets created
  MaxCount,      \* bound: units a process acquires at a time
  MaxUses,       \* bound: uses of a set by one process
  MaxMishaps     \* bound: processes that die, and semop() for want of undo records

ASSUME SemAssumption ==
  /\ max_acquire \in Nat \ {0} /\ MaxSets \in Nat \ {0} /\ MaxCount \in Nat \ {0}
  /\ MaxUses \in Nat \ {0} /\ MaxMishaps \in Nat

VARIABLES
  current,     \* kernel: the set of the key, 0 if there is none
  sets,        \* kernel: how many sets have been created
  value,       \* kernel: the values of a set
  undo,        \* kernel: what is added when the process ends
  pc,
  res,         \* the script's resource: the set, how often acquired, auto_release
  holds,       \* history: units of a set that a process has acquired and not released
  spoiled,     \* history: sets that two processes may have initialized, or none
  mishaps

kernel == <<current, sets, value, undo>>
history == <<holds, spoiled>>
vars == <<kernel, pc, res, history, mishaps>>

Set == 1..MaxSets
Field == {"sem", "usage", "setval"}
Zero == [f \in Field |-> 0]
NoRes == [id |-> 0, count |-> 0, auto_release |-> TRUE]

(* The value of a set that is not there is 0, so that it does not matter. *)
Alive(g) == g # 0 /\ g = current

TypeOK ==
  /\ current \in 0..MaxSets /\ sets \in 0..MaxSets
  /\ value \in [Set -> [Field -> Nat]] /\ undo \in [Process -> [Set -> [Field -> Int]]]
  /\ pc \in [Process -> {"out", "get", "count", "setval", "unlock", "in", "acquire", "undo"}]
  /\ res \in [Process -> [id : 0..MaxSets, count : -1..MaxCount, auto_release : BOOLEAN]]
  /\ holds \in [Process -> [Set -> Nat]]
  /\ spoiled \subseteq Set
  /\ mishaps \in 0..MaxMishaps

Init ==
  /\ current = 0 /\ sets = 0
  /\ value = [g \in Set |-> Zero]
  /\ undo = [p \in Process |-> [g \in Set |-> Zero]]
  /\ pc = [p \in Process |-> "out"]
  /\ res = [p \in Process |-> NoRes]
  /\ holds = [p \in Process |-> [g \in Set |-> 0]]
  /\ spoiled = {} /\ mishaps = 0

-----------------------------------------------------------------------------
(* semop() with SEM_UNDO of process p on set g; op says what is added. *)
(* Mut: SYSVSEM_SETVAL is counted up without SEM_UNDO. *)
MutUndoable == {"sem", "usage"}
Undoable == Field
MayProceed(g, op) == \A f \in Field : value[g][f] + op[f] >= 0
SemOp(p, g, op) ==
  /\ MayProceed(g, op)
  /\ value' = [value EXCEPT ![g] = [f \in Field |-> @[f] + op[f]]]
  /\ undo' = [undo EXCEPT ![p][g] = [f \in Field |->
       IF f \in Undoable THEN @[f] - op[f] ELSE @[f]]]
  /\ UNCHANGED <<current, sets>>

Ops(sem, usage, setval) ==
  [f \in Field |-> CASE f = "sem" -> sem [] f = "usage" -> usage [] OTHER -> setval]

(* semctl(IPC_RMID) *)
Remove ==
  /\ value' = [value EXCEPT ![current] = Zero]
  /\ undo' = [p \in Process |-> [undo[p] EXCEPT ![current] = Zero]]
  /\ current' = 0
  /\ UNCHANGED sets

Go(p, to) == pc' = [pc EXCEPT ![p] = to]

-----------------------------------------------------------------------------
(* sem_get(): semget() finds the set of the key or creates one. *)
SemGet(p, auto) ==
  /\ pc[p] = "out"
  /\ current = 0 => sets < MaxSets
  /\ LET g == IF current = 0 THEN sets + 1 ELSE current
     IN /\ -undo[p][g].usage < MaxUses
        /\ current' = g
        /\ sets' = IF current = 0 THEN sets + 1 ELSE sets
        /\ res' = [res EXCEPT ![p] = [id |-> g, count |-> 0, auto_release |-> auto]]
  /\ Go(p, "get")
  /\ UNCHANGED <<value, undo, history, mishaps>>

(* Mut: the first operation, that waits for zero, is missing. *)
MutNobodyInGet(g) == TRUE
NobodyInGet(g) == value[g].setval = 0

(* Wait until nobody else is in sem_get(), enter, and count the use. *)
EnterGet(p) ==
  /\ pc[p] = "get" /\ Alive(res[p].id) /\ NobodyInGet(res[p].id)
  /\ SemOp(p, res[p].id, Ops(0, 1, 1))
  /\ Go(p, "count")
  /\ UNCHANGED <<res, history, mishaps>>

(* The semop() fails, which is only a warning. *)
EnterFails(p) ==
  /\ pc[p] = "get" /\ Alive(res[p].id)
  /\ mishaps < MaxMishaps /\ mishaps' = mishaps + 1
  /\ spoiled' = spoiled \cup {res[p].id}
  /\ Go(p, "count")
  /\ UNCHANGED <<kernel, res, holds>>

(* If the set is gone, every call from here on fails, and the script gets a *)
(* resource all the same.                                                   *)
GetGone(p) ==
  /\ pc[p] \in {"get", "count", "setval", "unlock"} /\ ~Alive(res[p].id)
  /\ Go(p, "in")
  /\ UNCHANGED <<kernel, res, history, mishaps>>

OnlyUser(g) == value[g].usage = 1

(* A process that has ended is still counted, its other values are undone. *)
HalfUndone(q, g) == pc[q] = "undo" /\ undo[q][g].usage # 0

(* semctl(GETVAL): am I the only user? *)
GetCount(p) ==
  /\ pc[p] = "count" /\ Alive(res[p].id)
  /\ Go(p, IF OnlyUser(res[p].id) THEN "setval" ELSE "unlock")
  /\ spoiled' = IF \E q \in Process : HalfUndone(q, res[p].id)
                THEN spoiled \cup {res[p].id} ELSE spoiled
  /\ UNCHANGED <<kernel, res, holds, mishaps>>

(* semctl(SETVAL): then max_acquire units are there. *)
SetVal(p) ==
  /\ pc[p] = "setval" /\ Alive(res[p].id)
  /\ value' = [value EXCEPT ![res[p].id].sem = max_acquire]
  /\ undo' = [q \in Process |-> [undo[q] EXCEPT ![res[p].id].sem = 0]]
  /\ Go(p, "unlock")
  /\ UNCHANGED <<current, sets, res, history, mishaps>>

(* Let others into sem_get(). *)
LeaveGet(p) ==
  /\ pc[p] = "unlock" /\ Alive(res[p].id)
  /\ SemOp(p, res[p].id, Ops(0, 0, -1))
  /\ Go(p, "in")
  /\ UNCHANGED <<res, history, mishaps>>

-----------------------------------------------------------------------------
(* sem_acquire() *)
SemAcquire(p) ==
  /\ pc[p] = "in" /\ res[p].count \in 0..(MaxCount - 1)
  /\ Go(p, "acquire")
  /\ UNCHANGED <<kernel, res, history, mishaps>>

Acquired(p) ==
  /\ pc[p] = "acquire" /\ Alive(res[p].id)
  /\ SemOp(p, res[p].id, Ops(-1, 0, 0))
  /\ res' = [res EXCEPT ![p].count = @ + 1]
  /\ holds' = [holds EXCEPT ![p][res[p].id] = @ + 1]
  /\ Go(p, "in")
  /\ UNCHANGED <<spoiled, mishaps>>

(* Mut: semop() is repeated after every error, not only after EINTR. *)
MutGivesUp(p) == FALSE
GivesUp(p) == ~Alive(res[p].id)

AcquireFails(p) ==
  /\ pc[p] = "acquire" /\ GivesUp(p)
  /\ Go(p, "in")
  /\ UNCHANGED <<kernel, res, history, mishaps>>

AcquiredBefore(p) == res[p].count # 0

(* sem_release(); without a set the call fails and count stays. *)
SemRelease(p) ==
  /\ pc[p] = "in" /\ AcquiredBefore(p) /\ Alive(res[p].id)
  /\ SemOp(p, res[p].id, Ops(1, 0, 0))
  /\ res' = [res EXCEPT ![p].count = @ - 1]
  /\ holds' = [holds EXCEPT ![p][res[p].id] = @ - 1]
  /\ UNCHANGED <<pc, spoiled, mishaps>>

(* sem_remove() *)
SemRemove(p) ==
  /\ pc[p] = "in" /\ Alive(res[p].id)
  /\ Remove
  /\ res' = [res EXCEPT ![p].count = -1]
  /\ holds' = [q \in Process |-> [holds[q] EXCEPT ![current] = 0]]
  /\ spoiled' = spoiled \ {current}
  /\ UNCHANGED <<pc, mishaps>>

(* release_sysvsem_sem: the resource is freed, by the script or at the end  *)
(* of its request.  Without auto_release the kernel is not told.            *)
(* Mut: what has been acquired is not given back. *)
MutGivenBack(r) == 0
GivenBack(r) == r.count

ReleaseResource(p) ==
  /\ pc[p] = "in"
  /\ IF res[p].count = -1 \/ ~res[p].auto_release \/ ~Alive(res[p].id)
     THEN UNCHANGED <<kernel, holds>>
     ELSE /\ SemOp(p, res[p].id, Ops(GivenBack(res[p]), -1, 0))
          /\ holds' = [holds EXCEPT ![p][res[p].id] = @ - res[p].count]
  /\ res' = [res EXCEPT ![p] = NoRes]
  /\ Go(p, "out")
  /\ UNCHANGED <<spoiled, mishaps>>

-----------------------------------------------------------------------------
(* The process ends: its script is over, or it dies at any moment.  The     *)
(* kernel adds what it kept, one value after the other ("semaphore undo on   *)
(* process exit is not atomic").                                             *)
Ends(p) ==
  /\ \/ pc[p] = "out" /\ undo[p] # [g \in Set |-> Zero] /\ UNCHANGED mishaps
     \/ pc[p] \notin {"out", "undo"} /\ mishaps < MaxMishaps /\ mishaps' = mishaps + 1
  /\ res' = [res EXCEPT ![p] = NoRes]
  /\ Go(p, "undo")
  /\ UNCHANGED <<kernel, history>>

Max0(n) == IF n < 0 THEN 0 ELSE n
Undo(p, f) ==
  /\ pc[p] = "undo" /\ \E g \in Set : undo[p][g][f] # 0
  /\ value' = [g \in Set |-> [value[g] EXCEPT ![f] = Max0(@ + undo[p][g][f])]]
  /\ undo' = [undo EXCEPT ![p] = [g \in Set |-> [@[g] EXCEPT ![f] = 0]]]
  /\ UNCHANGED <<current, sets, pc, res, history, mishaps>>

Ended(p) ==
  /\ pc[p] = "undo" /\ undo[p] = [g \in Set |-> Zero]
  /\ holds' = [holds EXCEPT ![p] = [g \in Set |-> 0]]
  /\ Go(p, "out")
  /\ UNCHANGED <<kernel, res, spoiled, mishaps>>

-----------------------------------------------------------------------------
InGet(p) == EnterGet(p) \/ EnterFails(p) \/ GetGone(p) \/ GetCount(p) \/ SetVal(p) \/ LeaveGet(p)
Step(p) ==
  \/ SemGet(p, TRUE) \/ SemGet(p, FALSE) \/ InGet(p)
  \/ SemAcquire(p) \/ Acquired(p) \/ AcquireFails(p) \/ SemRelease(p) \/ SemRemove(p)
  \/ ReleaseResource(p) \/ Ends(p) \/ Ended(p) \/ \E f \in Field : Undo(p, f)
Next == \E p \in Process : Step(p)

Spec == Init /\ [][Next]_vars
(* Processes go on and end some day; the kernel wakes who waits if he may     *)
(* proceed; a script frees its resource, at the latest when it is over.       *)
GoesOn(p) ==
  \/ EnterGet(p) \/ GetGone(p) \/ GetCount(p) \/ SetVal(p) \/ LeaveGet(p)
  \/ Acquired(p) \/ AcquireFails(p) \/ ReleaseResource(p) \/ Ended(p)
  \/ \E f \in Field : Undo(p, f)
FairSpec ==
  Spec /\ \A p \in Process : SF_vars(GoesOn(p)) /\ SF_vars(pc[p] = "out" /\ Ends(p))

-----------------------------------------------------------------------------
Sum(f) == FoldSet(LAMBDA p, n : f[p] + n, 0, Process)
Held(g) == Sum([p \in Process |-> holds[p][g]])
Users(g) == {p \in Process : pc[p] \in {"in", "acquire"} /\ Alive(g) /\ res[p].id = g}

(* A set is spoiled if a process counted its users without the lock, because *)
(* a failed semop() is a warning only, or while one that has ended was half  *)
(* undone ("count will be greater than it should be and we won't set         *)
(* max_acquire").                                                            *)

(* "allow max_acquire ... processes to acquire it simultaneously": whoever    *)
(* has the semaphore finds max_acquire units, free or acquired, whatever      *)
(* processes came, went and died before.                                      *)
UnitsConserved ==
  \A g \in Set \ spoiled :
    Users(g) # {} /\ (\A q \in Process : pc[q] # "undo")
      => value[g].sem + Held(g) = max_acquire

(* sem_get() initializes one at a time: "Semaphore 2 (SYSVSEM_SETVAL)       *)
(* serializes the calls to GETVAL SYSVSEM_USAGE and SETVAL SYSVSEM_SEM".     *)
Counting == {"count", "setval", "unlock"}
InitializeOneAtATime ==
  \A p, q \in Process :
    /\ pc[p] \in Counting /\ pc[q] \in Counting
    /\ Alive(res[p].id) /\ res[p].id = res[q].id /\ res[p].id \notin spoiled
    => p = q

(* sem_get() ends, whoever dies in it and whoever keeps the semaphore. *)
GetEnds ==
  \A p \in Process : pc[p] \in Counting \cup {"get"} ~>
    pc[p] \notin Counting \cup {"get"} \/ res[p].id \in spoiled

(* "blocking if necessary": sem_acquire() ends too, unless all units are with *)
(* processes that wait for one themselves.  A process may wait for its own    *)
(* unit: a resource that is freed without auto_release gives nothing back.    *)
Deadlocked(g) ==
  LET holders == {q \in Process : holds[q][g] > 0}
  IN holders # {} /\ \A q \in holders : pc[q] = "acquire"
AcquireEnds ==
  \A p \in Process : pc[p] = "acquire" ~>
    pc[p] # "acquire" \/ Deadlocked(res[p].id) \/ res[p].id \in spoiled
=============================================================================
