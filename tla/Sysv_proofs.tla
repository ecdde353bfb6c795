---------------------------- MODULE Sysv_proofs ----------------------------
(***************************************************************************)
(* Theorems about the semaphores, for any number of processes, units and   *)
(* sets: sem_get() initializes a set in one process at a time, because the *)
(* third semaphore of the set is 1 as long as one process has a record     *)
(* with the kernel that takes it back; and max_acquire units are free or   *)
(* acquired, because the kernel keeps the books of uses and units.         *)
(*                                                                         *)
(* Theorems about the variables in shared memory that scripts use under    *)
(* such a semaphore, for any number of processes, variables and segments   *)
(* of any size: the segment is whole chunks, one per variable, and is a    *)
(* map to the scripts, whoever died, except between two writes.            *)
(***************************************************************************)
EXTENDS SysvSem, SysvShm, FiniteSetTheorems, WellFoundedInduction, TLAPS

USE DEF Go, kernel, history, Set, Field, Zero, NoRes, Alive, Undoable

-----------------------------------------------------------------------------
(* Types.  A set is current for as long as no later one is, the resource of a  *)
(* removed set is marked, and a resource counts no more than its process has. *)
Values == [Field -> Nat]
Records == [Field -> Int]
Resource == [id : 0..MaxSets, count : -1..MaxCount, auto_release : BOOLEAN]
SetsInOrder ==
  /\ current # 0 => current = sets
  /\ \A p \in Process : res[p].id <= sets
  /\ \A p \in Process : res[p].count = -1 => ~Alive(res[p].id)
  /\ \A p \in Process : pc[p] = "acquire" => res[p].count \in 0..(MaxCount - 1)
  /\ \A p \in Process : pc[p] = "undo" => res[p].id = 0
  /\ \A p \in Process : Alive(res[p].id) => res[p].count <= holds[p][res[p].id]
Typed == TypeOK /\ SetsInOrder

LEMMA SemOpTypes ==
  ASSUME TypeOK, NEW p \in Process, NEW g \in Set, NEW added \in Records, SemOp(p, g, added)
  PROVE  /\ value' \in [Set -> Values] /\ undo' \in [Process -> [Set -> Records]]
         /\ \A f \in Field : value'[g][f] = value[g][f] + added[f]
         /\ \A h \in Set : h # g => value'[h] = value[h]
         /\ \A f \in Field : undo'[p][g][f] = undo[p][g][f] - added[f]
         /\ \A q \in Process, h \in Set : q # p \/ h # g => undo'[q][h] = undo[q][h]
         /\ UNCHANGED <<current, sets>>
<1>0. value \in [Set -> Values] /\ undo \in [Process -> [Set -> Records]]
  BY DEF TypeOK, Values, Records
<1> DEFINE v == [f \in Field |-> value[g][f] + added[f]]
           u == [f \in Field |-> undo[p][g][f] - added[f]]
<1>1. value' = [value EXCEPT ![g] = v] /\ undo' = [undo EXCEPT ![p][g] = u]
      /\ UNCHANGED <<current, sets>>
  BY DEF SemOp
<1>2. v \in Values
  <2>1. value[g] \in Values
    BY <1>0
  <2>2. \A f \in Field : value[g][f] \in Nat /\ added[f] \in Int /\ value[g][f] + added[f] >= 0
    BY <2>1 DEF SemOp, MayProceed, Values, Records
  <2>3. \A f \in Field : value[g][f] + added[f] \in Nat
    BY <2>2
  <2>4. QED BY <2>3, Zenon DEF Values
<1>3. u \in Records
  <2>1. undo[p][g] \in Records
    BY <1>0
  <2>2. \A f \in Field : undo[p][g][f] \in Int /\ added[f] \in Int
    BY <2>1 DEF Records
  <2>3. \A f \in Field : undo[p][g][f] - added[f] \in Int
    BY <2>2
  <2>4. QED BY <2>3, Zenon DEF Records
<1>4. \A f \in Field : v[f] = value[g][f] + added[f] /\ u[f] = undo[p][g][f] - added[f]
  OBVIOUS
<1> HIDE DEF v, u
<1>5. value' \in [Set -> Values] /\ value'[g] = v /\ \A h \in Set : h # g => value'[h] = value[h]
  BY <1>0, <1>1, <1>2
<1>6. undo' \in [Process -> [Set -> Records]]
  BY <1>0, <1>1, <1>3
<1>7. undo'[p][g] = u /\ \A q \in Process, h \in Set : q # p \/ h # g => undo'[q][h] = undo[q][h]
  BY <1>0, <1>1
<1>8. QED BY <1>1, <1>4, <1>5, <1>6, <1>7

LEMMA OpsType ==
  \A a, b, c \in Int : /\ Ops(a, b, c) \in Records /\ Ops(a, b, c)["sem"] = a
                       /\ Ops(a, b, c)["usage"] = b /\ Ops(a, b, c)["setval"] = c
BY DEF Ops, Records

LEMMA TypesInit == Init => Typed
<1> USE SemAssumption
<1> SUFFICES ASSUME Init PROVE Typed
  OBVIOUS
<1>1. value \in [Set -> [Field -> Nat]] /\ undo \in [Process -> [Set -> [Field -> Int]]]
  BY DEF Init
<1>2. res \in [Process -> Resource] /\ \A p \in Process : res[p].id = 0 /\ res[p].count = 0
  BY DEF Init, Resource
<1>3. holds \in [Process -> [Set -> Nat]]
  BY DEF Init
<1>4. pc \in [Process -> {"out", "get", "count", "setval", "unlock", "in", "acquire", "undo"}]
      /\ \A p \in Process : pc[p] = "out"
  BY DEF Init
<1>5. TypeOK
  BY <1>1, <1>2, <1>3, <1>4 DEF Init, TypeOK, Resource
<1>6. SetsInOrder
  BY <1>2, <1>4 DEF Init, SetsInOrder
<1>7. QED BY <1>5, <1>6 DEF Typed

LEMMA TypesStep == Typed /\ [Next]_vars => Typed'
<1> SUFFICES ASSUME Typed, [Next]_vars PROVE Typed'
  OBVIOUS
<1> USE SemAssumption
<1>0. /\ current \in 0..MaxSets /\ sets \in 0..MaxSets
      /\ value \in [Set -> Values] /\ undo \in [Process -> [Set -> Records]]
      /\ pc \in [Process -> {"out", "get", "count", "setval", "unlock", "in", "acquire", "undo"}]
      /\ res \in [Process -> Resource] /\ holds \in [Process -> [Set -> Nat]]
      /\ spoiled \subseteq Set /\ mishaps \in 0..MaxMishaps
  BY DEF Typed, TypeOK, Values, Records, Resource
<1>t. ASSUME /\ current' \in 0..MaxSets /\ sets' \in 0..MaxSets
             /\ value' \in [Set -> Values] /\ undo' \in [Process -> [Set -> Records]]
             /\ pc' \in [Process -> {"out", "get", "count", "setval", "unlock", "in", "acquire", "undo"}]
             /\ res' \in [Process -> Resource] /\ holds' \in [Process -> [Set -> Nat]]
             /\ spoiled' \subseteq Set /\ mishaps' \in 0..MaxMishaps
      PROVE  TypeOK'
  BY <1>t DEF TypeOK, Values, Records, Resource
<1>r. \A r \in Resource : r.id \in 0..MaxSets /\ r.count \in -1..MaxCount /\ r.auto_release \in BOOLEAN
  BY DEF Resource
<1>s. ASSUME NEW p \in Process, Alive(res[p].id)
      PROVE  res[p].id \in Set
  BY <1>0, <1>r, <1>s
<1>o. ASSUME NEW p \in Process, Alive(res[p].id), NEW a \in Int, NEW b \in Int, NEW c \in Int,
             SemOp(p, res[p].id, Ops(a, b, c))
      PROVE  /\ value' \in [Set -> Values] /\ undo' \in [Process -> [Set -> Records]]
             /\ UNCHANGED <<current, sets>>
  <2>1. res[p].id \in Set /\ Ops(a, b, c) \in Records /\ TypeOK
    BY <1>o, <1>s, OpsType DEF Typed
  <2>2. QED BY <2>1, <1>o, SemOpTypes
<1>c. ASSUME NEW p \in Process, NEW n \in -1..MaxCount, res' = [res EXCEPT ![p].count = n]
      PROVE  /\ res' \in [Process -> Resource] /\ res'[p].id = res[p].id /\ res'[p].count = n
             /\ \A q \in Process : q # p => res'[q] = res[q]
  <2>1. res[p] \in Resource
    BY <1>0
  <2>2. /\ [res[p] EXCEPT !.count = n] \in Resource
        /\ [res[p] EXCEPT !.count = n].id = res[p].id /\ [res[p] EXCEPT !.count = n].count = n
    BY <2>1 DEF Resource
  <2>3. res' = [res EXCEPT ![p] = [res[p] EXCEPT !.count = n]]
    BY <1>c
  <2>4. QED BY <2>2, <2>3, <1>0
<1>1. ASSUME NEW p \in Process, NEW auto \in BOOLEAN, SemGet(p, auto) PROVE Typed'
  <2> DEFINE g == IF current = 0 THEN sets + 1 ELSE current
  <2>1. /\ current' = g /\ sets' = (IF current = 0 THEN sets + 1 ELSE sets)
        /\ res' = [res EXCEPT ![p] = [id |-> g, count |-> 0, auto_release |-> auto]]
        /\ pc' = [pc EXCEPT ![p] = "get"] /\ UNCHANGED <<value, undo, holds, spoiled, mishaps>>
        /\ current = 0 => sets < MaxSets
    BY <1>1 DEF SemGet
  <2>2. g \in Set /\ current' \in 0..MaxSets /\ sets' \in 0..MaxSets /\ current' = sets'
        /\ sets <= sets'
    BY <2>1, <1>0 DEF Typed, SetsInOrder
  <2>3. [id |-> g, count |-> 0, auto_release |-> auto] \in Resource
    BY <2>2 DEF Resource
  <2> HIDE DEF g
  <2>4. res' \in [Process -> Resource]
    BY <2>1, <2>3, <1>0
  <2>5. TypeOK'
    BY <2>1, <2>2, <2>4, <1>0, <1>t
  <2>6. ASSUME NEW q \in Process
        PROVE  /\ res'[q].id <= sets' /\ (res'[q].count = -1 => ~Alive(res[q].id)')
               /\ (pc'[q] = "acquire" => res'[q].count \in 0..(MaxCount - 1))
               /\ (pc'[q] = "undo" => res'[q].id = 0)
               /\ (Alive(res[q].id)' => res'[q].count <= holds'[q][res'[q].id])
    <3>1. CASE q = p
      <4>1. res'[q].id = g /\ res'[q].count = 0 /\ pc'[q] = "get"
        BY <3>1, <2>1, <1>0
      <4>2. holds[q][g] \in Nat
        BY <2>2, <1>0
      <4>3. QED BY <4>1, <4>2, <2>1, <2>2
    <3>2. CASE q # p
      <4>1. res'[q] = res[q] /\ pc'[q] = pc[q] /\ holds' = holds
        BY <3>2, <2>1, <1>0
      <4>2. res[q].id <= sets /\ res[q].id \in 0..MaxSets
        BY <1>0, <1>r DEF Typed, SetsInOrder
      <4>3. Alive(res[q].id)' => Alive(res[q].id)
        BY <4>1, <4>2, <2>1, <2>2, <1>0 DEF g
      <4>4. QED BY <4>1, <4>2, <4>3, <2>2, <1>0 DEF Typed, SetsInOrder
    <3>3. QED BY <3>1, <3>2
  <2>7. SetsInOrder'
    BY <2>2, <2>6 DEF SetsInOrder
  <2>8. QED BY <2>5, <2>7 DEF Typed
<1>2. ASSUME NEW p \in Process, EnterGet(p) PROVE Typed'
  <2>1. /\ pc' = [pc EXCEPT ![p] = "count"] /\ UNCHANGED <<res, holds, spoiled, mishaps>>
        /\ Alive(res[p].id) /\ SemOp(p, res[p].id, Ops(0, 1, 1))
    BY <1>2 DEF EnterGet
  <2>2. value' \in [Set -> Values] /\ undo' \in [Process -> [Set -> Records]]
        /\ UNCHANGED <<current, sets>>
    <3>1. Alive(res[p].id) /\ SemOp(p, res[p].id, Ops(0, 1, 1))
      BY <2>1
    <3>2. 0 \in Int /\ 1 \in Int
      OBVIOUS
    <3>3. QED BY <3>1, <3>2, <1>o, Zenon
  <2>3. TypeOK'
    BY <2>1, <2>2, <1>0, <1>t
  <2>4. SetsInOrder'
    BY <2>1, <2>2, <1>0 DEF Typed, SetsInOrder
  <2>5. QED BY <2>3, <2>4 DEF Typed
<1>3. ASSUME NEW p \in Process, EnterFails(p) PROVE Typed'
  <2>1. /\ pc' = [pc EXCEPT ![p] = "count"] /\ UNCHANGED <<current, sets, value, undo, res, holds>>
        /\ spoiled' = spoiled \cup {res[p].id} /\ Alive(res[p].id)
        /\ mishaps < MaxMishaps /\ mishaps' = mishaps + 1
    BY <1>3 DEF EnterFails
  <2>2. mishaps' \in 0..MaxMishaps /\ spoiled' \subseteq Set
    BY <2>1, <1>0, <1>s
  <2>3. TypeOK'
    BY <2>1, <2>2, <1>0, <1>t
  <2>4. SetsInOrder'
    BY <2>1, <1>0 DEF Typed, SetsInOrder
  <2>5. QED BY <2>3, <2>4 DEF Typed
<1>4. ASSUME NEW p \in Process, GetGone(p) \/ AcquireFails(p) PROVE Typed'
  <2>1. /\ pc' = [pc EXCEPT ![p] = "in"]
        /\ UNCHANGED <<current, sets, value, undo, res, holds, spoiled, mishaps>>
    BY <1>4 DEF GetGone, AcquireFails
  <2>2. TypeOK'
    BY <2>1, <1>0, <1>t
  <2>3. SetsInOrder'
    BY <2>1, <1>0 DEF Typed, SetsInOrder
  <2>4. QED BY <2>2, <2>3 DEF Typed
<1>5. ASSUME NEW p \in Process, GetCount(p) PROVE Typed'
  <2>1. /\ UNCHANGED <<current, sets, value, undo, res, holds, mishaps>> /\ Alive(res[p].id)
        /\ pc' = [pc EXCEPT ![p] = IF OnlyUser(res[p].id) THEN "setval" ELSE "unlock"]
    BY <1>5 DEF GetCount
  <2>2. spoiled' \subseteq Set
    BY <1>5, <1>0, <1>s DEF GetCount
  <2>3. pc' \in [Process -> {"out", "get", "count", "setval", "unlock", "in", "acquire", "undo"}]
        /\ \A q \in Process : pc'[q] = "acquire" => pc[q] = "acquire"
    BY <2>1, <1>0
  <2>4. TypeOK'
    BY <2>1, <2>2, <2>3, <1>0, <1>t
  <2>5. SetsInOrder'
    BY <2>1, <2>3, <1>0 DEF Typed, SetsInOrder
  <2>6. QED BY <2>4, <2>5 DEF Typed
<1>6. ASSUME NEW p \in Process, SetVal(p) PROVE Typed'
  <2> DEFINE g == res[p].id
  <2>1. /\ UNCHANGED <<current, sets, res, holds, spoiled, mishaps>> /\ Alive(g)
        /\ pc' = [pc EXCEPT ![p] = "unlock"]
        /\ value' = [value EXCEPT ![g].sem = max_acquire]
        /\ undo' = [q \in Process |-> [undo[q] EXCEPT ![g].sem = 0]]
    BY <1>6 DEF SetVal
  <2>2. g \in Set
    BY <2>1, <1>s
  <2>3. value' \in [Set -> Values]
    BY <2>1, <2>2, <1>0 DEF Values
  <2>4. undo' \in [Process -> [Set -> Records]]
    <3>1. \A r \in Records : [r EXCEPT !["sem"] = 0] \in Records
      BY DEF Records
    <3>2. \A q \in Process : [undo[q] EXCEPT ![g].sem = 0] \in [Set -> Records]
      BY <3>1, <2>2, <1>0
    <3>3. QED BY <2>1, <3>2
  <2>5. TypeOK'
    BY <2>1, <2>3, <2>4, <1>0, <1>t
  <2>6. SetsInOrder'
    BY <2>1, <1>0 DEF Typed, SetsInOrder
  <2>7. QED BY <2>5, <2>6 DEF Typed
<1>7. ASSUME NEW p \in Process, LeaveGet(p) PROVE Typed'
  <2>1. /\ pc' = [pc EXCEPT ![p] = "in"] /\ UNCHANGED <<res, holds, spoiled, mishaps>>
        /\ Alive(res[p].id) /\ SemOp(p, res[p].id, Ops(0, 0, -1))
    BY <1>7 DEF LeaveGet
  <2>2. value' \in [Set -> Values] /\ undo' \in [Process -> [Set -> Records]]
        /\ UNCHANGED <<current, sets>>
    <3>1. Alive(res[p].id) /\ SemOp(p, res[p].id, Ops(0, 0, -1))
      BY <2>1
    <3>2. -1 \in Int /\ 0 \in Int
      OBVIOUS
    <3>3. QED BY <3>1, <3>2, <1>o, Zenon
  <2>3. TypeOK'
    BY <2>1, <2>2, <1>0, <1>t
  <2>4. SetsInOrder'
    BY <2>1, <2>2, <1>0 DEF Typed, SetsInOrder
  <2>5. QED BY <2>3, <2>4 DEF Typed
<1>8. ASSUME NEW p \in Process, SemAcquire(p) PROVE Typed'
  <2>1. /\ pc' = [pc EXCEPT ![p] = "acquire"] /\ res[p].count \in 0..(MaxCount - 1)
        /\ UNCHANGED <<current, sets, value, undo, res, holds, spoiled, mishaps>>
    BY <1>8 DEF SemAcquire
  <2>2. TypeOK'
    BY <2>1, <1>0, <1>t
  <2>3. SetsInOrder'
    BY <2>1, <1>0 DEF Typed, SetsInOrder
  <2>4. QED BY <2>2, <2>3 DEF Typed
<1>9. ASSUME NEW p \in Process, Acquired(p) PROVE Typed'
  <2> DEFINE g == res[p].id
  <2>1. /\ pc' = [pc EXCEPT ![p] = "in"] /\ UNCHANGED <<spoiled, mishaps>>
        /\ Alive(g) /\ SemOp(p, g, Ops(-1, 0, 0)) /\ pc[p] = "acquire"
        /\ res' = [res EXCEPT ![p].count = @ + 1]
        /\ holds' = [holds EXCEPT ![p][g] = @ + 1]
    BY <1>9 DEF Acquired
  <2>2. value' \in [Set -> Values] /\ undo' \in [Process -> [Set -> Records]]
        /\ UNCHANGED <<current, sets>>
    <3>1. Alive(res[p].id) /\ SemOp(p, res[p].id, Ops(-1, 0, 0))
      BY <2>1
    <3>2. -1 \in Int /\ 0 \in Int
      OBVIOUS
    <3>3. QED BY <3>1, <3>2, <1>o, Zenon
  <2>3. g \in Set /\ res[p].count \in 0..(MaxCount - 1) /\ res[p].count <= holds[p][g]
    BY <2>1, <1>s DEF Typed, SetsInOrder
  <2>4. res' \in [Process -> Resource] /\ res'[p].id = g /\ res'[p].count = res[p].count + 1
        /\ \A q \in Process : q # p => res'[q] = res[q]
    <3>1. res[p].count + 1 \in -1..MaxCount
      BY <2>3
    <3>2. QED BY <2>1, <3>1, <1>c
  <2>5. holds' \in [Process -> [Set -> Nat]] /\ holds'[p][g] = holds[p][g] + 1
        /\ \A q \in Process : q # p => holds'[q] = holds[q]
    BY <2>1, <2>3, <1>0
  <2>6. TypeOK'
    BY <2>1, <2>2, <2>4, <2>5, <1>0, <1>t
  <2>7. SetsInOrder'
    <3>1. holds[p][g] \in Nat /\ res[p].count \in Int
      BY <2>3, <1>0
    <3>2. QED BY <2>1, <2>2, <2>3, <2>4, <2>5, <3>1, <1>0 DEF Typed, SetsInOrder
  <2>8. QED BY <2>6, <2>7 DEF Typed
<1>10. ASSUME NEW p \in Process, SemRelease(p) PROVE Typed'
  <2> DEFINE g == res[p].id
  <2>1. /\ UNCHANGED <<pc, spoiled, mishaps>>
        /\ Alive(g) /\ SemOp(p, g, Ops(1, 0, 0)) /\ res[p].count # 0 /\ pc[p] = "in"
        /\ res' = [res EXCEPT ![p].count = @ - 1]
        /\ holds' = [holds EXCEPT ![p][g] = @ - 1]
    BY <1>10 DEF SemRelease, AcquiredBefore
  <2>2. value' \in [Set -> Values] /\ undo' \in [Process -> [Set -> Records]]
        /\ UNCHANGED <<current, sets>>
    <3>1. Alive(res[p].id) /\ SemOp(p, res[p].id, Ops(1, 0, 0))
      BY <2>1
    <3>2. 0 \in Int /\ 1 \in Int
      OBVIOUS
    <3>3. QED BY <3>1, <3>2, <1>o, Zenon
  <2>3. g \in Set /\ res[p].count \in 1..MaxCount /\ res[p].count <= holds[p][g]
    <3>1. res[p].count # -1 /\ res[p].count <= holds[p][g]
      BY <2>1 DEF Typed, SetsInOrder
    <3>2. res[p].count \in -1..MaxCount
      BY <1>0, <1>r
    <3>3. res[p].count \in 1..MaxCount
      BY <2>1, <3>1, <3>2
    <3>4. QED BY <2>1, <3>1, <3>3, <1>s
  <2>4. res' \in [Process -> Resource] /\ res'[p].id = g /\ res'[p].count = res[p].count - 1
        /\ \A q \in Process : q # p => res'[q] = res[q]
    <3>1. res[p].count - 1 \in -1..MaxCount
      BY <2>3
    <3>2. QED BY <2>1, <3>1, <1>c
  <2>5. holds' \in [Process -> [Set -> Nat]] /\ holds'[p][g] = holds[p][g] - 1
        /\ \A q \in Process : q # p => holds'[q] = holds[q]
    BY <2>1, <2>3, <1>0
  <2>6. TypeOK'
    BY <2>1, <2>2, <2>4, <2>5, <1>0, <1>t
  <2>7. SetsInOrder'
    <3>1. holds[p][g] \in Nat /\ res[p].count \in Int
      BY <2>3, <1>0
    <3>2. QED BY <2>1, <2>2, <2>3, <2>4, <2>5, <3>1, <1>0 DEF Typed, SetsInOrder
  <2>8. QED BY <2>6, <2>7 DEF Typed
<1>11. ASSUME NEW p \in Process, SemRemove(p) PROVE Typed'
  <2>1. /\ UNCHANGED <<pc, mishaps, sets>> /\ current' = 0 /\ Alive(res[p].id) /\ pc[p] = "in"
        /\ res' = [res EXCEPT ![p].count = -1]
        /\ value' = [value EXCEPT ![current] = Zero]
        /\ undo' = [q \in Process |-> [undo[q] EXCEPT ![current] = Zero]]
        /\ holds' = [q \in Process |-> [holds[q] EXCEPT ![current] = 0]]
        /\ spoiled' = spoiled \ {current}
    BY <1>11 DEF SemRemove, Remove
  <2>2. Zero \in Values /\ Zero \in Records
    BY DEF Values, Records
  <2>3. value' \in [Set -> Values] /\ undo' \in [Process -> [Set -> Records]]
    BY <2>1, <2>2, <1>0
  <2>4. holds' \in [Process -> [Set -> Nat]]
    BY <2>1, <1>0
  <2>5. res' \in [Process -> Resource] /\ res'[p].id = res[p].id
        /\ \A q \in Process : q # p => res'[q] = res[q]
    <3>1. -1 \in -1..MaxCount
      OBVIOUS
    <3>2. QED BY <2>1, <3>1, <1>c
  <2>6. TypeOK'
    BY <2>1, <2>3, <2>4, <2>5, <1>0, <1>t
  <2>7. SetsInOrder'
    BY <2>1, <2>5, <1>0 DEF Typed, SetsInOrder
  <2>8. QED BY <2>6, <2>7 DEF Typed
<1>12. ASSUME NEW p \in Process, ReleaseResource(p) PROVE Typed'
  <2> DEFINE g == res[p].id
  <2>1. /\ UNCHANGED <<spoiled, mishaps>> /\ res' = [res EXCEPT ![p] = NoRes]
        /\ pc' = [pc EXCEPT ![p] = "out"]
    BY <1>12 DEF ReleaseResource
  <2>2. res' \in [Process -> Resource] /\ res'[p] = NoRes
        /\ \A q \in Process : q # p => res'[q] = res[q]
    BY <2>1, <1>0 DEF Resource
  <2>3. /\ UNCHANGED <<current, sets>>
        /\ value' \in [Set -> Values] /\ undo' \in [Process -> [Set -> Records]]
        /\ holds' \in [Process -> [Set -> Nat]]
        /\ \A q \in Process : q # p => holds'[q] = holds[q]
    <3>1. CASE res[p].count = -1 \/ ~res[p].auto_release \/ ~Alive(g)
      BY <3>1, <1>12, <1>0 DEF ReleaseResource
    <3>2. CASE ~(res[p].count = -1 \/ ~res[p].auto_release \/ ~Alive(g))
      <4>1. SemOp(p, g, Ops(res[p].count, -1, 0)) /\ holds' = [holds EXCEPT ![p][g] = @ - res[p].count]
        BY <3>2, <1>12 DEF ReleaseResource, GivenBack
      <4>2. g \in Set /\ res[p].count \in Nat /\ res[p].count <= holds[p][g]
        BY <3>2, <1>0, <1>r, <1>s DEF Typed, SetsInOrder
      <4>3. holds[p][g] \in Nat
        BY <4>2, <1>0
      <4>4. holds[p][g] - res[p].count \in Nat
        BY <4>2, <4>3
      <4>5. holds' \in [Process -> [Set -> Nat]] /\ \A q \in Process : q # p => holds'[q] = holds[q]
        BY <4>1, <4>2, <4>4, <1>0
      <4>6. value' \in [Set -> Values] /\ undo' \in [Process -> [Set -> Records]]
            /\ UNCHANGED <<current, sets>>
        <5>1. Alive(res[p].id) /\ SemOp(p, res[p].id, Ops(res[p].count, -1, 0))
          BY <3>2, <4>1
        <5>2. res[p].count \in Int /\ -1 \in Int /\ 0 \in Int
          BY <4>2
        <5>3. QED BY <5>1, <5>2, <1>o, Zenon
      <4>7. QED BY <4>5, <4>6
    <3>3. QED BY <3>1, <3>2
  <2>4. TypeOK'
    BY <2>1, <2>2, <2>3, <1>0, <1>t
  <2>5. SetsInOrder'
    BY <2>1, <2>2, <2>3, <1>0 DEF Typed, SetsInOrder
  <2>6. QED BY <2>4, <2>5 DEF Typed
<1>13. ASSUME NEW p \in Process, Ends(p) PROVE Typed'
  <2>1. /\ UNCHANGED <<current, sets, value, undo, holds, spoiled>>
        /\ res' = [res EXCEPT ![p] = NoRes] /\ pc' = [pc EXCEPT ![p] = "undo"]
    BY <1>13 DEF Ends
  <2>2. mishaps' \in 0..MaxMishaps
    BY <1>13, <1>0 DEF Ends
  <2>3. res' \in [Process -> Resource] /\ res'[p] = NoRes
        /\ \A q \in Process : q # p => res'[q] = res[q]
    BY <2>1, <1>0 DEF Resource
  <2>4. TypeOK'
    BY <2>1, <2>2, <2>3, <1>0, <1>t
  <2>5. SetsInOrder'
    BY <2>1, <2>3, <1>0 DEF Typed, SetsInOrder
  <2>6. QED BY <2>4, <2>5 DEF Typed
<1>14. ASSUME NEW p \in Process, NEW f \in Field, Undo(p, f) PROVE Typed'
  <2>1. /\ UNCHANGED <<current, sets, pc, res, holds, spoiled, mishaps>>
        /\ value' = [g \in Set |-> [value[g] EXCEPT ![f] = Max0(@ + undo[p][g][f])]]
        /\ undo' = [undo EXCEPT ![p] = [g \in Set |-> [@[g] EXCEPT ![f] = 0]]]
    BY <1>14 DEF Undo
  <2>2. \A g \in Set : value[g] \in Values /\ undo[p][g] \in Records
    BY <1>0
  <2>3. \A g \in Set : Max0(value[g][f] + undo[p][g][f]) \in Nat
    <3>1. \A g \in Set : value[g][f] \in Nat /\ undo[p][g][f] \in Int
      BY <2>2 DEF Values, Records
    <3>2. QED BY <3>1 DEF Max0
  <2>4. \A g \in Set : [value[g] EXCEPT ![f] = Max0(@ + undo[p][g][f])] \in Values
    BY <2>2, <2>3 DEF Values
  <2>5. \A g \in Set : [undo[p][g] EXCEPT ![f] = 0] \in Records
    BY <2>2 DEF Records
  <2>6. value' \in [Set -> Values] /\ undo' \in [Process -> [Set -> Records]]
    BY <2>1, <2>4, <2>5, <1>0
  <2>7. TypeOK'
    BY <2>1, <2>6, <1>0, <1>t
  <2>8. SetsInOrder'
    BY <2>1, <1>0 DEF Typed, SetsInOrder
  <2>9. QED BY <2>7, <2>8 DEF Typed
<1>15. ASSUME NEW p \in Process, Ended(p) PROVE Typed'
  <2>1. /\ UNCHANGED <<current, sets, value, undo, res, spoiled, mishaps>> /\ pc[p] = "undo"
        /\ holds' = [holds EXCEPT ![p] = [g \in Set |-> 0]] /\ pc' = [pc EXCEPT ![p] = "out"]
    BY <1>15 DEF Ended
  <2>2. TypeOK'
    BY <2>1, <1>0, <1>t
  <2>3. SetsInOrder'
    BY <2>1, <1>0 DEF Typed, SetsInOrder
  <2>4. QED BY <2>2, <2>3 DEF Typed
<1>16. CASE UNCHANGED vars
  BY <1>16 DEF vars, Typed, TypeOK, SetsInOrder
<1>17. QED
  BY <1>1, <1>2, <1>3, <1>4, <1>5, <1>6, <1>7, <1>8, <1>9, <1>10, <1>11, <1>12, <1>13, <1>14,
     <1>15, <1>16 DEF Next, Step, InGet

(* The kernel's values and records and the resources of scripts keep their     *)
(* types: no semaphore gets negative, no resource counts more than it may.     *)
THEOREM SemTypeCorrect == Spec => []TypeOK
<1>1. Typed => TypeOK
  BY DEF Typed
<1>2. QED BY <1>1, TypesInit, TypesStep, PTL DEF Spec

-----------------------------------------------------------------------------
(* One at a time.  The third semaphore of the current set is 1 if a process    *)
(* has a record that takes it back, at most one process has one, and it is the *)
(* one that counts the users or one the kernel is undoing.                    *)
V(g) == value[g]["setval"]
U(q, g) == undo[q][g]["setval"]
In(q, g) == pc[q] \in Counting /\ res[q].id = g
Recorded(g) ==
  /\ \A q \in Process : U(q, g) \in {0, -1} /\ (In(q, g) => U(q, g) = -1)
  /\ \A q \in Process : U(q, g) = -1 => V(g) = 1 /\ (pc[q] = "undo" \/ In(q, g))
  /\ \A q, r \in Process : U(q, g) = -1 /\ U(r, g) = -1 => q = r
OneRecord == current # 0 /\ current \notin spoiled => Recorded(current)
Fresh == \A g \in Set : g > sets => V(g) = 0 /\ \A q \in Process : U(q, g) = 0
Serial == OneRecord /\ Fresh

LEMMA SerialInit == Init => Serial
BY DEF Init, Serial, OneRecord, Fresh, V, U

(* A step that leaves the third semaphores and their records alone, and does  *)
(* not take the process with the record out of sem_get().                     *)
LEMMA QuietStep ==
  ASSUME Typed, Serial, UNCHANGED <<current, sets>>, spoiled \subseteq spoiled',
         \A g \in Set : V(g)' = V(g) /\ \A q \in Process : U(q, g)' = U(q, g),
         \A q \in Process :
           current # 0 /\ current \notin spoiled =>
             /\ In(q, current)' => In(q, current)
             /\ U(q, current) = -1 => pc'[q] = "undo" \/ In(q, current)'
  PROVE  Serial'
<1>1. Fresh'
  BY DEF Serial, Fresh
<1>2. OneRecord'
  <2>1. SUFFICES ASSUME current # 0, current \notin spoiled PROVE Recorded(current)'
    BY DEF OneRecord
  <2>2. current \in Set /\ Recorded(current)
    BY <2>1 DEF Serial, OneRecord, Typed, TypeOK
  <2>3. V(current)' = V(current) /\ \A q \in Process : U(q, current)' = U(q, current)
    BY <2>2
  <2>4. \A q \in Process : /\ In(q, current)' => In(q, current)
                           /\ U(q, current) = -1 => pc'[q] = "undo" \/ In(q, current)'
    BY <2>1
  <2>5. QED BY <2>2, <2>3, <2>4 DEF Recorded
<1>3. QED BY <1>1, <1>2 DEF Serial

(* What a call of semop() on the current set does to its third semaphore. *)
LEMMA SemOpSetval ==
  ASSUME Typed, NEW p \in Process, Alive(res[p].id), NEW a \in Int, NEW b \in Int, NEW c \in Int,
         SemOp(p, res[p].id, Ops(a, b, c))
  PROVE  /\ res[p].id = current /\ current \in Set /\ UNCHANGED <<current, sets>>
         /\ V(current)' = V(current) + c /\ U(p, current)' = U(p, current) - c
         /\ \A h \in Set : h # current => V(h)' = V(h)
         /\ \A q \in Process, h \in Set : q # p \/ h # current => U(q, h)' = U(q, h)
         /\ V(current) \in Nat /\ \A q \in Process : U(q, current) \in Int
<1>1. res[p].id = current /\ current \in Set /\ Ops(a, b, c) \in Records
      /\ Ops(a, b, c)["setval"] = c
  BY OpsType DEF Typed, TypeOK
<1>2. SemOp(p, current, Ops(a, b, c)) /\ TypeOK
  BY <1>1 DEF Typed
<1>3. /\ \A f \in Field : value'[current][f] = value[current][f] + Ops(a, b, c)[f]
      /\ \A h \in Set : h # current => value'[h] = value[h]
      /\ \A f \in Field : undo'[p][current][f] = undo[p][current][f] - Ops(a, b, c)[f]
      /\ \A q \in Process, h \in Set : q # p \/ h # current => undo'[q][h] = undo[q][h]
      /\ UNCHANGED <<current, sets>>
  BY <1>1, <1>2, SemOpTypes, Zenon
<1>4. V(current) \in Nat /\ \A q \in Process : U(q, current) \in Int
  <2>1. value \in [Set -> Values] /\ undo \in [Process -> [Set -> Records]]
    BY DEF Typed, TypeOK, Values, Records
  <2>2. value[current] \in Values /\ \A q \in Process : undo[q][current] \in Records
    BY <1>1, <2>1
  <2>3. QED BY <2>2 DEF V, U, Values, Records
<1>5. "setval" \in Field
  OBVIOUS
<1>6. value'[current]["setval"] = value[current]["setval"] + c
      /\ undo'[p][current]["setval"] = undo[p][current]["setval"] - c
  BY <1>1, <1>3, <1>5
<1>7. QED BY <1>1, <1>3, <1>4, <1>6 DEF V, U

LEMMA SemOpQuiet ==
  ASSUME Typed, NEW p \in Process, Alive(res[p].id), NEW a \in Int, NEW b \in Int,
         SemOp(p, res[p].id, Ops(a, b, 0))
  PROVE  /\ UNCHANGED <<current, sets>>
         /\ \A g \in Set : V(g)' = V(g) /\ \A q \in Process : U(q, g)' = U(q, g)
<1>1. 0 \in Int
  OBVIOUS
<1>2. /\ current \in Set /\ UNCHANGED <<current, sets>>
      /\ V(current)' = V(current) + 0 /\ U(p, current)' = U(p, current) - 0
      /\ \A h \in Set : h # current => V(h)' = V(h)
      /\ \A q \in Process, h \in Set : q # p \/ h # current => U(q, h)' = U(q, h)
      /\ V(current) \in Nat /\ \A q \in Process : U(q, current) \in Int
  BY <1>1, SemOpSetval, Zenon
<1>3. V(current)' = V(current) /\ U(p, current)' = U(p, current)
  BY <1>2
<1>4. QED BY <1>2, <1>3

LEMMA SerialStep == Typed /\ Serial /\ [Next]_vars => Serial'
<1> SUFFICES ASSUME Typed, Serial, [Next]_vars PROVE Serial'
  OBVIOUS
<1> USE SemAssumption
<1>0. /\ current \in 0..MaxSets /\ sets \in 0..MaxSets
      /\ value \in [Set -> Values] /\ undo \in [Process -> [Set -> Records]]
      /\ pc \in [Process -> {"out", "get", "count", "setval", "unlock", "in", "acquire", "undo"}]
      /\ res \in [Process -> Resource]
  BY DEF Typed, TypeOK, Values, Records, Resource
<1>i. current # 0 /\ current \notin spoiled => current \in Set /\ Recorded(current)
  BY <1>0 DEF Serial, OneRecord
<1>e. ASSUME NEW p \in Process, NEW n, res' = [res EXCEPT ![p].count = n]
      PROVE  \A q \in Process : res'[q].id = res[q].id
  BY <1>e, <1>0 DEF Resource
<1>1. ASSUME NEW p \in Process, NEW auto \in BOOLEAN, SemGet(p, auto) PROVE Serial'
  <2> DEFINE g == IF current = 0 THEN sets + 1 ELSE current
  <2>1. /\ current' = g /\ sets' = (IF current = 0 THEN sets + 1 ELSE sets)
        /\ res' = [res EXCEPT ![p] = [id |-> g, count |-> 0, auto_release |-> auto]]
        /\ pc[p] = "out" /\ pc' = [pc EXCEPT ![p] = "get"] /\ UNCHANGED <<value, undo, spoiled>>
        /\ current = 0 => sets < MaxSets
    BY <1>1 DEF SemGet
  <2>2. \A h \in Set : V(h)' = V(h) /\ \A q \in Process : U(q, h)' = U(q, h)
    BY <2>1 DEF V, U
  <2>3. ~(pc'[p] \in Counting)
        /\ \A q \in Process : q # p => pc'[q] = pc[q] /\ res'[q] = res[q]
    BY <2>1, <1>0 DEF Counting
  <2>4. CASE current # 0
    <3>1. UNCHANGED <<current, sets>>
      BY <2>1, <2>4
    <3>2. \A q \in Process : q # p => pc'[q] = pc[q] /\ (In(q, current)' <=> In(q, current))
      BY <2>3, <3>1 DEF In
    <3>3. ~In(p, current) /\ ~In(p, current)' /\ pc[p] # "undo"
      BY <2>1, <2>3 DEF In, Counting
    <3>4. \A q \in Process :
           current # 0 /\ current \notin spoiled =>
             /\ In(q, current)' => In(q, current)
             /\ U(q, current) = -1 => pc'[q] = "undo" \/ In(q, current)'
      BY <3>2, <3>3, <1>i DEF Recorded
    <3>5. spoiled \subseteq spoiled'
      BY <2>1
    <3>6. QED BY <2>2, <3>1, <3>4, <3>5, QuietStep
  <2>5. CASE current = 0
    <3>1. current' = sets + 1 /\ sets' = sets + 1 /\ sets + 1 \in Set
      BY <2>1, <2>5, <1>0
    <3>2. \A h \in Set : h > sets' => h > sets
      BY <3>1, <1>0
    <3>3. Fresh'
      BY <2>2, <3>2 DEF Serial, Fresh
    <3>4. V(current)' = 0 /\ \A q \in Process : U(q, current)' = 0
      <4>1. sets + 1 > sets
        BY <1>0
      <4>2. V(sets + 1) = 0 /\ \A q \in Process : U(q, sets + 1) = 0
        BY <3>1, <4>1 DEF Serial, Fresh
      <4>3. QED BY <2>1, <3>1, <4>2 DEF V, U
    <3>5. \A q \in Process : ~(pc'[q] \in Counting /\ res'[q].id = sets + 1)
      <4>1. TAKE q \in Process
      <4>2. res[q].id \in Int /\ res[q].id <= sets
        BY <1>0 DEF Typed, SetsInOrder, Resource
      <4>3. QED BY <4>2, <2>3, <1>0
    <3>6. Recorded(current)'
      BY <3>1, <3>4, <3>5 DEF Recorded, In
    <3>7. QED BY <3>3, <3>6 DEF Serial, OneRecord
  <2>6. QED BY <2>4, <2>5
<1>2. ASSUME NEW p \in Process, EnterGet(p) PROVE Serial'
  <2>1. /\ pc' = [pc EXCEPT ![p] = "count"] /\ UNCHANGED <<res, spoiled>>
        /\ Alive(res[p].id) /\ SemOp(p, res[p].id, Ops(0, 1, 1)) /\ V(res[p].id) = 0
    BY <1>2 DEF EnterGet, NobodyInGet, V
  <2>2. 0 \in Int /\ 1 \in Int
    OBVIOUS
  <2>3. /\ res[p].id = current /\ current \in Set /\ UNCHANGED <<current, sets>>
        /\ V(current)' = V(current) + 1 /\ U(p, current)' = U(p, current) - 1
        /\ \A h \in Set : h # current => V(h)' = V(h)
        /\ \A q \in Process, h \in Set : q # p \/ h # current => U(q, h)' = U(q, h)
        /\ V(current) \in Nat /\ \A q \in Process : U(q, current) \in Int
    BY <2>1, <2>2, SemOpSetval, Zenon
  <2>4. Fresh'
    BY <2>3, <1>0 DEF Serial, Fresh, Typed, SetsInOrder
  <2>5. ASSUME current \notin spoiled PROVE Recorded(current)'
    <3>1. Recorded(current) /\ V(current) = 0
      BY <2>1, <2>3, <2>5, <1>i
    <3>2. \A q \in Process : U(q, current) = 0
      BY <3>1 DEF Recorded
    <3>3. V(current)' = 1 /\ U(p, current)' = -1
          /\ \A q \in Process : q # p => U(q, current)' = 0
      BY <2>3, <3>1, <3>2
    <3>4. In(p, current)' /\ \A q \in Process : q # p => (In(q, current)' <=> In(q, current))
      BY <2>1, <2>3, <1>0 DEF In, Counting
    <3>5. \A q \in Process : ~In(q, current)
      BY <3>1, <3>2 DEF Recorded
    <3>6. QED BY <3>3, <3>4, <3>5 DEF Recorded
  <2>6. QED BY <2>1, <2>3, <2>4, <2>5 DEF Serial, OneRecord
<1>3. ASSUME NEW p \in Process, EnterFails(p) PROVE Serial'
  <2>1. /\ UNCHANGED <<current, sets, value, undo>>
        /\ spoiled' = spoiled \cup {res[p].id} /\ Alive(res[p].id)
    BY <1>3 DEF EnterFails
  <2>2. Fresh'
    BY <2>1 DEF Serial, Fresh, V, U
  <2>3. current' \in spoiled'
    BY <2>1
  <2>4. QED BY <2>2, <2>3 DEF Serial, OneRecord
<1>4. ASSUME NEW p \in Process, GetGone(p) PROVE Serial'
  <2>1. /\ pc' = [pc EXCEPT ![p] = "in"] /\ ~Alive(res[p].id) /\ pc[p] # "undo"
        /\ UNCHANGED <<current, sets, value, undo, res, spoiled>>
    BY <1>4 DEF GetGone
  <2>2. \A q \in Process :
           current # 0 /\ current \notin spoiled =>
             /\ In(q, current)' => In(q, current)
             /\ U(q, current) = -1 => pc'[q] = "undo" \/ In(q, current)'
    BY <2>1, <1>i, <1>0 DEF Recorded, In, Counting
  <2>3. QED BY <2>1, <2>2, QuietStep DEF V, U
<1>5. ASSUME NEW p \in Process, GetCount(p) PROVE Serial'
  <2>1. /\ UNCHANGED <<current, sets, value, undo, res>> /\ pc[p] = "count"
        /\ pc' = [pc EXCEPT ![p] = IF OnlyUser(res[p].id) THEN "setval" ELSE "unlock"]
        /\ spoiled \subseteq spoiled'
    BY <1>5 DEF GetCount
  <2>2. \A q \in Process : (In(q, current)' <=> In(q, current)) /\ (pc'[q] = "undo" <=> pc[q] = "undo")
    BY <2>1, <1>0 DEF In, Counting
  <2>3. \A q \in Process :
           current # 0 /\ current \notin spoiled =>
             /\ In(q, current)' => In(q, current)
             /\ U(q, current) = -1 => pc'[q] = "undo" \/ In(q, current)'
    BY <2>2, <1>i DEF Recorded
  <2>4. QED BY <2>1, <2>3, QuietStep DEF V, U
<1>6. ASSUME NEW p \in Process, SetVal(p) PROVE Serial'
  <2>1. /\ UNCHANGED <<current, sets, res, spoiled>> /\ pc[p] = "setval"
        /\ pc' = [pc EXCEPT ![p] = "unlock"]
        /\ value' = [value EXCEPT ![res[p].id].sem = max_acquire]
        /\ undo' = [q \in Process |-> [undo[q] EXCEPT ![res[p].id].sem = 0]]
    BY <1>6 DEF SetVal
  <2>2. \A h \in Set : V(h)' = V(h)
    BY <2>1, <1>0 DEF V, Values
  <2>3. \A q \in Process, h \in Set : U(q, h)' = U(q, h)
    <3>1. TAKE q \in Process, h \in Set
    <3>2. undo'[q] = [undo[q] EXCEPT ![res[p].id].sem = 0] /\ undo[q] \in [Set -> Records]
      BY <2>1, <1>0
    <3>3. QED BY <3>2 DEF U, Records
  <2>4. \A q \in Process : (In(q, current)' <=> In(q, current)) /\ (pc'[q] = "undo" <=> pc[q] = "undo")
    BY <2>1, <1>0 DEF In, Counting
  <2>5. \A q \in Process :
           current # 0 /\ current \notin spoiled =>
             /\ In(q, current)' => In(q, current)
             /\ U(q, current) = -1 => pc'[q] = "undo" \/ In(q, current)'
    BY <2>4, <1>i DEF Recorded
  <2>6. QED BY <2>1, <2>2, <2>3, <2>5, QuietStep
<1>7. ASSUME NEW p \in Process, LeaveGet(p) PROVE Serial'
  <2>1. /\ pc' = [pc EXCEPT ![p] = "in"] /\ UNCHANGED <<res, spoiled>> /\ pc[p] = "unlock"
        /\ Alive(res[p].id) /\ SemOp(p, res[p].id, Ops(0, 0, -1))
    BY <1>7 DEF LeaveGet
  <2>2. 0 \in Int /\ -1 \in Int
    OBVIOUS
  <2>3. /\ res[p].id = current /\ current \in Set /\ UNCHANGED <<current, sets>>
        /\ V(current)' = V(current) + (-1) /\ U(p, current)' = U(p, current) - (-1)
        /\ \A h \in Set : h # current => V(h)' = V(h)
        /\ \A q \in Process, h \in Set : q # p \/ h # current => U(q, h)' = U(q, h)
        /\ V(current) \in Nat /\ \A q \in Process : U(q, current) \in Int
    BY <2>1, <2>2, SemOpSetval, Zenon
  <2>4. Fresh'
    BY <2>3, <1>0 DEF Serial, Fresh, Typed, SetsInOrder
  <2>5. ASSUME current \notin spoiled PROVE Recorded(current)'
    <3>1. Recorded(current) /\ In(p, current)
      BY <2>1, <2>3, <2>5, <1>i DEF In, Counting
    <3>2. U(p, current) = -1 /\ \A q \in Process : q # p => U(q, current) = 0
      BY <3>1 DEF Recorded
    <3>3. \A q \in Process : U(q, current)' = 0
      BY <2>3, <3>2
    <3>4. ~In(p, current)' /\ \A q \in Process : q # p => (In(q, current)' <=> In(q, current))
      BY <2>1, <2>3, <1>0 DEF In, Counting
    <3>5. \A q \in Process : q # p => ~In(q, current)
      BY <3>1, <3>2 DEF Recorded
    <3>6. \A q \in Process : ~In(q, current)'
      BY <3>4, <3>5
    <3>7. QED BY <3>3, <3>6 DEF Recorded
  <2>6. QED BY <2>1, <2>3, <2>4, <2>5 DEF Serial, OneRecord
<1>8. ASSUME NEW p \in Process, SemAcquire(p) \/ AcquireFails(p) PROVE Serial'
  <2>1. /\ pc[p] \in {"in", "acquire"} /\ pc' \in {[pc EXCEPT ![p] = "acquire"], [pc EXCEPT ![p] = "in"]}
        /\ UNCHANGED <<current, sets, value, undo, res, spoiled>>
    BY <1>8 DEF SemAcquire, AcquireFails
  <2>2. \A q \in Process : (In(q, current)' <=> In(q, current)) /\ (pc'[q] = "undo" <=> pc[q] = "undo")
    BY <2>1, <1>0 DEF In, Counting
  <2>3. \A q \in Process :
           current # 0 /\ current \notin spoiled =>
             /\ In(q, current)' => In(q, current)
             /\ U(q, current) = -1 => pc'[q] = "undo" \/ In(q, current)'
    BY <2>2, <1>i DEF Recorded
  <2>4. QED BY <2>1, <2>3, QuietStep DEF V, U
<1>9. ASSUME NEW p \in Process, Acquired(p) \/ SemRelease(p) PROVE Serial'
  <2>1. /\ UNCHANGED spoiled /\ Alive(res[p].id) /\ pc[p] \in {"in", "acquire"}
        /\ pc' = pc \/ pc' = [pc EXCEPT ![p] = "in"]
        /\ SemOp(p, res[p].id, Ops(-1, 0, 0)) \/ SemOp(p, res[p].id, Ops(1, 0, 0))
    BY <1>9 DEF Acquired, SemRelease
  <2>2. \A q \in Process : res'[q].id = res[q].id
    <3>1. \E n : res' = [res EXCEPT ![p].count = n]
      BY <1>9 DEF Acquired, SemRelease
    <3>2. QED BY <3>1, <1>e
  <2>3. 0 \in Int /\ 1 \in Int /\ -1 \in Int
    OBVIOUS
  <2>4. /\ UNCHANGED <<current, sets>>
        /\ \A g \in Set : V(g)' = V(g) /\ \A q \in Process : U(q, g)' = U(q, g)
    BY <2>1, <2>3, SemOpQuiet, Zenon
  <2>5. \A q \in Process : (In(q, current)' <=> In(q, current)) /\ (pc'[q] = "undo" <=> pc[q] = "undo")
    BY <2>1, <2>2, <2>4, <1>0 DEF In, Counting
  <2>6. \A q \in Process :
           current # 0 /\ current \notin spoiled =>
             /\ In(q, current)' => In(q, current)
             /\ U(q, current) = -1 => pc'[q] = "undo" \/ In(q, current)'
    BY <2>5, <1>i DEF Recorded
  <2>7. spoiled \subseteq spoiled'
    BY <2>1
  <2>8. QED BY <2>4, <2>6, <2>7, QuietStep
<1>10. ASSUME NEW p \in Process, SemRemove(p) PROVE Serial'
  <2>1. /\ UNCHANGED sets /\ current' = 0 /\ current # 0
        /\ value' = [value EXCEPT ![current] = Zero]
        /\ undo' = [q \in Process |-> [undo[q] EXCEPT ![current] = Zero]]
    BY <1>10 DEF SemRemove, Remove
  <2>2. current = sets
    BY <2>1 DEF Typed, SetsInOrder
  <2>3. \A h \in Set : h > sets => V(h)' = V(h) /\ \A q \in Process : U(q, h)' = U(q, h)
    <3>1. \A h \in Set : h > sets => h # current
      BY <2>2, <1>0
    <3>2. \A h \in Set : h # current =>
            value'[h] = value[h] /\ \A q \in Process : undo'[q][h] = undo[q][h]
      BY <2>1, <1>0
    <3>3. QED BY <3>1, <3>2 DEF V, U
  <2>4. Fresh'
    BY <2>1, <2>3 DEF Serial, Fresh
  <2>5. QED BY <2>1, <2>4 DEF Serial, OneRecord
<1>11. ASSUME NEW p \in Process, ReleaseResource(p) PROVE Serial'
  <2>1. /\ UNCHANGED spoiled /\ res' = [res EXCEPT ![p] = NoRes]
        /\ pc[p] = "in" /\ pc' = [pc EXCEPT ![p] = "out"]
    BY <1>11 DEF ReleaseResource
  <2>2. /\ UNCHANGED <<current, sets>>
        /\ \A g \in Set : V(g)' = V(g) /\ \A q \in Process : U(q, g)' = U(q, g)
    <3>1. CASE res[p].count = -1 \/ ~res[p].auto_release \/ ~Alive(res[p].id)
      BY <3>1, <1>11 DEF ReleaseResource, V, U
    <3>2. CASE ~(res[p].count = -1 \/ ~res[p].auto_release \/ ~Alive(res[p].id))
      <4>1. SemOp(p, res[p].id, Ops(res[p].count, -1, 0)) /\ Alive(res[p].id)
        BY <3>2, <1>11 DEF ReleaseResource, GivenBack
      <4>2. res[p].count \in Int /\ -1 \in Int
        BY <1>0 DEF Resource
      <4>3. QED BY <4>1, <4>2, SemOpQuiet, Zenon
    <3>3. QED BY <3>1, <3>2
  <2>3. \A q \in Process : (In(q, current)' <=> In(q, current)) /\ (pc'[q] = "undo" <=> pc[q] = "undo")
    BY <2>1, <2>2, <1>0 DEF In, Counting
  <2>4. \A q \in Process :
           current # 0 /\ current \notin spoiled =>
             /\ In(q, current)' => In(q, current)
             /\ U(q, current) = -1 => pc'[q] = "undo" \/ In(q, current)'
    BY <2>3, <1>i DEF Recorded
  <2>5. spoiled \subseteq spoiled'
    BY <2>1
  <2>6. QED BY <2>2, <2>4, <2>5, QuietStep
<1>12. ASSUME NEW p \in Process, Ends(p) PROVE Serial'
  <2>1. /\ UNCHANGED <<current, sets, value, undo, spoiled>>
        /\ res' = [res EXCEPT ![p] = NoRes] /\ pc' = [pc EXCEPT ![p] = "undo"]
    BY <1>12 DEF Ends
  <2>2. pc'[p] = "undo" /\ ~In(p, current)'
        /\ \A q \in Process : q # p => pc'[q] = pc[q] /\ (In(q, current)' <=> In(q, current))
    BY <2>1, <1>0 DEF In, Counting
  <2>3. \A q \in Process :
           current # 0 /\ current \notin spoiled =>
             /\ In(q, current)' => In(q, current)
             /\ U(q, current) = -1 => pc'[q] = "undo" \/ In(q, current)'
    BY <2>2, <1>i DEF Recorded
  <2>4. QED BY <2>1, <2>3, QuietStep DEF V, U
<1>13. ASSUME NEW p \in Process, NEW f \in Field, Undo(p, f) PROVE Serial'
  <2>1. /\ UNCHANGED <<current, sets, pc, res, spoiled>>
        /\ value' = [g \in Set |-> [value[g] EXCEPT ![f] = Max0(@ + undo[p][g][f])]]
        /\ undo' = [undo EXCEPT ![p] = [g \in Set |-> [@[g] EXCEPT ![f] = 0]]]
        /\ pc[p] = "undo"
    BY <1>13 DEF Undo
  <2>2. \A g \in Set : value[g] \in Values /\ \A q \in Process : undo[q][g] \in Records
    BY <1>0
  <2>3. \A q \in Process, g \in Set : q # p => U(q, g)' = U(q, g)
    BY <2>1, <1>0 DEF U
  <2>4. \A g \in Set : value'[g] = [value[g] EXCEPT ![f] = Max0(value[g][f] + undo[p][g][f])]
                       /\ undo'[p][g] = [undo[p][g] EXCEPT ![f] = 0]
    BY <2>1, <1>0
  <2>e. \A g \in Set, h \in Field :
          /\ value'[g][h] = IF h = f THEN Max0(value[g][f] + undo[p][g][f]) ELSE value[g][h]
          /\ undo'[p][g][h] = IF h = f THEN 0 ELSE undo[p][g][h]
    <3>1. TAKE g \in Set, h \in Field
    <3>2. value[g] \in Values /\ undo[p][g] \in Records
      BY <2>2
    <3>3. QED BY <2>4, <3>2, Zenon DEF Values, Records
  <2>5. CASE f # "setval"
    <3>1. \A g \in Set : V(g)' = V(g) /\ U(p, g)' = U(p, g)
      BY <2>e, <2>5 DEF V, U
    <3>2. \A q \in Process : (In(q, current)' <=> In(q, current)) /\ pc'[q] = pc[q]
      BY <2>1 DEF In
    <3>3. \A q \in Process :
           current # 0 /\ current \notin spoiled =>
             /\ In(q, current)' => In(q, current)
             /\ U(q, current) = -1 => pc'[q] = "undo" \/ In(q, current)'
      BY <3>2, <1>i DEF Recorded
    <3>4. spoiled \subseteq spoiled' /\ UNCHANGED <<current, sets>>
      BY <2>1
    <3>5. \A g \in Set : V(g)' = V(g) /\ \A q \in Process : U(q, g)' = U(q, g)
      BY <3>1, <2>3
    <3>6. QED BY <3>3, <3>4, <3>5, QuietStep
  <2>6. CASE f = "setval"
    <3>1. \A g \in Set : V(g)' = Max0(V(g) + U(p, g)) /\ U(p, g)' = 0
      BY <2>e, <2>6 DEF V, U
    <3>2. \A g \in Set : V(g) = 0 /\ U(p, g) = 0 => V(g)' = 0
      BY <3>1 DEF Max0
    <3>3. Fresh'
      BY <2>1, <2>3, <3>1, <3>2 DEF Serial, Fresh
    <3>4. ASSUME current # 0, current \notin spoiled PROVE Recorded(current)'
      <4>1. current \in Set /\ Recorded(current) /\ V(current) \in Nat
        BY <3>4, <1>i, <2>2 DEF V, Values
      <4>2. \A q \in Process : In(q, current)' <=> In(q, current)
        BY <2>1 DEF In
      <4>3. ~In(p, current)
        BY <2>1 DEF In, Counting
      <4>4. U(p, current)' = 0 /\ \A q \in Process : q # p => U(q, current)' = U(q, current)
        BY <4>1, <2>1, <2>3, <3>1
      <4>5. ASSUME NEW q \in Process, U(q, current)' = -1
            PROVE  q # p /\ U(q, current) = -1 /\ V(current)' = 1
        <5>1. q # p /\ U(q, current) = -1
          BY <4>4, <4>5
        <5>2. U(p, current) = 0 /\ V(current) = 1
          BY <4>1, <5>1 DEF Recorded
        <5>3. Max0(1 + 0) = 1
          BY DEF Max0
        <5>4. QED BY <5>1, <5>2, <5>3, <4>1, <3>1, <2>1
      <4>6. \A q \in Process : U(q, current)' \in {0, -1} /\ (In(q, current)' => U(q, current)' = -1)
        BY <4>1, <4>2, <4>3, <4>4 DEF Recorded
      <4>7. \A q \in Process : U(q, current)' = -1 => V(current)' = 1 /\ (pc'[q] = "undo" \/ In(q, current)')
        BY <4>1, <4>2, <4>5, <2>1 DEF Recorded
      <4>8. \A q, r \in Process : U(q, current)' = -1 /\ U(r, current)' = -1 => q = r
        BY <4>1, <4>5 DEF Recorded
      <4>9. QED BY <4>6, <4>7, <4>8 DEF Recorded
    <3>5. QED BY <2>1, <3>3, <3>4 DEF Serial, OneRecord
  <2>7. QED BY <2>5, <2>6
<1>14. ASSUME NEW p \in Process, Ended(p) PROVE Serial'
  <2>1. /\ UNCHANGED <<current, sets, value, undo, res, spoiled>> /\ pc[p] = "undo"
        /\ undo[p] = [g \in Set |-> Zero] /\ pc' = [pc EXCEPT ![p] = "out"]
    BY <1>14 DEF Ended
  <2>2. \A g \in Set : U(p, g) = 0
    BY <2>1 DEF U
  <2>3. \A q \in Process :
           current # 0 /\ current \notin spoiled =>
             /\ In(q, current)' => In(q, current)
             /\ U(q, current) = -1 => pc'[q] = "undo" \/ In(q, current)'
    <3>1. TAKE q \in Process
    <3>2. CASE q = p
      BY <3>2, <2>1, <2>2, <1>i, <1>0 DEF In, Counting
    <3>3. CASE q # p
      <4>1. pc'[q] = pc[q] /\ (In(q, current)' <=> In(q, current))
        BY <3>3, <2>1, <1>0 DEF In
      <4>2. QED BY <4>1, <1>i DEF Recorded
    <3>4. QED BY <3>2, <3>3
  <2>4. QED BY <2>1, <2>3, QuietStep DEF V, U
<1>15. CASE UNCHANGED vars
  BY <1>15 DEF vars, Serial, OneRecord, Fresh, Recorded, V, U, In
<1>16. QED
  BY <1>1, <1>2, <1>3, <1>4, <1>5, <1>6, <1>7, <1>8, <1>9, <1>10, <1>11, <1>12, <1>13, <1>14,
     <1>15 DEF Next, Step, InGet

(* sem_get() counts the users of a semaphore and initializes it in one process *)
(* at a time, whoever dies there and however the kernel undoes its operations.*)
THEOREM InitializesAlone == Spec => []InitializeOneAtATime
<1>1. Typed /\ Serial => InitializeOneAtATime
  <2> SUFFICES ASSUME Typed, Serial, NEW p \in Process, NEW q \in Process,
                      pc[p] \in Counting, pc[q] \in Counting, Alive(res[p].id),
                      res[p].id = res[q].id, res[p].id \notin spoiled
               PROVE  p = q
    BY DEF InitializeOneAtATime
  <2>1. current # 0 /\ current \notin spoiled /\ In(p, current) /\ In(q, current)
    BY DEF In
  <2>2. Recorded(current)
    BY <2>1 DEF Serial, OneRecord
  <2>3. QED BY <2>1, <2>2 DEF Recorded
<1>2. QED BY <1>1, TypesInit, TypesStep, SerialInit, SerialStep, PTL DEF Spec

-----------------------------------------------------------------------------
(* Every set of numbers that is not empty has a least one. *)
LEMMA LeastNumber == \A T \in SUBSET Nat : T # {} => \E x \in T : \A y \in T : x <= y
<1> SUFFICES ASSUME NEW T \in SUBSET Nat, T # {} PROVE \E x \in T : \A y \in T : x <= y
  OBVIOUS
<1>1. \E x \in T : \A y \in T : <<y, x>> \notin OpToRel(<, Nat)
  BY NatLessThanWellFounded, WFMin, Zenon
<1>2. PICK x \in T : \A y \in T : <<y, x>> \notin OpToRel(<, Nat)
  BY <1>1
<1>3. \A y \in T : ~(y < x)
  BY <1>2 DEF OpToRel
<1>4. QED BY <1>3

(* A sum of numbers is the number of boxes in columns of these heights. *)
Boxes(f, S) == UNION {{x} \X (1..f[x]) : x \in S}
Total(f, S) == Cardinality(Boxes(f, S))

LEMMA FiniteBoxes ==
  ASSUME NEW f, NEW S, IsFiniteSet(S), \A x \in S : f[x] \in Nat
  PROVE  IsFiniteSet(Boxes(f, S)) /\ Total(f, S) \in Nat
<1> DEFINE Column(x) == {x} \X (1..f[x])
           C == {Column(x) : x \in S}
           g == [x \in S |-> Column(x)]
<1>1. IsFiniteSet(C)
  <2>1. g \in [S -> C] /\ \A t \in C : \E x \in S : g[x] = t
    BY Zenon
  <2>2. g \in Surjection(S, C)
    BY <2>1, Zenon DEF Surjection
  <2>3. QED BY <2>2, FS_Surjection
<1>2. \A x \in S : IsFiniteSet(Column(x))
  <2> TAKE x \in S
  <2>1. IsFiniteSet({x})
    BY FS_Singleton
  <2>2. f[x] \in Int /\ 1 \in Int
    OBVIOUS
  <2>3. IsFiniteSet(1..f[x])
    BY <2>2, FS_Interval
  <2>4. QED BY <2>1, <2>3, FS_Product
<1>3. IsFiniteSet(UNION C)
  BY <1>1, <1>2, FS_UNION
<1>4. QED BY <1>3, FS_CardinalityType DEF Boxes, Total

LEMMA ColumnHeight ==
  ASSUME NEW n \in Nat PROVE IsFiniteSet(1..n) /\ Cardinality(1..n) = n
<1>1. 1 \in Int /\ n \in Int
  OBVIOUS
<1>2. Cardinality(1..n) = IF 1 > n THEN 0 ELSE n - 1 + 1
  BY <1>1, FS_Interval
<1>3. IsFiniteSet(1..n)
  BY <1>1, FS_Interval
<1>4. QED BY <1>2, <1>3

LEMMA TotalEmpty == \A f : Total(f, {}) = 0
BY FS_EmptySet DEF Total, Boxes

LEMMA TotalAdd ==
  ASSUME NEW f, NEW S, IsFiniteSet(S), \A y \in S : f[y] \in Nat, NEW x, x \notin S, f[x] \in Nat
  PROVE  Total(f, S \cup {x}) = f[x] + Total(f, S)
<1> DEFINE B == Boxes(f, S)
           C == {x} \X (1..f[x])
<1>1. Boxes(f, S \cup {x}) = C \cup B
  BY DEF Boxes
<1>2. C \cap B = {}
  BY DEF Boxes
<1>3. IsFiniteSet(C) /\ Cardinality(C) = f[x]
  <2>1. IsFiniteSet({x}) /\ Cardinality({x}) = 1
    BY FS_Singleton
  <2>2. IsFiniteSet(1..f[x]) /\ Cardinality(1..f[x]) = f[x]
    BY ColumnHeight, Zenon
  <2>3. IsFiniteSet(C) /\ Cardinality(C) = 1 * f[x]
    <3> DEFINE Q == {x}
               R == 1..f[x]
    <3>1. IsFiniteSet(Q) /\ Cardinality(Q) = 1 /\ IsFiniteSet(R) /\ Cardinality(R) = f[x]
      BY <2>1, <2>2, Zenon
    <3> HIDE DEF Q, R
    <3>2. IsFiniteSet(Q \X R) /\ Cardinality(Q \X R) = Cardinality(Q) * Cardinality(R)
      BY <3>1, FS_Product, Zenon
    <3>3. IsFiniteSet(Q \X R) /\ Cardinality(Q \X R) = 1 * f[x]
      BY <3>1, <3>2, Zenon
    <3>4. QED BY <3>3, Zenon DEF Q, R
  <2>4. 1 * f[x] = f[x]
    OBVIOUS
  <2>5. QED BY <2>3, <2>4, Zenon
<1>4. IsFiniteSet(B) /\ Cardinality(B) \in Nat
  BY FiniteBoxes DEF Total
<1> HIDE DEF B, C
<1>5. Cardinality(C \cup B) = Cardinality(C) + Cardinality(B) - Cardinality(C \cap B)
  BY <1>3, <1>4, FS_Union
<1>6. Cardinality({}) = 0
  BY FS_EmptySet
<1>7. Total(f, S) = Cardinality(B) /\ Total(f, S \cup {x}) = Cardinality(C \cup B)
  BY <1>1 DEF Total, B
<1>8. Cardinality(C \cup B) = f[x] + Cardinality(B) - 0
  BY <1>2, <1>3, <1>5, <1>6, Zenon
<1>9. QED BY <1>4, <1>7, <1>8

LEMMA TotalSame ==
  ASSUME NEW f, NEW g, NEW S, \A x \in S : f[x] = g[x]
  PROVE  Total(f, S) = Total(g, S)
<1>1. Boxes(f, S) = Boxes(g, S)
  BY DEF Boxes
<1>2. QED BY <1>1 DEF Total

LEMMA TotalZero == ASSUME NEW f, NEW S, \A x \in S : f[x] = 0 PROVE Total(f, S) = 0
<1>1. Boxes(f, S) = {}
  BY DEF Boxes
<1>2. QED BY <1>1, FS_EmptySet DEF Total

(* One term of a sum, and what changes with it. *)
LEMMA TotalSplit ==
  ASSUME IsFiniteSet(Process), NEW f \in [Process -> Nat], NEW p \in Process
  PROVE  /\ IsFiniteSet(Process \ {p}) /\ Total(f, Process \ {p}) \in Nat
         /\ Total(f, Process) = f[p] + Total(f, Process \ {p})
<1>1. IsFiniteSet(Process \ {p})
  BY FS_Subset
<1>2. Process = (Process \ {p}) \cup {p} /\ p \notin Process \ {p}
  OBVIOUS
<1>3. \A x \in Process \ {p} : f[x] \in Nat
  OBVIOUS
<1>4. f[p] \in Nat
  OBVIOUS
<1>5. Total(f, (Process \ {p}) \cup {p}) = f[p] + Total(f, Process \ {p})
  BY <1>1, <1>2, <1>3, <1>4, TotalAdd
<1>6. QED BY <1>1, <1>2, <1>3, <1>5, FiniteBoxes

LEMMA TotalChange ==
  ASSUME IsFiniteSet(Process), NEW f \in [Process -> Nat], NEW h \in [Process -> Nat],
         NEW p \in Process, \A x \in Process : x # p => h[x] = f[x]
  PROVE  /\ Total(h, Process) + f[p] = Total(f, Process) + h[p]
         /\ Total(f, Process) \in Nat /\ f[p] <= Total(f, Process)
         /\ Total(h, Process) \in Nat
<1>1. Total(h, Process \ {p}) = Total(f, Process \ {p})
  BY TotalSame
<1>2. /\ Total(f, Process \ {p}) \in Nat /\ Total(f, Process) = f[p] + Total(f, Process \ {p})
      /\ Total(h, Process) = h[p] + Total(h, Process \ {p})
  BY TotalSplit
<1>3. f[p] \in Nat /\ h[p] \in Nat
  OBVIOUS
<1>4. QED BY <1>1, <1>2, <1>3

(* Sum is the total of a function on the processes. *)
LEMMA SumTotal ==
  ASSUME IsFiniteSet(Process), NEW f \in [Process -> Nat]
  PROVE  Sum(f) = Total(f, Process)
<1> DEFINE Def(g) == [s \in SUBSET Process |->
              IF s = {} THEN 0
              ELSE LET x == CHOOSE x \in s : TRUE IN f[x] + g[s \ {x}]]
           r == [s \in SUBSET Process |-> Total(f, s)]
           iter == CHOOSE g : g = Def(g)
<1>1. ASSUME NEW s \in SUBSET Process, NEW x \in s
      PROVE  Total(f, s) = f[x] + Total(f, s \ {x})
  <2>1. IsFiniteSet(s \ {x})
    BY FS_Subset
  <2>2. (s \ {x}) \cup {x} = s /\ x \notin s \ {x} /\ \A y \in s \ {x} : f[y] \in Nat
    OBVIOUS
  <2>3. f[x] \in Nat
    OBVIOUS
  <2>4. Total(f, (s \ {x}) \cup {x}) = f[x] + Total(f, s \ {x})
    BY <2>1, <2>2, <2>3, TotalAdd
  <2>5. QED BY <2>2, <2>4
<1>2. r = Def(r)
  <2>1. ASSUME NEW s \in SUBSET Process PROVE r[s] = Def(r)[s]
    <3>1. CASE s = {}
      BY <3>1, TotalEmpty
    <3>2. CASE s # {}
      <4> DEFINE x == CHOOSE x \in s : TRUE
      <4>1. x \in s
        BY <3>2
      <4>2. r[s] = f[x] + r[s \ {x}]
        BY <1>1, <4>1
      <4>3. QED BY <3>2, <4>2
    <3>3. QED BY <3>1, <3>2
  <2>2. QED BY <2>1
<1>3. iter = Def(iter)
  BY <1>2
<1> HIDE DEF iter
<1>4. /\ iter[{}] = 0
      /\ \A s \in SUBSET Process : s # {} => \E x \in s : iter[s] = f[x] + iter[s \ {x}]
  <2>1. \A s \in SUBSET Process : iter[s] = Def(iter)[s]
    BY <1>3
  <2>2. iter[{}] = 0
    BY <2>1
  <2>3. ASSUME NEW s \in SUBSET Process, s # {}
        PROVE  \E x \in s : iter[s] = f[x] + iter[s \ {x}]
    <3> DEFINE x == CHOOSE x \in s : TRUE
    <3>1. x \in s
      BY <2>3
    <3>2. iter[s] = f[x] + iter[s \ {x}]
      BY <2>1, <2>3
    <3>3. QED BY <3>1, <3>2
  <2>4. QED BY <2>2, <2>3
<1>5. \A s \in SUBSET Process : iter[s] = Total(f, s)
  <2> DEFINE T == {Cardinality(s) : s \in {t \in SUBSET Process : iter[t] # Total(f, t)}}
  <2> SUFFICES ASSUME T # {} PROVE FALSE
    OBVIOUS
  <2>1. \A s \in SUBSET Process : IsFiniteSet(s)
    BY FS_Subset
  <2>2. T \in SUBSET Nat
    BY <2>1, FS_CardinalityType
  <2>3. PICK n \in T : \A y \in T : n <= y
    BY <2>2, LeastNumber
  <2>4. PICK s \in SUBSET Process : n = Cardinality(s) /\ iter[s] # Total(f, s)
    OBVIOUS
  <2>5. s # {}
    BY <2>4, <1>4, TotalEmpty
  <2>6. PICK x \in s : iter[s] = f[x] + iter[s \ {x}]
    BY <1>4, <2>5
  <2>7. Cardinality(s \ {x}) = n - 1 /\ n \in Nat
    BY <2>1, <2>2, <2>4, <2>6, FS_RemoveElement
  <2>8. iter[s \ {x}] = Total(f, s \ {x})
    <3>1. Cardinality(s \ {x}) \notin T
      BY <2>3, <2>7
    <3>2. s \ {x} \in SUBSET Process
      OBVIOUS
    <3>3. QED BY <3>1, <3>2
  <2>9. Total(f, s) = f[x] + Total(f, s \ {x})
    BY <1>1, <2>6
  <2>10. QED BY <2>4, <2>6, <2>8, <2>9
<1>6. Sum(f) = iter[Process]
  BY DEF Sum, FoldSet, MapThenFoldSet, iter
<1>7. QED BY <1>5, <1>6
-----------------------------------------------------------------------------
(* Units.  The books of the current set: how many uses and units the kernel   *)
(* keeps for each process, what the process has by its own account, and how   *)
(* far it is.  "in" is who may use the set, "away" who does not.              *)
Place == {"away", "count", "setval", "in", "undo"}
Mine(a) == IF a \in {"count", "setval", "in"} THEN 1 ELSE 0

(* Past its first use a process knows that max_acquire units are there; in    *)
(* its first use it still has to find out.                                    *)
Informed(a, u) == a # "undo" /\ u > 0 /\ ~(u = 1 /\ a \in {"count", "setval"})

BookTypes(usage, sem, uses, give, has, place, count) ==
  /\ usage \in Nat /\ sem \in Nat
  /\ uses \in [Process -> Nat] /\ give \in [Process -> Nat] /\ has \in [Process -> Nat]
  /\ place \in [Process -> Place] /\ count \in [Process -> Int]
Row(uses, give, has, place, count, q) ==
  /\ Mine(place[q]) <= uses[q]
  /\ place[q] # "undo" => give[q] = has[q]
  /\ place[q] # "undo" /\ uses[q] = Mine(place[q]) =>
       has[q] = IF Mine(place[q]) = 1 THEN count[q] ELSE 0
  /\ place[q] \in {"count", "setval"} => count[q] = 0
  /\ place[q] = "setval" => \A r \in Process : uses[r] = IF r = q THEN 1 ELSE 0
Balance(usage, sem, uses, give, has, place, count) ==
  /\ BookTypes(usage, sem, uses, give, has, place, count)
  /\ usage = Total(uses, Process)
  /\ \A q \in Process : Row(uses, give, has, place, count, q)
  /\ \A q \in Process : Informed(place[q], uses[q]) => sem + Total(give, Process) = max_acquire

(* The books of a set that nobody has used yet. *)
LEMMA EmptyBooks ==
  ASSUME NEW place \in [Process -> Place], \A q \in Process : place[q] \in {"away", "undo"},
         NEW count \in [Process -> Int]
  PROVE  LET none == [q \in Process |-> 0] IN Balance(0, 0, none, none, none, place, count)
<1> DEFINE none == [q \in Process |-> 0]
<1>1. none \in [Process -> Nat] /\ \A q \in Process : none[q] = 0
  OBVIOUS
<1> HIDE DEF none
<1>2. Total(none, Process) = 0
  BY <1>1, TotalZero
<1>3. ASSUME NEW q \in Process
      PROVE  Row(none, none, none, place, count, q) /\ ~Informed(place[q], none[q])
  <2>1. none[q] = 0 /\ place[q] \in {"away", "undo"}
    BY <1>1
  <2>2. Mine(place[q]) = 0
    BY <2>1 DEF Mine
  <2>3. QED BY <2>1, <2>2 DEF Row, Informed
<1>4. BookTypes(0, 0, none, none, none, place, count)
  BY <1>1 DEF BookTypes
<1>5. Balance(0, 0, none, none, none, place, count)
  BY <1>2, <1>3, <1>4 DEF Balance
<1>6. QED BY <1>5 DEF none

(* A process enters sem_get() when nobody is initializing the set: it counts    *)
(* its use.                                                                     *)
LEMMA BookUse ==
  ASSUME IsFiniteSet(Process),
         NEW usage, NEW sem, NEW uses, NEW give, NEW has, NEW place, NEW count,
         Balance(usage, sem, uses, give, has, place, count),
         NEW p \in Process, place[p] = "away", count[p] = 0, \A q \in Process : place[q] # "setval"
  PROVE  Balance(usage + 1, sem, [uses EXCEPT ![p] = @ + 1], give, has,
                 [place EXCEPT ![p] = "count"], count)
<1> DEFINE n == uses[p] + 1
           uses2 == [uses EXCEPT ![p] = n]
           at2 == [place EXCEPT ![p] = "count"]
<1>1. /\ BookTypes(usage, sem, uses, give, has, place, count) /\ usage = Total(uses, Process)
      /\ \A q \in Process : Row(uses, give, has, place, count, q)
      /\ \A q \in Process : Informed(place[q], uses[q]) => sem + Total(give, Process) = max_acquire
  BY DEF Balance
<1>2. uses[p] \in Nat /\ n \in Nat /\ uses \in [Process -> Nat] /\ place \in [Process -> Place]
      /\ usage \in Nat
  BY <1>1 DEF BookTypes
<1>3. at2 \in [Process -> Place] /\ at2[p] = "count" /\ \A q \in Process : q # p => at2[q] = place[q]
  BY <1>2 DEF Place
<1>4. uses2 \in [Process -> Nat] /\ uses2[p] = n /\ \A q \in Process : q # p => uses2[q] = uses[q]
  BY <1>2
<1> HIDE DEF uses2, at2
<1>5. Total(uses2, Process) + uses[p] = Total(uses, Process) + uses2[p]
      /\ Total(uses, Process) \in Nat /\ Total(uses2, Process) \in Nat
  BY <1>2, <1>4, TotalChange
<1>6. usage + 1 = Total(uses2, Process)
  BY <1>1, <1>2, <1>5, <1>4
<1>7. BookTypes(usage + 1, sem, uses2, give, has, at2, count)
  BY <1>1, <1>2, <1>3, <1>4 DEF BookTypes
<1>8. Row(uses2, give, has, at2, count, p)
  <2>1. Row(uses, give, has, place, count, p)
    BY <1>1
  <2>2. give[p] = has[p] /\ (uses[p] = 0 => has[p] = 0)
    BY <2>1 DEF Row, Mine
  <2>3. QED BY <2>2, <1>2, <1>3, <1>4 DEF Row, Mine
<1>9. \A q \in Process : q # p => Row(uses2, give, has, at2, count, q)
  BY <1>1, <1>3, <1>4 DEF Row
<1>10. \A q \in Process : Informed(at2[q], uses2[q]) => Informed(place[q], uses[q])
  BY <1>2, <1>3, <1>4 DEF Informed
<1>11. Balance(usage + 1, sem, uses2, give, has, at2, count)
  BY <1>1, <1>6, <1>7, <1>8, <1>9, <1>10 DEF Balance
<1>12. QED BY <1>11 DEF uses2, at2

(* Who finds that it is the only user is; who finds others, finds one that     *)
(* knows of the units.                                                         *)
LEMMA BookOnlyUser ==
  ASSUME IsFiniteSet(Process),
         NEW usage, NEW sem, NEW uses, NEW give, NEW has, NEW place, NEW count,
         Balance(usage, sem, uses, give, has, place, count), usage = 1,
         NEW p \in Process, place[p] = "count",
         \A q \in Process : place[q] \in {"count", "setval"} => q = p
  PROVE  Balance(usage, sem, uses, give, has, [place EXCEPT ![p] = "setval"], count)
<1> DEFINE at2 == [place EXCEPT ![p] = "setval"]
<1>1. /\ BookTypes(usage, sem, uses, give, has, place, count) /\ usage = Total(uses, Process)
      /\ \A q \in Process : Row(uses, give, has, place, count, q)
      /\ \A q \in Process : Informed(place[q], uses[q]) => sem + Total(give, Process) = max_acquire
  BY DEF Balance
<1>2. uses \in [Process -> Nat] /\ place \in [Process -> Place] /\ 1 <= uses[p]
  BY <1>1 DEF BookTypes, Row, Mine
<1>3. at2 \in [Process -> Place] /\ at2[p] = "setval" /\ \A q \in Process : q # p => at2[q] = place[q]
  BY <1>2 DEF Place
<1> HIDE DEF at2
<1>4. uses[p] \in Nat /\ uses[p] <= Total(uses, Process)
  BY <1>2, TotalChange
<1>5. ASSUME NEW r \in Process, r # p PROVE uses[r] = 0
  <2> DEFINE f == [uses EXCEPT ![p] = 0]
  <2>1. f \in [Process -> Nat] /\ f[p] = 0 /\ \A q \in Process : q # p => f[q] = uses[q]
    BY <1>2
  <2> HIDE DEF f
  <2>2. Total(f, Process) + uses[p] = Total(uses, Process) + f[p] /\ Total(f, Process) \in Nat
    BY <1>2, <2>1, TotalChange
  <2>3. f[r] <= Total(f, Process) /\ f[r] = uses[r] /\ f[r] \in Nat
    BY <2>1, <1>5, TotalChange
  <2>4. QED BY <1>1, <1>2, <1>4, <2>1, <2>2, <2>3
<1>6. uses[p] = 1
  BY <1>1, <1>2, <1>4
<1>7. Row(uses, give, has, at2, count, p)
  BY <1>1, <1>3, <1>5, <1>6 DEF Row, Mine
<1>8. \A q \in Process : q # p => Row(uses, give, has, at2, count, q)
  BY <1>1, <1>3 DEF Row
<1>9. \A q \in Process : Informed(at2[q], uses[q]) => Informed(place[q], uses[q])
  BY <1>3 DEF Informed
<1>10. BookTypes(usage, sem, uses, give, has, at2, count)
  BY <1>1, <1>3 DEF BookTypes
<1>11. Balance(usage, sem, uses, give, has, at2, count)
  BY <1>1, <1>7, <1>8, <1>9, <1>10 DEF Balance
<1>12. QED BY <1>11 DEF at2

LEMMA BookOtherUsers ==
  ASSUME IsFiniteSet(Process),
         NEW usage, NEW sem, NEW uses, NEW give, NEW has, NEW place, NEW count,
         Balance(usage, sem, uses, give, has, place, count), usage # 1,
         NEW p \in Process, place[p] = "count",
         \A q \in Process : place[q] \in {"count", "setval"} => q = p,
         \A q \in Process : place[q] = "undo" => uses[q] = 0
  PROVE  Balance(usage, sem, uses, give, has, [place EXCEPT ![p] = "in"], count)
<1> DEFINE at2 == [place EXCEPT ![p] = "in"]
<1>1. /\ BookTypes(usage, sem, uses, give, has, place, count) /\ usage = Total(uses, Process)
      /\ \A q \in Process : Row(uses, give, has, place, count, q)
      /\ \A q \in Process : Informed(place[q], uses[q]) => sem + Total(give, Process) = max_acquire
  BY DEF Balance
<1>2. uses \in [Process -> Nat] /\ place \in [Process -> Place] /\ 1 <= uses[p] /\ uses[p] \in Nat
  BY <1>1 DEF BookTypes, Row, Mine
<1>3. at2 \in [Process -> Place] /\ at2[p] = "in" /\ \A q \in Process : q # p => at2[q] = place[q]
  BY <1>2 DEF Place
<1> HIDE DEF at2
<1>4. sem + Total(give, Process) = max_acquire
  <2>1. CASE uses[p] # 1
    BY <2>1, <1>1, <1>2 DEF Informed
  <2>2. CASE uses[p] = 1
    <3>1. PICK r \in Process : r # p /\ uses[r] # 0
      <4> SUFFICES ASSUME \A r \in Process : r # p => uses[r] = 0 PROVE FALSE
        OBVIOUS
      <4>1. Total(uses, Process \ {p}) = 0
        BY TotalZero
      <4>2. Total(uses, Process) = uses[p] + Total(uses, Process \ {p})
        BY <1>2, TotalSplit
      <4>3. QED BY <2>2, <4>1, <4>2, <1>1
    <3>2. uses[r] \in Nat
      BY <1>2
    <3>3. Informed(place[r], uses[r])
      BY <3>1, <3>2 DEF Informed
    <3>4. QED BY <1>1, <3>3
  <2>3. QED BY <2>1, <2>2
<1>5. \A q \in Process : Row(uses, give, has, at2, count, q)
  BY <1>1, <1>3 DEF Row, Mine
<1>6. BookTypes(usage, sem, uses, give, has, at2, count)
  BY <1>1, <1>3 DEF BookTypes
<1>7. Balance(usage, sem, uses, give, has, at2, count)
  BY <1>1, <1>4, <1>5, <1>6 DEF Balance
<1>8. QED BY <1>7 DEF at2

(* The only user sets the semaphore: the kernel forgets all units. *)
LEMMA BookSet ==
  ASSUME SemAssumption,
         NEW usage, NEW sem, NEW uses, NEW give, NEW has, NEW place, NEW count,
         Balance(usage, sem, uses, give, has, place, count),
         NEW p \in Process, place[p] = "setval"
  PROVE  Balance(usage, max_acquire, uses, [q \in Process |-> 0], has,
                 [place EXCEPT ![p] = "in"], count)
<1> DEFINE at2 == [place EXCEPT ![p] = "in"]
           none == [q \in Process |-> 0]
<1>1. /\ BookTypes(usage, sem, uses, give, has, place, count) /\ usage = Total(uses, Process)
      /\ \A q \in Process : Row(uses, give, has, place, count, q)
  BY DEF Balance
<1>2. uses \in [Process -> Nat] /\ place \in [Process -> Place] /\ max_acquire \in Nat
  BY <1>1, SemAssumption DEF BookTypes
<1>3. at2 \in [Process -> Place] /\ at2[p] = "in" /\ \A q \in Process : q # p => at2[q] = place[q]
  BY <1>2 DEF Place
<1>4. none \in [Process -> Nat] /\ \A q \in Process : none[q] = 0
  OBVIOUS
<1> HIDE DEF at2, none
<1>5. \A r \in Process : uses[r] = IF r = p THEN 1 ELSE 0
  BY <1>1 DEF Row
<1>6. ASSUME NEW q \in Process PROVE Row(uses, none, has, at2, count, q)
  <2>1. Row(uses, give, has, place, count, q)
    BY <1>1
  <2>2. CASE q = p
    <3>1. has[q] = 0 /\ count[q] = 0 /\ uses[q] = 1
      BY <2>1, <2>2, <1>5 DEF Row, Mine
    <3>2. QED BY <2>2, <3>1, <1>3, <1>4 DEF Row, Mine
  <2>3. CASE q # p
    <3>1. uses[q] = 0 /\ at2[q] = place[q]
      BY <2>3, <1>3, <1>5
    <3>2. place[q] \in {"away", "undo"}
      BY <2>1, <3>1, <1>2 DEF Row, Mine, Place
    <3>3. place[q] = "away" => has[q] = 0
      BY <2>1, <3>1 DEF Row, Mine
    <3>4. QED BY <3>1, <3>2, <3>3, <1>4 DEF Row, Mine
  <2>4. QED BY <2>2, <2>3
<1>7. max_acquire + Total(none, Process) = max_acquire
  <2>1. Total(none, Process) = 0
    BY <1>4, TotalZero
  <2>2. QED BY <2>1, <1>2
<1>8. BookTypes(usage, max_acquire, uses, none, has, at2, count)
  BY <1>1, <1>2, <1>3, <1>4 DEF BookTypes
<1>9. Balance(usage, max_acquire, uses, none, has, at2, count)
  BY <1>1, <1>6, <1>7, <1>8 DEF Balance
<1>10. QED BY <1>9 DEF at2, none

(* Units are acquired, or released if d is negative. *)
LEMMA BookUnits ==
  ASSUME IsFiniteSet(Process),
         NEW usage, NEW sem, NEW uses, NEW give, NEW has, NEW place, NEW count,
         Balance(usage, sem, uses, give, has, place, count),
         NEW p \in Process, place[p] = "in", NEW d \in Int, sem - d \in Nat, give[p] + d \in Nat
  PROVE  Balance(usage, sem - d, uses, [give EXCEPT ![p] = @ + d], [has EXCEPT ![p] = @ + d],
                 place, [count EXCEPT ![p] = @ + d])
<1> DEFINE units2 == [give EXCEPT ![p] = give[p] + d]
           has2 == [has EXCEPT ![p] = has[p] + d]
           count2 == [count EXCEPT ![p] = count[p] + d]
<1>1. /\ BookTypes(usage, sem, uses, give, has, place, count) /\ usage = Total(uses, Process)
      /\ \A q \in Process : Row(uses, give, has, place, count, q)
      /\ \A q \in Process : Informed(place[q], uses[q]) => sem + Total(give, Process) = max_acquire
  BY DEF Balance
<1>2. give \in [Process -> Nat] /\ has \in [Process -> Nat] /\ count \in [Process -> Int]
      /\ sem \in Nat /\ give[p] = has[p] /\ uses \in [Process -> Nat]
  BY <1>1 DEF BookTypes, Row
<1>3. give[p] \in Nat
  BY <1>2
<1>4. units2 \in [Process -> Nat] /\ has2 \in [Process -> Nat] /\ count2 \in [Process -> Int]
  BY <1>2
<1>5. units2[p] = give[p] + d /\ has2[p] = has[p] + d /\ count2[p] = count[p] + d
      /\ \A q \in Process : q # p => units2[q] = give[q] /\ has2[q] = has[q] /\ count2[q] = count[q]
  BY <1>2
<1> HIDE DEF units2, has2, count2
<1>6. Total(units2, Process) + give[p] = Total(give, Process) + units2[p]
      /\ Total(give, Process) \in Nat /\ Total(units2, Process) \in Nat
  BY <1>2, <1>4, <1>5, TotalChange
<1>7. sem + Total(give, Process) = max_acquire => (sem - d) + Total(units2, Process) = max_acquire
  BY <1>2, <1>3, <1>5, <1>6
<1>8. Row(uses, units2, has2, place, count2, p)
  <2>1. Row(uses, give, has, place, count, p)
    BY <1>1
  <2>2. uses[p] = 1 => has[p] = count[p]
    BY <2>1 DEF Row, Mine
  <2>3. 1 <= uses[p]
    BY <2>1 DEF Row, Mine
  <2>4. QED BY <2>2, <2>3, <1>2, <1>5 DEF Row, Mine
<1>9. \A q \in Process : q # p => Row(uses, units2, has2, place, count2, q)
  BY <1>1, <1>5 DEF Row
<1>10. BookTypes(usage, sem - d, uses, units2, has2, place, count2)
  BY <1>1, <1>3, <1>4 DEF BookTypes
<1>11. Balance(usage, sem - d, uses, units2, has2, place, count2)
  BY <1>1, <1>7, <1>8, <1>9, <1>10 DEF Balance
<1>12. QED BY <1>11 DEF units2, has2, count2

(* A process frees its resource and gives back the use and what it counts. *)
LEMMA BookRelease ==
  ASSUME IsFiniteSet(Process),
         NEW usage, NEW sem, NEW uses, NEW give, NEW has, NEW place, NEW count,
         Balance(usage, sem, uses, give, has, place, count),
         NEW p \in Process, place[p] = "in", 0 <= count[p], count[p] <= has[p],
         NEW count2 \in [Process -> Int], \A q \in Process : q # p => count2[q] = count[q]
  PROVE  Balance(usage - 1, sem + count[p], [uses EXCEPT ![p] = @ - 1],
                 [give EXCEPT ![p] = @ - count[p]], [has EXCEPT ![p] = @ - count[p]],
                 [place EXCEPT ![p] = "away"], count2)
<1> DEFINE c == count[p]
           uses2 == [uses EXCEPT ![p] = uses[p] - 1]
           units2 == [give EXCEPT ![p] = give[p] - c]
           has2 == [has EXCEPT ![p] = has[p] - c]
           at2 == [place EXCEPT ![p] = "away"]
<1>1. /\ BookTypes(usage, sem, uses, give, has, place, count) /\ usage = Total(uses, Process)
      /\ \A q \in Process : Row(uses, give, has, place, count, q)
      /\ \A q \in Process : Informed(place[q], uses[q]) => sem + Total(give, Process) = max_acquire
  BY DEF Balance
<1>2. give \in [Process -> Nat] /\ has \in [Process -> Nat] /\ count \in [Process -> Int]
      /\ sem \in Nat /\ give[p] = has[p] /\ uses \in [Process -> Nat] /\ 1 <= uses[p]
      /\ place \in [Process -> Place] /\ (uses[p] = 1 => has[p] = c)
  BY <1>1 DEF BookTypes, Row, Mine
<1>3. uses[p] - 1 \in Nat /\ c \in Nat /\ has[p] - c \in Nat /\ give[p] - c \in Nat
      /\ uses[p] \in Nat /\ give[p] \in Nat
  BY <1>2
<1>4. uses2 \in [Process -> Nat] /\ units2 \in [Process -> Nat] /\ has2 \in [Process -> Nat] /\ at2 \in [Process -> Place]
  BY <1>2, <1>3 DEF Place
<1>5. /\ uses2[p] = uses[p] - 1 /\ units2[p] = give[p] - c /\ has2[p] = has[p] - c /\ at2[p] = "away"
      /\ \A q \in Process : q # p =>
           uses2[q] = uses[q] /\ units2[q] = give[q] /\ has2[q] = has[q] /\ at2[q] = place[q]
  BY <1>2
<1> HIDE DEF uses2, units2, has2, at2, c
<1>6. Total(uses2, Process) + uses[p] = Total(uses, Process) + uses2[p]
      /\ Total(uses, Process) \in Nat /\ Total(uses2, Process) \in Nat
  BY <1>2, <1>4, <1>5, TotalChange
<1>7. Total(units2, Process) + give[p] = Total(give, Process) + units2[p]
      /\ Total(give, Process) \in Nat /\ Total(units2, Process) \in Nat
  BY <1>2, <1>4, <1>5, TotalChange
<1>8. usage - 1 = Total(uses2, Process) /\ usage - 1 \in Nat /\ sem + c \in Nat
  BY <1>1, <1>2, <1>3, <1>6, <1>5
<1>9. sem + Total(give, Process) = max_acquire => (sem + c) + Total(units2, Process) = max_acquire
  BY <1>2, <1>3, <1>7, <1>5
<1>10. Row(uses2, units2, has2, at2, count2, p)
  BY <1>2, <1>3, <1>5 DEF Row, Mine
<1>11. ASSUME NEW q \in Process, q # p PROVE Row(uses2, units2, has2, at2, count2, q)
  <2>1. Row(uses, give, has, place, count, q) /\ place[q] # "setval"
    <3>1. Row(uses, give, has, place, count, q)
      BY <1>1
    <3>2. place[q] = "setval" => uses[p] = 0
      BY <3>1, <1>11 DEF Row
    <3>3. QED BY <3>1, <3>2, <1>2
  <2>2. QED BY <2>1, <1>5, <1>11 DEF Row
<1>12. ASSUME NEW q \in Process, Informed(at2[q], uses2[q]) PROVE Informed(place[q], uses[q])
  <2>1. CASE q = p
    <3>1. 0 < uses[p]
      BY <1>2, <1>3
    <3>2. QED BY <2>1, <3>1 DEF Informed
  <2>2. CASE q # p
    BY <2>2, <1>5, <1>12
  <2>3. QED BY <2>1, <2>2
<1>13. BookTypes(usage - 1, sem + c, uses2, units2, has2, at2, count2)
  BY <1>1, <1>4, <1>8 DEF BookTypes
<1>14. Balance(usage - 1, sem + c, uses2, units2, has2, at2, count2)
  BY <1>1, <1>8, <1>9, <1>10, <1>11, <1>12, <1>13 DEF Balance
<1>15. QED BY <1>14 DEF uses2, units2, has2, at2, c

(* A process goes away, or comes to its end, and tells the kernel nothing. *)
LEMMA BookGoes ==
  ASSUME NEW usage, NEW sem, NEW uses, NEW give, NEW has, NEW place, NEW count,
         Balance(usage, sem, uses, give, has, place, count),
         NEW p \in Process, NEW a \in {"away", "undo"}, a = "away" => place[p] \in {"away", "in"},
         NEW count2 \in [Process -> Int], \A q \in Process : q # p => count2[q] = count[q]
  PROVE  Balance(usage, sem, uses, give, has, [place EXCEPT ![p] = a], count2)
<1> DEFINE at2 == [place EXCEPT ![p] = a]
<1>1. /\ BookTypes(usage, sem, uses, give, has, place, count) /\ usage = Total(uses, Process)
      /\ \A q \in Process : Row(uses, give, has, place, count, q)
      /\ \A q \in Process : Informed(place[q], uses[q]) => sem + Total(give, Process) = max_acquire
  BY DEF Balance
<1>2. uses \in [Process -> Nat] /\ place \in [Process -> Place]
  BY <1>1 DEF BookTypes
<1>3. at2 \in [Process -> Place] /\ at2[p] = a /\ \A q \in Process : q # p => at2[q] = place[q]
  BY <1>2 DEF Place
<1> HIDE DEF at2
<1>4. Row(uses, give, has, at2, count2, p)
  <2>1. Row(uses, give, has, place, count, p)
    BY <1>1
  <2>2. CASE a = "undo"
    BY <2>2, <1>2, <1>3 DEF Row, Mine
  <2>3. CASE a = "away"
    <3>1. give[p] = has[p] /\ (uses[p] = 0 => has[p] = 0)
      BY <2>1, <2>3 DEF Row, Mine
    <3>2. QED BY <2>3, <3>1, <1>2, <1>3 DEF Row, Mine
  <2>4. QED BY <2>2, <2>3
<1>5. \A q \in Process : q # p => Row(uses, give, has, at2, count2, q)
  BY <1>1, <1>3 DEF Row
<1>6. \A q \in Process : Informed(at2[q], uses[q]) => Informed(place[q], uses[q])
  BY <1>3 DEF Informed
<1>7. BookTypes(usage, sem, uses, give, has, at2, count2)
  BY <1>1, <1>3 DEF BookTypes
<1>8. Balance(usage, sem, uses, give, has, at2, count2)
  BY <1>1, <1>4, <1>5, <1>6, <1>7 DEF Balance
<1>9. QED BY <1>8 DEF at2

(* The kernel takes back the uses of a process that has ended, or its units. *)
LEMMA BookUndoUses ==
  ASSUME IsFiniteSet(Process),
         NEW usage, NEW sem, NEW uses, NEW give, NEW has, NEW place, NEW count,
         Balance(usage, sem, uses, give, has, place, count),
         NEW p \in Process, place[p] = "undo"
  PROVE  /\ usage - uses[p] \in Nat
         /\ Balance(usage - uses[p], sem, [uses EXCEPT ![p] = 0], give, has, place, count)
<1> DEFINE uses2 == [uses EXCEPT ![p] = 0]
<1>1. /\ BookTypes(usage, sem, uses, give, has, place, count) /\ usage = Total(uses, Process)
      /\ \A q \in Process : Row(uses, give, has, place, count, q)
      /\ \A q \in Process : Informed(place[q], uses[q]) => sem + Total(give, Process) = max_acquire
  BY DEF Balance
<1>2. uses \in [Process -> Nat] /\ uses[p] \in Nat /\ 0 \in Nat
  BY <1>1 DEF BookTypes
<1>3. uses2 \in [Process -> Nat] /\ uses2[p] = 0 /\ \A q \in Process : q # p => uses2[q] = uses[q]
  BY <1>2
<1> HIDE DEF uses2
<1>4. Total(uses2, Process) + uses[p] = Total(uses, Process) + uses2[p]
      /\ Total(uses, Process) \in Nat /\ Total(uses2, Process) \in Nat
  BY <1>2, <1>3, TotalChange
<1>5. usage - uses[p] = Total(uses2, Process) /\ usage - uses[p] \in Nat
  BY <1>1, <1>2, <1>4, <1>3
<1>6. Row(uses2, give, has, place, count, p)
  BY <1>3 DEF Row, Mine
<1>7. \A q \in Process : q # p => Row(uses2, give, has, place, count, q)
  BY <1>1, <1>3 DEF Row
<1>8. \A q \in Process : Informed(place[q], uses2[q]) => Informed(place[q], uses[q])
  BY <1>3 DEF Informed
<1>9. BookTypes(usage - uses[p], sem, uses2, give, has, place, count)
  BY <1>1, <1>3, <1>5 DEF BookTypes
<1>10. Balance(usage - uses[p], sem, uses2, give, has, place, count)
  BY <1>1, <1>5, <1>6, <1>7, <1>8, <1>9 DEF Balance
<1>11. QED BY <1>5, <1>10 DEF uses2

LEMMA BookUndoUnits ==
  ASSUME IsFiniteSet(Process),
         NEW usage, NEW sem, NEW uses, NEW give, NEW has, NEW place, NEW count,
         Balance(usage, sem, uses, give, has, place, count),
         NEW p \in Process, place[p] = "undo"
  PROVE  Balance(usage, sem + give[p], uses, [give EXCEPT ![p] = 0], has, place, count)
<1> DEFINE units2 == [give EXCEPT ![p] = 0]
<1>1. /\ BookTypes(usage, sem, uses, give, has, place, count) /\ usage = Total(uses, Process)
      /\ \A q \in Process : Row(uses, give, has, place, count, q)
      /\ \A q \in Process : Informed(place[q], uses[q]) => sem + Total(give, Process) = max_acquire
  BY DEF Balance
<1>2. give \in [Process -> Nat] /\ give[p] \in Nat /\ 0 \in Nat /\ sem \in Nat
  BY <1>1 DEF BookTypes
<1>3. units2 \in [Process -> Nat] /\ units2[p] = 0 /\ \A q \in Process : q # p => units2[q] = give[q]
  BY <1>2
<1> HIDE DEF units2
<1>4. Total(units2, Process) + give[p] = Total(give, Process) + units2[p]
      /\ Total(give, Process) \in Nat /\ Total(units2, Process) \in Nat
  BY <1>2, <1>3, TotalChange
<1>5. sem + Total(give, Process) = max_acquire => (sem + give[p]) + Total(units2, Process) = max_acquire
  BY <1>2, <1>4, <1>3
<1>6. Row(uses, units2, has, place, count, p)
  BY <1>1 DEF Row, Mine
<1>7. \A q \in Process : q # p => Row(uses, units2, has, place, count, q)
  BY <1>1, <1>3 DEF Row
<1>8. BookTypes(usage, sem + give[p], uses, units2, has, place, count)
  <2>1. sem + give[p] \in Nat
    BY <1>2
  <2>2. QED BY <2>1, <1>1, <1>3 DEF BookTypes
<1>9. Balance(usage, sem + give[p], uses, units2, has, place, count)
  BY <1>1, <1>5, <1>6, <1>7, <1>8 DEF Balance
<1>10. QED BY <1>9 DEF units2

(* All is taken back: the process is gone, and another may come. *)
LEMMA BookEnded ==
  ASSUME NEW usage, NEW sem, NEW uses, NEW give, NEW has, NEW place, NEW count,
         Balance(usage, sem, uses, give, has, place, count),
         NEW p \in Process, place[p] = "undo", uses[p] = 0, give[p] = 0
  PROVE  Balance(usage, sem, uses, give, [has EXCEPT ![p] = 0], [place EXCEPT ![p] = "away"], count)
<1> DEFINE has2 == [has EXCEPT ![p] = 0]
           at2 == [place EXCEPT ![p] = "away"]
<1>1. /\ BookTypes(usage, sem, uses, give, has, place, count) /\ usage = Total(uses, Process)
      /\ \A q \in Process : Row(uses, give, has, place, count, q)
      /\ \A q \in Process : Informed(place[q], uses[q]) => sem + Total(give, Process) = max_acquire
  BY DEF Balance
<1>2. has \in [Process -> Nat] /\ place \in [Process -> Place]
  BY <1>1 DEF BookTypes
<1>3. /\ has2 \in [Process -> Nat] /\ at2 \in [Process -> Place] /\ has2[p] = 0 /\ at2[p] = "away"
      /\ \A q \in Process : q # p => has2[q] = has[q] /\ at2[q] = place[q]
  BY <1>2 DEF Place
<1> HIDE DEF has2, at2
<1>4. Row(uses, give, has2, at2, count, p)
  BY <1>3 DEF Row, Mine
<1>5. \A q \in Process : q # p => Row(uses, give, has2, at2, count, q)
  BY <1>1, <1>3 DEF Row
<1>6. \A q \in Process : Informed(at2[q], uses[q]) => Informed(place[q], uses[q])
  BY <1>3 DEF Informed
<1>7. BookTypes(usage, sem, uses, give, has2, at2, count)
  BY <1>1, <1>3 DEF BookTypes
<1>8. Balance(usage, sem, uses, give, has2, at2, count)
  BY <1>1, <1>4, <1>5, <1>6, <1>7 DEF Balance
<1>9. QED BY <1>8 DEF has2, at2

-----------------------------------------------------------------------------
(* The books in the state.  Whatever happens in the set of the key, the kernel *)
(* counts in "usage" the uses that it would take back, and "sem" and the units *)
(* that it would give back are max_acquire for who has used the set.           *)
Past == {"count", "setval", "unlock", "in", "acquire"}
At == [q \in Process |->
         IF pc[q] = "undo" THEN "undo"
         ELSE IF pc[q] \in Past /\ res[q].id = current
              THEN IF pc[q] \in {"count", "setval"} THEN pc[q] ELSE "in"
              ELSE "away"]
UsesOf == [q \in Process |-> 0 - undo[q][current]["usage"]]
Units == [q \in Process |-> undo[q][current]["sem"]]
Has == [q \in Process |-> holds[q][current]]
Counts == [q \in Process |-> res[q].count]
Balanced ==
  current # 0 /\ current \notin spoiled =>
    Balance(value[current]["usage"], value[current]["sem"], UsesOf, Units, Has, At, Counts)

(* A set that has not been created is empty. *)
Clean ==
  \A g \in Set : g > sets =>
    value[g] = Zero /\ \A q \in Process : undo[q][g] = Zero /\ holds[q][g] = 0
Begins == \A q \in Process : pc[q] = "get" => res[q].count = 0
BooksKept == Clean /\ Begins /\ Balanced

LEMMA BooksInit == Init => BooksKept
<1> SUFFICES ASSUME Init PROVE BooksKept
  OBVIOUS
<1>1. Clean /\ Begins
  BY DEF Init, Clean, Begins
<1>2. current = 0
  BY DEF Init
<1>3. QED BY <1>1, <1>2 DEF BooksKept, Balanced

(* What the books say is what the invariant says. *)
LEMMA BooksSay ==
  ASSUME IsFiniteSet(Process), Typed, BooksKept PROVE UnitsConserved
<1> SUFFICES ASSUME NEW g \in Set \ spoiled, Users(g) # {}, \A q \in Process : pc[q] # "undo"
             PROVE  value[g].sem + Held(g) = max_acquire
  BY DEF UnitsConserved
<1>1. /\ pc \in [Process -> {"out", "get", "count", "setval", "unlock", "in", "acquire", "undo"}]
      /\ holds \in [Process -> [Set -> Nat]]
  BY DEF Typed, TypeOK
<1>2. PICK q \in Process : pc[q] \in {"in", "acquire"} /\ g = current /\ res[q].id = g
  BY DEF Users
<1>3. current # 0 /\ current \notin spoiled
  BY <1>2
<1>4. Balance(value[current]["usage"], value[current]["sem"], UsesOf, Units, Has, At, Counts)
  BY <1>3 DEF BooksKept, Balanced
<1>5. /\ BookTypes(value[current]["usage"], value[current]["sem"], UsesOf, Units, Has, At, Counts)
      /\ \A p \in Process : Row(UsesOf, Units, Has, At, Counts, p)
      /\ \A p \in Process : Informed(At[p], UsesOf[p]) =>
           value[current]["sem"] + Total(Units, Process) = max_acquire
  BY <1>4 DEF Balance
<1>6. At[q] = "in"
  BY <1>2 DEF At, Past
<1>7. UsesOf[q] \in Nat /\ 1 <= UsesOf[q]
  <2>1. Row(UsesOf, Units, Has, At, Counts, q) /\ UsesOf \in [Process -> Nat]
    BY <1>5 DEF BookTypes
  <2>2. QED BY <2>1, <1>6 DEF Row, Mine
<1>8. value[current]["sem"] + Total(Units, Process) = max_acquire
  BY <1>5, <1>6, <1>7 DEF Informed
<1>9. Units \in [Process -> Nat] /\ \A p \in Process : Units[p] = holds[p][g]
  <2>1. \A p \in Process : At[p] # "undo"
    BY <1>1 DEF At, Past
  <2>2. Units \in [Process -> Nat] /\ \A p \in Process : Units[p] = Has[p]
    BY <2>1, <1>5 DEF BookTypes, Row
  <2>3. \A p \in Process : Has[p] = holds[p][g]
    BY <1>2 DEF Has
  <2>4. QED BY <2>2, <2>3
<1>10. Held(g) = Total(Units, Process)
  <2> DEFINE h == [p \in Process |-> holds[p][g]]
  <2>1. h \in [Process -> Nat] /\ \A p \in Process : h[p] = Units[p]
    BY <1>9
  <2>2. Held(g) = Sum(h)
    BY DEF Held
  <2> HIDE DEF h
  <2>3. Sum(h) = Total(h, Process)
    BY <2>1, SumTotal
  <2>4. Total(h, Process) = Total(Units, Process)
    BY <2>1, TotalSame
  <2>5. QED BY <2>2, <2>3, <2>4
<1>11. QED BY <1>2, <1>8, <1>10

(* What a call of semop() does to the books of the current set. *)
Booked(p, a, b) ==
  /\ res[p].id = current /\ current \in Set /\ UNCHANGED <<current, sets>>
  /\ value'[current]["sem"] = value[current]["sem"] + a
  /\ value'[current]["usage"] = value[current]["usage"] + b
  /\ UsesOf' = [UsesOf EXCEPT ![p] = @ + b] /\ Units' = [Units EXCEPT ![p] = @ - a]
  /\ value[current]["sem"] + a \in Nat

LEMMA SemOpBooks ==
  ASSUME Typed, NEW p \in Process, Alive(res[p].id), NEW a \in Int, NEW b \in Int, NEW c \in Int,
         SemOp(p, res[p].id, Ops(a, b, c))
  PROVE  Booked(p, a, b)
<1>1. res[p].id = current /\ current \in Set /\ Ops(a, b, c) \in Records
      /\ Ops(a, b, c)["sem"] = a /\ Ops(a, b, c)["usage"] = b
  BY OpsType DEF Typed, TypeOK
<1>2. SemOp(p, current, Ops(a, b, c)) /\ TypeOK
  BY <1>1 DEF Typed
<1>3. /\ \A f \in Field : value'[current][f] = value[current][f] + Ops(a, b, c)[f]
      /\ \A f \in Field : undo'[p][current][f] = undo[p][current][f] - Ops(a, b, c)[f]
      /\ \A q \in Process, h \in Set : q # p \/ h # current => undo'[q][h] = undo[q][h]
      /\ UNCHANGED <<current, sets>> /\ value' \in [Set -> Values]
  BY <1>1, <1>2, SemOpTypes, Zenon
<1>4. "sem" \in Field /\ "usage" \in Field
  OBVIOUS
<1>5. /\ value'[current]["sem"] = value[current]["sem"] + a
      /\ value'[current]["usage"] = value[current]["usage"] + b
      /\ undo'[p][current]["sem"] = undo[p][current]["sem"] - a
      /\ undo'[p][current]["usage"] = undo[p][current]["usage"] - b
  BY <1>1, <1>3, <1>4
<1>6. undo[p][current]["usage"] \in Int /\ undo[p][current]["sem"] \in Int
  <2>1. undo \in [Process -> [Set -> Records]]
    BY DEF Typed, TypeOK, Records
  <2>2. undo[p][current] \in Records
    BY <1>1, <2>1
  <2>3. QED BY <2>2 DEF Records
<1>7. value'[current]["sem"] \in Nat
  <2>1. value'[current] \in Values
    BY <1>1, <1>3
  <2>2. QED BY <2>1 DEF Values
<1>8. UsesOf' = [UsesOf EXCEPT ![p] = @ + b]
  <2> DEFINE u == [UsesOf EXCEPT ![p] = @ + b]
  <2>1. u = [q \in Process |-> IF q = p THEN UsesOf[p] + b ELSE UsesOf[q]]
    BY DEF UsesOf
  <2>2. \A q \in Process : UsesOf[q] = 0 - undo[q][current]["usage"]
    BY DEF UsesOf
  <2>3. 0 - (undo[p][current]["usage"] - b) = (0 - undo[p][current]["usage"]) + b
    BY <1>6
  <2>4. \A q \in Process : 0 - undo'[q][current']["usage"] = IF q = p THEN UsesOf[p] + b ELSE UsesOf[q]
    <3> TAKE q \in Process
    <3>1. current' = current
      BY <1>3
    <3>2. CASE q = p
      BY <3>1, <3>2, <2>2, <2>3, <1>5
    <3>3. CASE q # p
      <4>1. undo'[q][current] = undo[q][current]
        BY <3>3, <1>1, <1>3
      <4>2. QED BY <3>1, <3>3, <4>1, <2>2
    <3>4. QED BY <3>2, <3>3
  <2>5. UsesOf' = [q \in Process |-> IF q = p THEN UsesOf[p] + b ELSE UsesOf[q]]
    BY <2>4, Zenon DEF UsesOf
  <2>6. QED BY <2>1, <2>5
<1>9. Units' = [Units EXCEPT ![p] = @ - a]
  <2> DEFINE u == [Units EXCEPT ![p] = @ - a]
  <2>1. u = [q \in Process |-> IF q = p THEN Units[p] - a ELSE Units[q]]
    BY DEF Units
  <2>2. \A q \in Process : Units[q] = undo[q][current]["sem"]
    BY DEF Units
  <2>4. \A q \in Process : undo'[q][current']["sem"] = IF q = p THEN Units[p] - a ELSE Units[q]
    <3> TAKE q \in Process
    <3>1. current' = current
      BY <1>3
    <3>2. CASE q = p
      BY <3>1, <3>2, <2>2, <1>5
    <3>3. CASE q # p
      <4>1. undo'[q][current] = undo[q][current]
        BY <3>3, <1>1, <1>3
      <4>2. QED BY <3>1, <3>3, <4>1, <2>2
    <3>4. QED BY <3>2, <3>3
  <2>5. Units' = [q \in Process |-> IF q = p THEN Units[p] - a ELSE Units[q]]
    BY <2>4, Zenon DEF Units
  <2>6. QED BY <2>1, <2>5
<1>10. value[current]["sem"] + a \in Nat
  BY <1>5, <1>7
<1>11. QED BY <1>1, <1>3, <1>5, <1>8, <1>9, <1>10, Zenon DEF Booked

(* What does not change the kernel does not change its books, and where a      *)
(* process is follows from its pc.                                             *)
LEMMA BooksStay ==
  ASSUME UNCHANGED <<current, undo>>
  PROVE  UsesOf' = UsesOf /\ Units' = Units
BY DEF UsesOf, Units

LEMMA Goes ==
  ASSUME TypeOK, UNCHANGED current, NEW p \in Process, NEW to,
         pc' = [pc EXCEPT ![p] = to], \A q \in Process : q # p => res'[q] = res[q],
         NEW a, a = IF to = "undo" THEN "undo"
                    ELSE IF to \in Past /\ res'[p].id = current
                         THEN IF to \in {"count", "setval"} THEN to ELSE "in"
                         ELSE "away"
  PROVE  At' = [At EXCEPT ![p] = a]
<1>1. pc'[p] = to /\ \A q \in Process : q # p => pc'[q] = pc[q]
  BY DEF TypeOK
<1>2. At' = [q \in Process |-> IF q = p THEN a ELSE At[q]]
  BY <1>1 DEF At
<1>3. [At EXCEPT ![p] = a] = [q \in Process |-> IF q = p THEN a ELSE At[q]]
  BY DEF At
<1>4. QED BY <1>2, <1>3

LEMMA GoesAway ==
  ASSUME TypeOK, UNCHANGED current, NEW p \in Process, NEW to \in {"out", "get"},
         pc' = [pc EXCEPT ![p] = to], \A q \in Process : q # p => res'[q] = res[q]
  PROVE  At' = [At EXCEPT ![p] = "away"]
<1>1. to # "undo" /\ to \notin Past
  BY DEF Past
<1>2. "away" = IF to = "undo" THEN "undo"
               ELSE IF to \in Past /\ res'[p].id = current
                    THEN IF to \in {"count", "setval"} THEN to ELSE "in"
                    ELSE "away"
  BY <1>1
<1>3. QED BY <1>2, Goes

LEMMA GoesIn ==
  ASSUME TypeOK, UNCHANGED current, NEW p \in Process, NEW to \in {"unlock", "in", "acquire"},
         pc' = [pc EXCEPT ![p] = to], \A q \in Process : q # p => res'[q] = res[q],
         res'[p].id = current
  PROVE  At' = [At EXCEPT ![p] = "in"]
<1>1. to # "undo" /\ to \in Past /\ to \notin {"count", "setval"}
  BY DEF Past
<1>2. "in" = IF to = "undo" THEN "undo"
             ELSE IF to \in Past /\ res'[p].id = current
                  THEN IF to \in {"count", "setval"} THEN to ELSE "in"
                  ELSE "away"
  BY <1>1
<1>3. QED BY <1>2, Goes

(* What a step of a process does to the part of the state that the books       *)
(* leave out.                                                                  *)
LEMMA CleanStep == Typed /\ Clean /\ [Next]_vars => Clean'
<1> SUFFICES ASSUME Typed, Clean, [Next]_vars PROVE Clean'
  OBVIOUS
<1>0. /\ current \in 0..MaxSets /\ sets \in 0..MaxSets /\ (current # 0 => current = sets)
      /\ value \in [Set -> Values] /\ undo \in [Process -> [Set -> Records]]
      /\ holds \in [Process -> [Set -> Nat]] /\ res \in [Process -> Resource] /\ TypeOK
  BY DEF Typed, TypeOK, SetsInOrder, Values, Records, Resource
<1>q. ASSUME sets <= sets', sets' \in Int,
             \A g \in Set : g > sets =>
               /\ value'[g] = value[g]
               /\ \A q \in Process : undo'[q][g] = undo[q][g] /\ holds'[q][g] = holds[q][g]
      PROVE  Clean'
  <2>1. \A g \in Set : g > sets' => g > sets
    BY <1>q, <1>0
  <2>2. QED BY <1>q, <2>1 DEF Clean
<1>o. ASSUME NEW p \in Process, Alive(res[p].id), NEW a \in Int, NEW b \in Int, NEW c \in Int,
             SemOp(p, res[p].id, Ops(a, b, c)),
             \A q \in Process, g \in Set : g # current => holds'[q][g] = holds[q][g]
      PROVE  Clean'
  <2>1. res[p].id = current /\ current \in Set /\ current = sets /\ Ops(a, b, c) \in Records
    BY <1>o, <1>0, OpsType
  <2>2. SemOp(p, current, Ops(a, b, c))
    BY <1>o, <2>1
  <2>3. /\ \A h \in Set : h # current => value'[h] = value[h]
        /\ \A q \in Process, h \in Set : q # p \/ h # current => undo'[q][h] = undo[q][h]
        /\ UNCHANGED <<current, sets>>
    BY <2>1, <2>2, <1>0, SemOpTypes, Zenon
  <2>4. \A g \in Set : g > sets => g # current
    BY <2>1
  <2>5. sets <= sets' /\ sets' \in Int
    BY <2>3, <1>0
  <2>6. QED BY <2>3, <2>4, <2>5, <1>o, <1>q
<1>1. ASSUME NEW p \in Process, NEW auto \in BOOLEAN, SemGet(p, auto) PROVE Clean'
  <2>1. UNCHANGED <<value, undo, holds>> /\ sets' = (IF current = 0 THEN sets + 1 ELSE sets)
    BY <1>1 DEF SemGet
  <2>2. sets <= sets' /\ sets' \in Int
    BY <2>1, <1>0
  <2>3. QED BY <2>1, <2>2, <1>q
<1>2. ASSUME NEW p \in Process, EnterGet(p) PROVE Clean'
  <2>1. UNCHANGED holds /\ Alive(res[p].id) /\ SemOp(p, res[p].id, Ops(0, 1, 1))
    BY <1>2 DEF EnterGet
  <2>2. 0 \in Int /\ 1 \in Int
    OBVIOUS
  <2>3. QED BY <2>1, <2>2, <1>o
<1>3. ASSUME NEW p \in Process,
             EnterFails(p) \/ GetGone(p) \/ GetCount(p) \/ SemAcquire(p) \/ AcquireFails(p) \/ Ends(p)
      PROVE  Clean'
  <2>1. UNCHANGED <<current, sets, value, undo, holds>>
    BY <1>3 DEF EnterFails, GetGone, GetCount, SemAcquire, AcquireFails, Ends
  <2>2. QED BY <2>1 DEF Clean
<1>4. ASSUME NEW p \in Process, SetVal(p) PROVE Clean'
  <2>1. /\ UNCHANGED <<current, sets, holds>> /\ res[p].id = current /\ current # 0
        /\ value' = [value EXCEPT ![current].sem = max_acquire]
        /\ undo' = [q \in Process |-> [undo[q] EXCEPT ![current].sem = 0]]
    BY <1>4 DEF SetVal
  <2>2. \A g \in Set : g > sets => g # current
    BY <2>1, <1>0
  <2>3. \A g \in Set : g # current => value'[g] = value[g]
    BY <2>1, <1>0
  <2>4. \A g \in Set : g # current => \A q \in Process : undo'[q][g] = undo[q][g]
    BY <2>1, <1>0
  <2>5. sets <= sets' /\ sets' \in Int
    BY <2>1, <1>0
  <2>6. QED BY <2>1, <2>2, <2>3, <2>4, <2>5, <1>q
<1>5. ASSUME NEW p \in Process, LeaveGet(p) PROVE Clean'
  <2>1. UNCHANGED holds /\ Alive(res[p].id) /\ SemOp(p, res[p].id, Ops(0, 0, -1))
    BY <1>5 DEF LeaveGet
  <2>2. 0 \in Int /\ -1 \in Int
    OBVIOUS
  <2>3. QED BY <2>1, <2>2, <1>o
<1>6. ASSUME NEW p \in Process, Acquired(p) PROVE Clean'
  <2>1. /\ Alive(res[p].id) /\ SemOp(p, res[p].id, Ops(-1, 0, 0))
        /\ holds' = [holds EXCEPT ![p][res[p].id] = @ + 1]
    BY <1>6 DEF Acquired
  <2>2. 0 \in Int /\ -1 \in Int
    OBVIOUS
  <2>3. \A q \in Process, g \in Set : g # current => holds'[q][g] = holds[q][g]
    BY <2>1, <1>0
  <2>4. QED BY <2>1, <2>2, <2>3, <1>o
<1>7. ASSUME NEW p \in Process, SemRelease(p) PROVE Clean'
  <2>1. /\ Alive(res[p].id) /\ SemOp(p, res[p].id, Ops(1, 0, 0))
        /\ holds' = [holds EXCEPT ![p][res[p].id] = @ - 1]
    BY <1>7 DEF SemRelease
  <2>2. 0 \in Int /\ 1 \in Int
    OBVIOUS
  <2>3. \A q \in Process, g \in Set : g # current => holds'[q][g] = holds[q][g]
    BY <2>1, <1>0
  <2>4. QED BY <2>1, <2>2, <2>3, <1>o
<1>8. ASSUME NEW p \in Process, SemRemove(p) PROVE Clean'
  <2>1. /\ UNCHANGED sets /\ current # 0
        /\ value' = [value EXCEPT ![current] = Zero]
        /\ undo' = [q \in Process |-> [undo[q] EXCEPT ![current] = Zero]]
        /\ holds' = [q \in Process |-> [holds[q] EXCEPT ![current] = 0]]
    BY <1>8 DEF SemRemove, Remove
  <2>2. \A g \in Set : g > sets => g # current
    BY <2>1, <1>0
  <2>3. \A g \in Set : g # current => value'[g] = value[g]
    BY <2>1, <1>0
  <2>4. \A g \in Set : g # current => \A q \in Process : undo'[q][g] = undo[q][g] /\ holds'[q][g] = holds[q][g]
    BY <2>1, <1>0
  <2>5. sets <= sets' /\ sets' \in Int
    BY <2>1, <1>0
  <2>6. QED BY <2>2, <2>3, <2>4, <2>5, <1>q
<1>9. ASSUME NEW p \in Process, ReleaseResource(p) PROVE Clean'
  <2>1. CASE res[p].count = -1 \/ ~res[p].auto_release \/ ~Alive(res[p].id)
    <3>1. UNCHANGED <<sets, value, undo, holds>>
      BY <1>9, <2>1 DEF ReleaseResource
    <3>2. QED BY <3>1 DEF Clean
  <2>2. CASE ~(res[p].count = -1 \/ ~res[p].auto_release \/ ~Alive(res[p].id))
    <3>1. /\ Alive(res[p].id) /\ SemOp(p, res[p].id, Ops(res[p].count, -1, 0))
          /\ holds' = [holds EXCEPT ![p][res[p].id] = @ - res[p].count]
      BY <1>9, <2>2 DEF ReleaseResource, GivenBack
    <3>2. 0 \in Int /\ -1 \in Int /\ res[p].count \in Int
      BY <1>0 DEF Resource
    <3>3. \A q \in Process, g \in Set : g # current => holds'[q][g] = holds[q][g]
      BY <3>1, <1>0
    <3>4. QED BY <3>1, <3>2, <3>3, <1>o
  <2>3. QED BY <2>1, <2>2
<1>10. ASSUME NEW p \in Process, NEW f \in Field, Undo(p, f) PROVE Clean'
  <2>1. /\ UNCHANGED <<sets, holds>>
        /\ value' = [g \in Set |-> [value[g] EXCEPT ![f] = Max0(@ + undo[p][g][f])]]
        /\ undo' = [undo EXCEPT ![p] = [g \in Set |-> [@[g] EXCEPT ![f] = 0]]]
    BY <1>10 DEF Undo
  <2>2. ASSUME NEW g \in Set, g > sets
        PROVE  value'[g] = Zero /\ \A q \in Process : undo'[q][g] = Zero
    <3>1. value[g] = Zero /\ \A q \in Process : undo[q][g] = Zero
      BY <2>2 DEF Clean
    <3>2. Max0(0 + 0) = 0
      BY DEF Max0
    <3>3. value'[g] = [value[g] EXCEPT ![f] = Max0(value[g][f] + undo[p][g][f])]
      BY <2>1
    <3>4. value[g][f] = 0 /\ undo[p][g][f] = 0
      BY <3>1
    <3>5. [value[g] EXCEPT ![f] = 0] = Zero
      BY <3>1
    <3>6. value'[g] = Zero
      BY <3>2, <3>3, <3>4, <3>5
    <3>7. undo'[p][g] = [undo[p][g] EXCEPT ![f] = 0]
      BY <2>1, <1>0
    <3>8. undo'[p][g] = Zero
      BY <3>1, <3>7
    <3>9. \A q \in Process : q # p => undo'[q] = undo[q]
      BY <2>1, <1>0
    <3>10. QED BY <3>1, <3>6, <3>8, <3>9
  <2>3. QED BY <2>1, <2>2 DEF Clean
<1>11. ASSUME NEW p \in Process, Ended(p) PROVE Clean'
  <2>1. UNCHANGED <<current, sets, value, undo>> /\ holds' = [holds EXCEPT ![p] = [g \in Set |-> 0]]
    BY <1>11 DEF Ended
  <2>2. \A q \in Process, g \in Set : holds'[q][g] \in {0, holds[q][g]}
    BY <2>1, <1>0
  <2>3. QED BY <2>1, <2>2 DEF Clean
<1>12. CASE UNCHANGED vars
  BY <1>12 DEF vars, Clean
<1>13. QED
  BY <1>1, <1>2, <1>3, <1>4, <1>5, <1>6, <1>7, <1>8, <1>9, <1>10, <1>11, <1>12 DEF Next, Step, InGet

LEMMA BeginsStep == Typed /\ Begins /\ [Next]_vars => Begins'
<1> SUFFICES ASSUME Typed, Begins, [Next]_vars PROVE Begins'
  OBVIOUS
<1>0. /\ pc \in [Process -> {"out", "get", "count", "setval", "unlock", "in", "acquire", "undo"}]
      /\ res \in [Process -> Resource]
  BY DEF Typed, TypeOK, Resource
<1>q. ASSUME NEW p \in Process, pc'[p] = "get" => res'[p].count = 0,
             \A q \in Process : q # p => pc'[q] = pc[q] /\ res'[q] = res[q]
      PROVE  Begins'
  BY <1>q DEF Begins
<1>1. ASSUME NEW p \in Process, NEW auto \in BOOLEAN, SemGet(p, auto) PROVE Begins'
  <2> DEFINE g == IF current = 0 THEN sets + 1 ELSE current
  <2>1. /\ res' = [res EXCEPT ![p] = [id |-> g, count |-> 0, auto_release |-> auto]]
        /\ pc' = [pc EXCEPT ![p] = "get"]
    BY <1>1 DEF SemGet
  <2> HIDE DEF g
  <2>2. res'[p].count = 0 /\ \A q \in Process : q # p => pc'[q] = pc[q] /\ res'[q] = res[q]
    BY <2>1, <1>0
  <2>3. QED BY <2>2, <1>q
<1>2. ASSUME NEW p \in Process, \/ InGet(p) \/ SemAcquire(p) \/ Acquired(p) \/ AcquireFails(p)
                                \/ ReleaseResource(p) \/ Ends(p) \/ Ended(p)
      PROVE  Begins'
  <2>1. \E to \in {"count", "setval", "unlock", "in", "acquire", "out", "undo"} : pc' = [pc EXCEPT ![p] = to]
    BY <1>2 DEF InGet, EnterGet, EnterFails, GetGone, GetCount, SetVal, LeaveGet, SemAcquire,
                Acquired, AcquireFails, ReleaseResource, Ends, Ended
  <2>2. res' = res \/ res' = [res EXCEPT ![p] = NoRes] \/ res' = [res EXCEPT ![p].count = @ + 1]
    BY <1>2 DEF InGet, EnterGet, EnterFails, GetGone, GetCount, SetVal, LeaveGet, SemAcquire,
                Acquired, AcquireFails, ReleaseResource, Ends, Ended
  <2>3. pc'[p] # "get" /\ \A q \in Process : q # p => pc'[q] = pc[q]
    BY <2>1, <1>0
  <2>4. \A q \in Process : q # p => res'[q] = res[q]
    BY <2>2, <1>0
  <2>5. QED BY <2>3, <2>4, <1>q
<1>3. ASSUME NEW p \in Process, SemRelease(p) \/ SemRemove(p) PROVE Begins'
  <2>1. pc' = pc /\ pc[p] = "in" /\ \E n : res' = [res EXCEPT ![p].count = n]
    BY <1>3 DEF SemRelease, SemRemove
  <2>2. \A q \in Process : q # p => res'[q] = res[q]
    BY <2>1, <1>0
  <2>3. QED BY <2>1, <2>2, <1>q
<1>4. ASSUME NEW p \in Process, NEW f \in Field, Undo(p, f) PROVE Begins'
  BY <1>4 DEF Undo, Begins
<1>5. CASE UNCHANGED vars
  BY <1>5 DEF vars, Begins
<1>6. QED BY <1>1, <1>2, <1>3, <1>4, <1>5 DEF Next, Step

(* No step unbalances the books.                                               *)
LEMMA BalancedStep ==
  ASSUME SemAssumption, IsFiniteSet(Process), Typed, Serial, BooksKept, [Next]_vars
  PROVE  Balanced'
<1>0. /\ TypeOK /\ current \in 0..MaxSets /\ sets \in 0..MaxSets
      /\ value \in [Set -> Values] /\ undo \in [Process -> [Set -> Records]]
      /\ pc \in [Process -> {"out", "get", "count", "setval", "unlock", "in", "acquire", "undo"}]
      /\ res \in [Process -> Resource] /\ holds \in [Process -> [Set -> Nat]]
      /\ \A q \in Process : res[q].count \in Int
  <2>1. TypeOK /\ res \in [Process -> Resource]
    BY DEF Typed, TypeOK, Resource
  <2>2. \A q \in Process : res[q].count \in Int
    BY <2>1 DEF Resource
  <2>3. QED BY <2>1, <2>2 DEF TypeOK, Values, Records, Resource
<1>i. current # 0 /\ current \notin spoiled =>
        /\ current \in Set /\ Recorded(current)
        /\ Balance(value[current]["usage"], value[current]["sem"], UsesOf, Units, Has, At, Counts)
  BY <1>0 DEF BooksKept, Balanced, Serial, OneRecord
<1>b. ASSUME current' # 0 /\ current' \notin spoiled' =>
               Balance(value'[current']["usage"], value'[current']["sem"], UsesOf', Units', Has', At', Counts')
      PROVE  Balanced'
  BY <1>b DEF Balanced
<1>c. ASSUME NEW p \in Process, \A q \in Process : q # p => res'[q] = res[q], res'[p].count \in Int
      PROVE  Counts' \in [Process -> Int] /\ \A q \in Process : q # p => Counts'[q] = Counts[q]
  <2>1. \A q \in Process : res'[q].count \in Int
    BY <1>c, <1>0
  <2>2. Counts' = [q \in Process |-> res'[q].count] /\ Counts = [q \in Process |-> res[q].count]
    BY DEF Counts
  <2> HIDE DEF Counts
  <2>3. QED BY <2>1, <2>2, <1>c
<1>s. ASSUME UNCHANGED <<current, value, undo, holds, res>>, spoiled \subseteq spoiled',
             NEW p \in Process, NEW to, pc' = [pc EXCEPT ![p] = to],
             current # 0 /\ current \notin spoiled' =>
               Balance(value[current]["usage"], value[current]["sem"], UsesOf, Units, Has,
                       [At EXCEPT ![p] = IF to = "undo" THEN "undo"
                          ELSE IF to \in Past /\ res[p].id = current
                               THEN IF to \in {"count", "setval"} THEN to ELSE "in" ELSE "away"], Counts)
      PROVE  Balanced'
  <2>1. UsesOf' = UsesOf /\ Units' = Units /\ Has' = Has /\ Counts' = Counts
    BY <1>s DEF UsesOf, Units, Has, Counts
  <2>2. At' = [At EXCEPT ![p] = IF to = "undo" THEN "undo"
                          ELSE IF to \in Past /\ res[p].id = current
                               THEN IF to \in {"count", "setval"} THEN to ELSE "in" ELSE "away"]
    BY <1>s, <1>0, Goes
  <2>3. value'[current']["usage"] = value[current]["usage"] /\ value'[current']["sem"] = value[current]["sem"]
        /\ current' = current
    BY <1>s
  <2>4. QED BY <1>s, <1>b, <2>1, <2>2, <2>3, Zenon
<1>a. ASSUME NEW p \in Process, NEW a, At[p] = a PROVE [At EXCEPT ![p] = a] = At
  BY <1>a DEF At
<1>1. ASSUME NEW p \in Process, NEW auto \in BOOLEAN, SemGet(p, auto) PROVE Balanced'
  <2> DEFINE g == IF current = 0 THEN sets + 1 ELSE current
  <2>1. /\ current' = g /\ UNCHANGED <<value, undo, holds, spoiled>>
        /\ res' = [res EXCEPT ![p] = [id |-> g, count |-> 0, auto_release |-> auto]]
        /\ pc[p] = "out" /\ pc' = [pc EXCEPT ![p] = "get"] /\ (current = 0 => sets < MaxSets)
    BY <1>1 DEF SemGet
  <2> HIDE DEF g
  <2>2. /\ res'[p].count = 0 /\ pc'[p] = "get"
        /\ \A q \in Process : q # p => res'[q] = res[q] /\ pc'[q] = pc[q]
    BY <2>1, <1>0
  <2>3. Counts' \in [Process -> Int] /\ \A q \in Process : q # p => Counts'[q] = Counts[q]
    BY <2>2, <1>c
  <2>4. CASE current # 0
    <3>1. current' = current
      BY <2>1, <2>4 DEF g
    <3>2. UsesOf' = UsesOf /\ Units' = Units /\ Has' = Has
      BY <2>1, <3>1 DEF UsesOf, Units, Has
    <3>3. At' = [At EXCEPT ![p] = "away"]
      BY <2>1, <2>2, <3>1, <1>0, GoesAway
    <3>4. At[p] = "away"
      BY <2>1 DEF At, Past
    <3>5. ASSUME current \notin spoiled
          PROVE  Balance(value[current]["usage"], value[current]["sem"], UsesOf, Units, Has,
                         [At EXCEPT ![p] = "away"], Counts')
      BY <2>3, <2>4, <3>4, <3>5, <1>i, BookGoes
    <3>6. QED BY <2>1, <3>1, <3>2, <3>3, <3>5, <1>b
  <2>5. CASE current = 0
    <3>1. current' = sets + 1 /\ sets + 1 \in Set /\ sets + 1 > sets
      BY <2>1, <2>5, <1>0 DEF g
    <3>2. value[sets + 1] = Zero
          /\ \A q \in Process : undo[q][sets + 1] = Zero /\ holds[q][sets + 1] = 0
      BY <3>1 DEF BooksKept, Clean
    <3> DEFINE none == [q \in Process |-> 0]
    <3>3. UsesOf' = none
      <4>1. \A q \in Process : 0 - undo'[q][current']["usage"] = 0
        BY <2>1, <3>1, <3>2
      <4>2. QED BY <4>1 DEF UsesOf
    <3>4. Units' = none
      <4>1. \A q \in Process : undo'[q][current']["sem"] = 0
        BY <2>1, <3>1, <3>2
      <4>2. QED BY <4>1 DEF Units
    <3>5. Has' = none
      <4>1. \A q \in Process : holds'[q][current'] = 0
        BY <2>1, <3>1, <3>2
      <4>2. QED BY <4>1 DEF Has
    <3>6. value'[current']["usage"] = 0 /\ value'[current']["sem"] = 0
      BY <2>1, <3>1, <3>2
    <3>7. \A q \in Process : ~(pc'[q] \in Past /\ res'[q].id = current')
      <4>1. TAKE q \in Process
      <4>2. CASE q = p
        BY <4>2, <2>2 DEF Past
      <4>3. CASE q # p
        <5>1. res[q].id \in Int /\ res[q].id <= sets
          BY <1>0 DEF Typed, SetsInOrder, Resource
        <5>2. QED BY <4>3, <5>1, <2>2, <3>1, <1>0
      <4>4. QED BY <4>2, <4>3
    <3>8. At' \in [Process -> Place] /\ \A q \in Process : At'[q] \in {"away", "undo"}
      <4>1. At' = [q \in Process |-> IF pc'[q] = "undo" THEN "undo" ELSE "away"]
        BY <3>7 DEF At
      <4>2. QED BY <4>1 DEF Place
    <3>9. Balance(0, 0, none, none, none, At', Counts')
      BY <3>8, <2>3, EmptyBooks
    <3> HIDE DEF none
    <3>10. QED BY <3>3, <3>4, <3>5, <3>6, <3>9, <1>b
  <2>6. QED BY <2>4, <2>5
<1>2. ASSUME NEW p \in Process, EnterGet(p) PROVE Balanced'
  <2>1. /\ pc[p] = "get" /\ pc' = [pc EXCEPT ![p] = "count"] /\ UNCHANGED <<res, holds, spoiled>>
        /\ Alive(res[p].id) /\ SemOp(p, res[p].id, Ops(0, 1, 1)) /\ V(res[p].id) = 0
    BY <1>2 DEF EnterGet, NobodyInGet, V
  <2>2. 0 \in Int /\ 1 \in Int
    OBVIOUS
  <2>3. /\ res[p].id = current /\ current \in Set /\ UNCHANGED <<current, sets>>
        /\ value'[current]["sem"] = value[current]["sem"] + 0
        /\ value'[current]["usage"] = value[current]["usage"] + 1
        /\ UsesOf' = [UsesOf EXCEPT ![p] = @ + 1] /\ Units' = [Units EXCEPT ![p] = @ - 0]
    <3>1. Booked(p, 0, 1)
      BY <2>1, <2>2, SemOpBooks, Zenon
    <3>2. QED BY <3>1 DEF Booked
  <2>4. ASSUME current \notin spoiled
        PROVE  Balance(value'[current]["usage"], value'[current]["sem"], UsesOf', Units', Has', At', Counts')
    <3>1. /\ Balance(value[current]["usage"], value[current]["sem"], UsesOf, Units, Has, At, Counts)
          /\ Recorded(current)
      BY <2>3, <2>4, <1>i
    <3>2. value[current]["sem"] \in Nat /\ Units \in [Process -> Nat]
      BY <3>1 DEF Balance, BookTypes
    <3>3. value'[current]["sem"] = value[current]["sem"]
      BY <2>3, <3>2
    <3>4. Units' = Units
      BY <2>3, <3>2
    <3>5. Has' = Has /\ Counts' = Counts
      BY <2>1, <2>3 DEF Has, Counts
    <3>6. At' = [At EXCEPT ![p] = "count"]
      BY <2>1, <2>3, <1>0, Goes DEF Past
    <3>7. At[p] = "away" /\ Counts[p] = 0
      BY <2>1 DEF At, Past, Counts, BooksKept, Begins
    <3>8. \A q \in Process : At[q] # "setval"
      <4>1. TAKE q \in Process
      <4>2. ~In(q, current)
        BY <2>1, <2>3, <3>1 DEF Recorded
      <4>3. QED BY <4>2 DEF In, At, Counting
    <3>9. Balance(value[current]["usage"] + 1, value[current]["sem"], [UsesOf EXCEPT ![p] = @ + 1], Units,
                  Has, [At EXCEPT ![p] = "count"], Counts)
      BY <3>1, <3>7, <3>8, BookUse
    <3>10. QED BY <2>3, <3>3, <3>4, <3>5, <3>6, <3>9, Zenon
  <2>5. current' = current /\ spoiled' = spoiled
    BY <2>1, <2>3
  <2>6. QED BY <2>4, <2>5, <1>b, Zenon
<1>3. ASSUME NEW p \in Process, EnterFails(p) PROVE Balanced'
  <2>1. current' = current /\ spoiled' = spoiled \cup {res[p].id} /\ res[p].id = current
    BY <1>3 DEF EnterFails
  <2>2. QED BY <2>1, <1>b
<1>4. ASSUME NEW p \in Process, GetGone(p) \/ AcquireFails(p) PROVE Balanced'
  <2>1. /\ UNCHANGED <<current, value, undo, holds, res, spoiled>> /\ pc' = [pc EXCEPT ![p] = "in"]
        /\ ~Alive(res[p].id) /\ pc[p] # "undo"
    BY <1>4 DEF GetGone, AcquireFails, GivesUp
  <2>2. ASSUME current # 0 PROVE At[p] = "away" /\ res[p].id # current
    BY <2>1, <2>2 DEF At
  <2>3. current # 0 => [At EXCEPT ![p] = "away"] = At
    BY <2>2, <1>a
  <2>4. QED BY <2>1, <2>2, <2>3, <1>i, <1>s
<1>5. ASSUME NEW p \in Process, GetCount(p) PROVE Balanced'
  <2>1. /\ UNCHANGED <<current, value, undo, holds, res>> /\ pc[p] = "count" /\ Alive(res[p].id)
        /\ pc' = [pc EXCEPT ![p] = IF OnlyUser(res[p].id) THEN "setval" ELSE "unlock"]
        /\ spoiled' = IF \E q \in Process : HalfUndone(q, res[p].id)
                      THEN spoiled \cup {res[p].id} ELSE spoiled
    BY <1>5 DEF GetCount
  <2>2. res[p].id = current /\ current # 0 /\ spoiled \subseteq spoiled' /\ At[p] = "count"
    BY <2>1 DEF At, Past
  <2>3. ASSUME current \notin spoiled'
        PROVE  /\ Balance(value[current]["usage"], value[current]["sem"], UsesOf, Units, Has, At, Counts)
               /\ \A q \in Process : At[q] \in {"count", "setval"} => q = p
               /\ \A q \in Process : At[q] = "undo" => UsesOf[q] = 0
    <3>1. Balance(value[current]["usage"], value[current]["sem"], UsesOf, Units, Has, At, Counts)
          /\ Recorded(current) /\ current \in Set
      BY <2>2, <2>3, <1>i
    <3>2. \A q \in Process : At[q] \in {"count", "setval"} => In(q, current)
      BY DEF At, In, Counting
    <3>3. \A q \in Process : ~HalfUndone(q, current)
      BY <2>1, <2>2, <2>3
    <3>4. \A q \in Process : At[q] = "undo" => pc[q] = "undo"
      BY DEF At
    <3>5. \A q \in Process : pc[q] = "undo" => undo[q][current]["usage"] = 0
      BY <3>3 DEF HalfUndone
    <3>6. \A q \in Process : UsesOf[q] = 0 - undo[q][current]["usage"]
      BY DEF UsesOf
    <3>7. \A q \in Process : At[q] = "undo" => UsesOf[q] = 0
      BY <3>4, <3>5, <3>6
    <3>8. QED BY <3>1, <3>2, <3>7, <2>2 DEF Recorded
  <2>4. CASE value[current]["usage"] = 1
    <3>1. pc' = [pc EXCEPT ![p] = "setval"]
      BY <2>1, <2>2, <2>4 DEF OnlyUser
    <3>2. current \notin spoiled' =>
             Balance(value[current]["usage"], value[current]["sem"], UsesOf, Units, Has,
                     [At EXCEPT ![p] = "setval"], Counts)
      BY <2>2, <2>3, <2>4, BookOnlyUser
    <3>3. "setval" # "undo" /\ "setval" \in Past
      BY DEF Past
    <3>4. QED BY <2>1, <2>2, <3>1, <3>2, <3>3, <1>s
  <2>5. CASE value[current]["usage"] # 1
    <3>1. pc' = [pc EXCEPT ![p] = "unlock"]
      BY <2>1, <2>2, <2>5 DEF OnlyUser
    <3>2. current \notin spoiled' =>
             Balance(value[current]["usage"], value[current]["sem"], UsesOf, Units, Has,
                     [At EXCEPT ![p] = "in"], Counts)
      BY <2>2, <2>3, <2>5, BookOtherUsers
    <3>3. "unlock" \notin {"undo", "count", "setval"} /\ "unlock" \in Past
      BY DEF Past
    <3>4. QED BY <2>1, <2>2, <3>1, <3>2, <3>3, <1>s
  <2>6. QED BY <2>4, <2>5
<1>6. ASSUME NEW p \in Process, SetVal(p) PROVE Balanced'
  <2>1. /\ UNCHANGED <<current, res, holds, spoiled>> /\ pc[p] = "setval"
        /\ res[p].id = current /\ current # 0 /\ pc' = [pc EXCEPT ![p] = "unlock"]
        /\ value' = [value EXCEPT ![current].sem = max_acquire]
        /\ undo' = [q \in Process |-> [undo[q] EXCEPT ![current].sem = 0]]
    BY <1>6 DEF SetVal
  <2>2. current \in Set
    BY <2>1, <1>0
  <2>3. value'[current]["sem"] = max_acquire /\ value'[current]["usage"] = value[current]["usage"]
    <3>1. value[current] \in Values /\ value' = [value EXCEPT ![current] = [@ EXCEPT !["sem"] = max_acquire]]
      BY <2>1, <2>2, <1>0
    <3>2. value'[current] = [value[current] EXCEPT !["sem"] = max_acquire]
      BY <2>2, <3>1, <1>0
    <3>3. QED BY <3>1, <3>2 DEF Values
  <2>4. \A q \in Process : undo'[q][current]["sem"] = 0
                           /\ undo'[q][current]["usage"] = undo[q][current]["usage"]
    <3>1. TAKE q \in Process
    <3>2. undo[q] \in [Set -> Records] /\ undo[q][current] \in Records
      BY <2>2, <1>0
    <3>3. undo'[q] = [undo[q] EXCEPT ![current] = [@ EXCEPT !["sem"] = 0]]
      BY <2>1
    <3>4. undo'[q][current] = [undo[q][current] EXCEPT !["sem"] = 0]
      BY <2>2, <3>2, <3>3
    <3>5. QED BY <3>2, <3>4 DEF Records
  <2>5. UsesOf' = UsesOf /\ Units' = [q \in Process |-> 0]
    BY <2>1, <2>4 DEF UsesOf, Units
  <2>6. Has' = Has /\ Counts' = Counts
    BY <2>1 DEF Has, Counts
  <2>7. At' = [At EXCEPT ![p] = "in"] /\ At[p] = "setval"
    <3>1. At' = [At EXCEPT ![p] = "in"]
      BY <2>1, <1>0, GoesIn
    <3>2. QED BY <3>1, <2>1 DEF At, Past
  <2>8. current \notin spoiled =>
          Balance(value[current]["usage"], max_acquire, UsesOf, [q \in Process |-> 0], Has,
                  [At EXCEPT ![p] = "in"], Counts)
    BY <2>1, <2>7, <1>i, BookSet
  <2>9. QED BY <2>1, <2>3, <2>5, <2>6, <2>7, <2>8, <1>b, Zenon
<1>7. ASSUME NEW p \in Process, LeaveGet(p) PROVE Balanced'
  <2>1. /\ pc[p] = "unlock" /\ pc' = [pc EXCEPT ![p] = "in"] /\ UNCHANGED <<res, holds, spoiled>>
        /\ Alive(res[p].id) /\ SemOp(p, res[p].id, Ops(0, 0, -1))
    BY <1>7 DEF LeaveGet
  <2>2. 0 \in Int /\ -1 \in Int
    OBVIOUS
  <2>3. /\ res[p].id = current /\ current \in Set /\ UNCHANGED <<current, sets>>
        /\ value'[current]["sem"] = value[current]["sem"] + 0
        /\ value'[current]["usage"] = value[current]["usage"] + 0
        /\ UsesOf' = [UsesOf EXCEPT ![p] = @ + 0] /\ Units' = [Units EXCEPT ![p] = @ - 0]
    <3>1. Booked(p, 0, 0)
      BY <2>1, <2>2, SemOpBooks, Zenon
    <3>2. QED BY <3>1 DEF Booked
  <2>4. ASSUME current \notin spoiled
        PROVE  Balance(value'[current]["usage"], value'[current]["sem"], UsesOf', Units', Has', At', Counts')
    <3>1. Balance(value[current]["usage"], value[current]["sem"], UsesOf, Units, Has, At, Counts)
      BY <2>3, <2>4, <1>i
    <3>2. /\ value[current]["sem"] \in Nat /\ value[current]["usage"] \in Nat
          /\ Units \in [Process -> Nat] /\ UsesOf \in [Process -> Nat]
      BY <3>1 DEF Balance, BookTypes
    <3>3. value'[current]["sem"] = value[current]["sem"] /\ value'[current]["usage"] = value[current]["usage"]
      BY <2>3, <3>2
    <3>4. Units' = Units /\ UsesOf' = UsesOf
      BY <2>3, <3>2
    <3>5. Has' = Has /\ Counts' = Counts
      BY <2>1, <2>3 DEF Has, Counts
    <3>6. At' = [At EXCEPT ![p] = "in"]
      BY <2>1, <2>3, <1>0, GoesIn
    <3>7. At[p] = "in"
      BY <2>1, <2>3 DEF At, Past
    <3>8. At' = At
      BY <3>6, <3>7, <1>a
    <3>9. QED BY <3>1, <3>3, <3>4, <3>5, <3>8, Zenon
  <2>5. current' = current /\ spoiled' = spoiled
    BY <2>1, <2>3
  <2>6. QED BY <2>4, <2>5, <1>b, Zenon
<1>8. ASSUME NEW p \in Process, SemAcquire(p) PROVE Balanced'
  <2>1. /\ UNCHANGED <<current, value, undo, holds, res, spoiled>> /\ pc' = [pc EXCEPT ![p] = "acquire"]
        /\ pc[p] = "in"
    BY <1>8 DEF SemAcquire
  <2>2. At[p] = IF res[p].id = current THEN "in" ELSE "away"
    BY <2>1 DEF At, Past
  <2>3. [At EXCEPT ![p] = IF res[p].id = current THEN "in" ELSE "away"] = At
    BY <2>2, <1>a
  <2>4. "acquire" \notin {"undo", "count", "setval"} /\ "acquire" \in Past
    BY DEF Past
  <2>5. spoiled \subseteq spoiled'
    BY <2>1
  <2>6. QED BY <2>1, <2>3, <2>4, <2>5, <1>i, <1>s
<1>u. ASSUME NEW p \in Process, NEW d \in Int, NEW a \in Int, a + d = 0, UNCHANGED spoiled, Alive(res[p].id),
             SemOp(p, res[p].id, Ops(a, 0, 0)), NEW to \in {"in", "acquire"},
             pc[p] \in {"in", "acquire"}, pc' = [pc EXCEPT ![p] = to],
             res' = [res EXCEPT ![p].count = @ + d],
             holds' = [holds EXCEPT ![p][res[p].id] = @ + d],
             holds[p][res[p].id] + d \in Nat
      PROVE  Balanced'
  <2>1. 0 \in Int
    OBVIOUS
  <2>2. /\ res[p].id = current /\ current \in Set /\ UNCHANGED <<current, sets>>
        /\ value'[current]["sem"] = value[current]["sem"] + a
        /\ value'[current]["usage"] = value[current]["usage"] + 0
        /\ UsesOf' = [UsesOf EXCEPT ![p] = @ + 0] /\ Units' = [Units EXCEPT ![p] = @ - a]
        /\ value[current]["sem"] + a \in Nat
    <3>1. Booked(p, a, 0)
      BY <2>1, <1>u, SemOpBooks, Zenon
    <3>2. QED BY <3>1 DEF Booked
  <2>3. ASSUME current \notin spoiled
        PROVE  Balance(value'[current]["usage"], value'[current]["sem"], UsesOf', Units', Has', At', Counts')
    <3>1. Balance(value[current]["usage"], value[current]["sem"], UsesOf, Units, Has, At, Counts)
      BY <2>2, <2>3, <1>i
    <3>2. /\ value[current]["sem"] \in Nat /\ value[current]["usage"] \in Nat
          /\ Units \in [Process -> Nat] /\ UsesOf \in [Process -> Nat]
          /\ \A q \in Process : Row(UsesOf, Units, Has, At, Counts, q)
      BY <3>1 DEF Balance, BookTypes
    <3>3. At[p] = "in"
      BY <2>2, <1>u DEF At, Past
    <3>4. Units[p] = Has[p] /\ Has[p] = holds[p][current]
      <4>1. Units[p] = Has[p]
        BY <3>2, <3>3 DEF Row
      <4>2. QED BY <4>1 DEF Has
    <3>5. value'[current]["sem"] = value[current]["sem"] - d /\ value'[current]["usage"] = value[current]["usage"]
          /\ value[current]["sem"] - d \in Nat
      BY <2>2, <3>2, <1>u
    <3>6. UsesOf' = UsesOf
      BY <2>2, <3>2
    <3>7. Units' = [Units EXCEPT ![p] = @ + d]
      <4>1. Units[p] - a = Units[p] + d
        BY <3>2, <1>u
      <4>2. QED BY <2>2, <4>1
    <3>8. Has' = [Has EXCEPT ![p] = @ + d]
      <4>1. /\ holds'[p][current] = holds[p][current] + d
            /\ \A q \in Process : q # p => holds'[q] = holds[q]
        BY <1>u, <2>2, <1>0
      <4>2. Has' = [q \in Process |-> IF q = p THEN Has[p] + d ELSE Has[q]]
        BY <4>1, <2>2 DEF Has
      <4>3. [Has EXCEPT ![p] = @ + d] = [q \in Process |-> IF q = p THEN Has[p] + d ELSE Has[q]]
        BY DEF Has
      <4>4. QED BY <4>2, <4>3
    <3>9. /\ res'[p].id = current /\ res'[p].count = res[p].count + d
          /\ \A q \in Process : q # p => res'[q] = res[q]
      BY <1>u, <2>2, <1>0 DEF Resource
    <3>10. Counts' = [Counts EXCEPT ![p] = @ + d]
      <4>1. Counts' = [q \in Process |-> IF q = p THEN Counts[p] + d ELSE Counts[q]]
        BY <3>9 DEF Counts
      <4>2. [Counts EXCEPT ![p] = @ + d] = [q \in Process |-> IF q = p THEN Counts[p] + d ELSE Counts[q]]
        BY DEF Counts
      <4>3. QED BY <4>1, <4>2
    <3>11. At' = [At EXCEPT ![p] = "in"]
      BY <3>9, <2>2, <1>u, <1>0, GoesIn
    <3>12. At' = At
      BY <3>3, <3>11, <1>a
    <3>13. Units[p] + d \in Nat
      BY <1>u, <2>2, <3>4
    <3>14. Balance(value[current]["usage"], value[current]["sem"] - d, UsesOf, [Units EXCEPT ![p] = @ + d],
                   [Has EXCEPT ![p] = @ + d], At, [Counts EXCEPT ![p] = @ + d])
      BY <3>1, <3>3, <3>5, <3>13, BookUnits
    <3>15. QED BY <3>5, <3>6, <3>7, <3>8, <3>10, <3>12, <3>14, Zenon
  <2>4. current' = current /\ spoiled' = spoiled
    BY <1>u, <2>2
  <2>5. QED BY <2>3, <2>4, <1>b, Zenon
<1>h. ASSUME NEW p \in Process, Alive(res[p].id)
      PROVE  /\ res[p].id = current /\ current \in Set /\ holds[p][current] \in Nat
             /\ res[p].count # -1 /\ res[p].count <= holds[p][current] /\ res[p].count \in -1..MaxCount
  BY <1>h, <1>0 DEF Typed, SetsInOrder, Resource
<1>9. ASSUME NEW p \in Process, Acquired(p) PROVE Balanced'
  <2>1. /\ UNCHANGED spoiled /\ pc[p] = "acquire" /\ pc' = [pc EXCEPT ![p] = "in"]
        /\ Alive(res[p].id) /\ SemOp(p, res[p].id, Ops(-1, 0, 0))
        /\ res' = [res EXCEPT ![p].count = @ + 1]
        /\ holds' = [holds EXCEPT ![p][res[p].id] = @ + 1]
    BY <1>9 DEF Acquired
  <2>2. 1 \in Int /\ -1 \in Int /\ -1 + 1 = 0 /\ holds[p][res[p].id] + 1 \in Nat
    BY <2>1, <1>h
  <2>3. QED BY <2>1, <2>2, <1>u
<1>10. ASSUME NEW p \in Process, SemRelease(p) PROVE Balanced'
  <2>1. /\ UNCHANGED <<spoiled, pc>> /\ pc[p] = "in" /\ res[p].count # 0
        /\ Alive(res[p].id) /\ SemOp(p, res[p].id, Ops(1, 0, 0))
        /\ res' = [res EXCEPT ![p].count = @ - 1]
        /\ holds' = [holds EXCEPT ![p][res[p].id] = @ - 1]
    BY <1>10 DEF SemRelease, AcquiredBefore
  <2>0. PICK d \in Int : 1 + d = 0
    BY -1 \in Int, 1 + (-1) = 0
  <2>2. holds[p][res[p].id] \in Nat /\ res[p].count \in Int /\ 1 <= holds[p][res[p].id]
    BY <2>1, <1>h
  <2>3. holds[p][res[p].id] + d \in Nat /\ res[p].count + d = res[p].count - 1
        /\ holds[p][res[p].id] + d = holds[p][res[p].id] - 1 /\ 1 \in Int
    BY <2>0, <2>2
  <2>4. pc' = [pc EXCEPT ![p] = "in"]
    BY <2>1, <1>0
  <2>5. res' = [res EXCEPT ![p].count = @ + d] /\ holds' = [holds EXCEPT ![p][res[p].id] = @ + d]
    BY <2>1, <2>3
  <2>6. QED BY <2>0, <2>1, <2>3, <2>4, <2>5, <1>u
<1>11. ASSUME NEW p \in Process, SemRemove(p) PROVE Balanced'
  BY <1>11, <1>b DEF SemRemove, Remove
<1>12. ASSUME NEW p \in Process, ReleaseResource(p) PROVE Balanced'
  <2>1. /\ UNCHANGED spoiled /\ res' = [res EXCEPT ![p] = NoRes]
        /\ pc[p] = "in" /\ pc' = [pc EXCEPT ![p] = "out"]
    BY <1>12 DEF ReleaseResource
  <2>2. res'[p].count \in Int /\ \A q \in Process : q # p => res'[q] = res[q]
    BY <2>1, <1>0
  <2>3. Counts' \in [Process -> Int] /\ \A q \in Process : q # p => Counts'[q] = Counts[q]
    BY <2>2, <1>c
  <2>4. At[p] \in {"away", "in"} /\ (res[p].id = current => At[p] = "in")
    BY <2>1 DEF At, Past
  <2>5. CASE res[p].count = -1 \/ ~res[p].auto_release \/ ~Alive(res[p].id)
    <3>1. UNCHANGED <<current, value, undo, holds>>
      BY <1>12, <2>5 DEF ReleaseResource
    <3>2. UsesOf' = UsesOf /\ Units' = Units /\ Has' = Has
      BY <3>1 DEF UsesOf, Units, Has
    <3>3. At' = [At EXCEPT ![p] = "away"]
      BY <2>1, <2>2, <3>1, <1>0, GoesAway
    <3>4. current # 0 /\ current \notin spoiled =>
            Balance(value[current]["usage"], value[current]["sem"], UsesOf, Units, Has,
                    [At EXCEPT ![p] = "away"], Counts')
      BY <2>3, <2>4, <1>i, BookGoes
    <3>5. QED BY <2>1, <3>1, <3>2, <3>3, <3>4, <1>b
  <2>6. CASE ~(res[p].count = -1 \/ ~res[p].auto_release \/ ~Alive(res[p].id))
    <3>1. /\ Alive(res[p].id) /\ SemOp(p, res[p].id, Ops(res[p].count, -1, 0))
          /\ holds' = [holds EXCEPT ![p][res[p].id] = @ - res[p].count] /\ res[p].count # -1
      BY <1>12, <2>6 DEF ReleaseResource, GivenBack
    <3> DEFINE c == res[p].count
    <3>2. /\ res[p].id = current /\ current \in Set /\ holds[p][current] \in Nat
          /\ c \in Int /\ 0 <= c /\ c <= holds[p][current] /\ -1 \in Int /\ 0 \in Int
      BY <3>1, <1>h
    <3>3. SemOp(p, res[p].id, Ops(c, -1, 0)) /\ Alive(res[p].id)
      BY <3>1
    <3> HIDE DEF c
    <3>4. /\ UNCHANGED <<current, sets>>
          /\ value'[current]["sem"] = value[current]["sem"] + c
          /\ value'[current]["usage"] = value[current]["usage"] + (-1)
          /\ UsesOf' = [UsesOf EXCEPT ![p] = @ + (-1)] /\ Units' = [Units EXCEPT ![p] = @ - c]
      <4>1. Booked(p, c, -1)
        BY <3>2, <3>3, SemOpBooks, Zenon
      <4>2. QED BY <4>1 DEF Booked
    <3>5. ASSUME current \notin spoiled
          PROVE  Balance(value'[current]["usage"], value'[current]["sem"], UsesOf', Units', Has', At', Counts')
      <4>1. Balance(value[current]["usage"], value[current]["sem"], UsesOf, Units, Has, At, Counts)
        BY <3>2, <3>5, <1>i
      <4>2. value[current]["usage"] \in Nat /\ UsesOf \in [Process -> Nat]
        BY <4>1 DEF Balance, BookTypes
      <4>3. value'[current]["usage"] = value[current]["usage"] - 1
        BY <3>4, <4>2
      <4>4. UsesOf' = [UsesOf EXCEPT ![p] = @ - 1]
        <5>1. UsesOf[p] + (-1) = UsesOf[p] - 1
          BY <4>2
        <5>2. QED BY <3>4, <5>1
      <4>5. Counts[p] = c /\ Has[p] = holds[p][current] /\ At[p] = "in"
        BY <2>4, <3>2 DEF Counts, Has, c
      <4>6. Has' = [Has EXCEPT ![p] = @ - Counts[p]]
        <5>1. /\ holds'[p][current] = holds[p][current] - c
              /\ \A q \in Process : q # p => holds'[q] = holds[q]
          BY <3>1, <3>2, <1>0 DEF c
        <5>2. Has' = [q \in Process |-> IF q = p THEN Has[p] - c ELSE Has[q]]
          BY <5>1, <3>4 DEF Has
        <5>3. [Has EXCEPT ![p] = @ - c] = [q \in Process |-> IF q = p THEN Has[p] - c ELSE Has[q]]
          BY DEF Has
        <5>4. QED BY <5>2, <5>3, <4>5
      <4>7. At' = [At EXCEPT ![p] = "away"]
        BY <2>1, <2>2, <3>4, <1>0, GoesAway
      <4>8. Balance(value[current]["usage"] - 1, value[current]["sem"] + Counts[p],
                    [UsesOf EXCEPT ![p] = @ - 1], [Units EXCEPT ![p] = @ - Counts[p]],
                    [Has EXCEPT ![p] = @ - Counts[p]], [At EXCEPT ![p] = "away"], Counts')
        BY <4>1, <4>5, <2>3, <3>2, BookRelease
      <4>9. QED BY <3>4, <4>3, <4>4, <4>5, <4>6, <4>7, <4>8, Zenon
    <3>6. current' = current /\ spoiled' = spoiled
      BY <2>1, <3>4
    <3>7. QED BY <3>5, <3>6, <1>b, Zenon
  <2>7. QED BY <2>5, <2>6
<1>13. ASSUME NEW p \in Process, Ends(p) PROVE Balanced'
  <2>1. /\ UNCHANGED <<current, value, undo, holds, spoiled>>
        /\ res' = [res EXCEPT ![p] = NoRes] /\ pc' = [pc EXCEPT ![p] = "undo"]
    BY <1>13 DEF Ends
  <2>2. res'[p].count \in Int /\ \A q \in Process : q # p => res'[q] = res[q]
    BY <2>1, <1>0
  <2>3. Counts' \in [Process -> Int] /\ \A q \in Process : q # p => Counts'[q] = Counts[q]
    BY <2>2, <1>c
  <2>4. UsesOf' = UsesOf /\ Units' = Units /\ Has' = Has
    BY <2>1 DEF UsesOf, Units, Has
  <2>5. At' = [At EXCEPT ![p] = "undo"]
    BY <2>1, <2>2, <1>0, Goes
  <2>6. current # 0 /\ current \notin spoiled =>
          Balance(value[current]["usage"], value[current]["sem"], UsesOf, Units, Has,
                  [At EXCEPT ![p] = "undo"], Counts')
    BY <2>3, <1>i, BookGoes
  <2>7. QED BY <2>1, <2>4, <2>5, <2>6, <1>b
<1>14. ASSUME NEW p \in Process, NEW f \in Field, Undo(p, f) PROVE Balanced'
  <2>1. /\ UNCHANGED <<current, pc, res, holds, spoiled>> /\ pc[p] = "undo"
        /\ value' = [g \in Set |-> [value[g] EXCEPT ![f] = Max0(@ + undo[p][g][f])]]
        /\ undo' = [undo EXCEPT ![p] = [g \in Set |-> [@[g] EXCEPT ![f] = 0]]]
    BY <1>14 DEF Undo
  <2>2. Has' = Has /\ At' = At /\ Counts' = Counts /\ At[p] = "undo"
    BY <2>1 DEF Has, At, Counts
  <2>3. ASSUME current # 0, current \notin spoiled
        PROVE  Balance(value'[current]["usage"], value'[current]["sem"], UsesOf', Units', Has', At', Counts')
    <3>1. /\ Balance(value[current]["usage"], value[current]["sem"], UsesOf, Units, Has, At, Counts)
          /\ current \in Set
      BY <2>3, <1>i
    <3>2. /\ value[current]["usage"] \in Nat /\ value[current]["sem"] \in Nat
          /\ UsesOf \in [Process -> Nat] /\ Units \in [Process -> Nat]
      BY <3>1 DEF Balance, BookTypes
    <3>3. value[current] \in Values /\ undo[p][current] \in Records
      BY <3>1, <1>0
    <3>4. \A h \in Field :
            /\ value'[current][h] = IF h = f THEN Max0(value[current][f] + undo[p][current][f])
                                    ELSE value[current][h]
            /\ undo'[p][current][h] = IF h = f THEN 0 ELSE undo[p][current][h]
      <4>1. value'[current] = [value[current] EXCEPT ![f] = Max0(value[current][f] + undo[p][current][f])]
        BY <2>1, <3>1
      <4>2. undo'[p][current] = [undo[p][current] EXCEPT ![f] = 0]
        BY <2>1, <3>1, <1>0
      <4>3. QED BY <4>1, <4>2, <3>3, Zenon DEF Values, Records
    <3>5. \A q \in Process : q # p => undo'[q] = undo[q]
      BY <2>1, <1>0
    <3>6. /\ \A q \in Process : UsesOf[q] = 0 - undo[q][current]["usage"] /\ Units[q] = undo[q][current]["sem"]
          /\ undo[p][current]["usage"] \in Int /\ undo[p][current]["sem"] \in Int
      BY <3>3 DEF UsesOf, Units, Records
    <3>7. CASE f = "usage"
      <4>1. /\ value[current]["usage"] - UsesOf[p] \in Nat
            /\ Balance(value[current]["usage"] - UsesOf[p], value[current]["sem"], [UsesOf EXCEPT ![p] = 0],
                       Units, Has, At, Counts)
        BY <2>2, <3>1, BookUndoUses
      <4>2. value'[current]["usage"] = value[current]["usage"] - UsesOf[p]
            /\ value'[current]["sem"] = value[current]["sem"]
        <5>1. value[current]["usage"] + undo[p][current]["usage"] = value[current]["usage"] - UsesOf[p]
          BY <3>2, <3>6
        <5>2. Max0(value[current]["usage"] - UsesOf[p]) = value[current]["usage"] - UsesOf[p]
          BY <4>1 DEF Max0
        <5>3. QED BY <5>1, <5>2, <3>4, <3>7
      <4>3. UsesOf' = [UsesOf EXCEPT ![p] = 0]
        <5>1. \A q \in Process : 0 - undo'[q][current']["usage"] = IF q = p THEN 0 ELSE UsesOf[q]
          <6> TAKE q \in Process
          <6>1. CASE q = p
            <7>1. undo'[q][current']["usage"] = 0 /\ 0 - 0 = 0
              BY <6>1, <3>4, <3>7, <2>1
            <7>2. QED BY <6>1, <7>1
          <6>2. CASE q # p
            BY <6>2, <3>5, <3>6, <2>1
          <6>3. QED BY <6>1, <6>2
        <5>2. UsesOf' = [q \in Process |-> IF q = p THEN 0 ELSE UsesOf[q]]
          BY <5>1, Zenon DEF UsesOf
        <5>3. QED BY <5>2, <3>2
      <4>4. Units' = Units
        <5>1. \A q \in Process : undo'[q][current']["sem"] = undo[q][current]["sem"]
          <6> TAKE q \in Process
          <6>1. CASE q = p
            BY <6>1, <3>4, <3>7, <2>1
          <6>2. CASE q # p
            BY <6>2, <3>5, <2>1
          <6>3. QED BY <6>1, <6>2
        <5>2. QED BY <5>1, Zenon DEF Units
      <4>5. QED BY <2>2, <4>1, <4>2, <4>3, <4>4, Zenon
    <3>8. CASE f = "sem"
      <4>1. Balance(value[current]["usage"], value[current]["sem"] + Units[p], UsesOf,
                    [Units EXCEPT ![p] = 0], Has, At, Counts)
        BY <2>2, <3>1, BookUndoUnits
      <4>2. value'[current]["sem"] = value[current]["sem"] + Units[p]
            /\ value'[current]["usage"] = value[current]["usage"]
        <5>1. value[current]["sem"] + undo[p][current]["sem"] = value[current]["sem"] + Units[p]
          BY <3>6
        <5>2. Max0(value[current]["sem"] + Units[p]) = value[current]["sem"] + Units[p]
          BY <3>2 DEF Max0
        <5>3. QED BY <5>1, <5>2, <3>4, <3>8
      <4>3. Units' = [Units EXCEPT ![p] = 0]
        <5>1. \A q \in Process : undo'[q][current']["sem"] = IF q = p THEN 0 ELSE Units[q]
          <6> TAKE q \in Process
          <6>1. CASE q = p
            BY <6>1, <3>4, <3>8, <2>1
          <6>2. CASE q # p
            BY <6>2, <3>5, <3>6, <2>1
          <6>3. QED BY <6>1, <6>2
        <5>2. Units' = [q \in Process |-> IF q = p THEN 0 ELSE Units[q]]
          BY <5>1, Zenon DEF Units
        <5>3. QED BY <5>2, <3>2
      <4>4. UsesOf' = UsesOf
        <5>1. \A q \in Process : undo'[q][current']["usage"] = undo[q][current]["usage"]
          <6> TAKE q \in Process
          <6>1. CASE q = p
            BY <6>1, <3>4, <3>8, <2>1
          <6>2. CASE q # p
            BY <6>2, <3>5, <2>1
          <6>3. QED BY <6>1, <6>2
        <5>2. QED BY <5>1, Zenon DEF UsesOf
      <4>5. QED BY <2>2, <4>1, <4>2, <4>3, <4>4, Zenon
    <3>9. CASE f = "setval"
      <4>1. /\ value'[current]["usage"] = value[current]["usage"]
            /\ value'[current]["sem"] = value[current]["sem"]
        BY <3>4, <3>9
      <4>2. \A q \in Process : /\ undo'[q][current']["usage"] = undo[q][current]["usage"]
                               /\ undo'[q][current']["sem"] = undo[q][current]["sem"]
        <5> TAKE q \in Process
        <5>1. CASE q = p
          BY <5>1, <3>4, <3>9, <2>1
        <5>2. CASE q # p
          BY <5>2, <3>5, <2>1
        <5>3. QED BY <5>1, <5>2
      <4>3. UsesOf' = UsesOf /\ Units' = Units
        BY <4>2, Zenon DEF UsesOf, Units
      <4>4. QED BY <2>2, <3>1, <4>1, <4>3, Zenon
    <3>10. QED BY <3>7, <3>8, <3>9
  <2>4. current' = current /\ spoiled' = spoiled
    BY <2>1
  <2>5. QED BY <2>3, <2>4, <1>b, Zenon
<1>15. ASSUME NEW p \in Process, Ended(p) PROVE Balanced'
  <2>1. /\ UNCHANGED <<current, value, undo, res, spoiled>> /\ pc[p] = "undo"
        /\ undo[p] = [g \in Set |-> Zero] /\ pc' = [pc EXCEPT ![p] = "out"]
        /\ holds' = [holds EXCEPT ![p] = [g \in Set |-> 0]]
    BY <1>15 DEF Ended
  <2>2. UsesOf' = UsesOf /\ Units' = Units /\ Counts' = Counts
    BY <2>1 DEF UsesOf, Units, Counts
  <2>3. At' = [At EXCEPT ![p] = "away"] /\ At[p] = "undo"
    <3>1. At' = [At EXCEPT ![p] = "away"]
      BY <2>1, <1>0, GoesAway
    <3>2. QED BY <3>1, <2>1 DEF At
  <2>4. ASSUME current # 0, current \notin spoiled
        PROVE  Balance(value'[current]["usage"], value'[current]["sem"], UsesOf', Units', Has', At', Counts')
    <3>1. current \in Set
          /\ Balance(value[current]["usage"], value[current]["sem"], UsesOf, Units, Has, At, Counts)
      BY <2>4, <1>i
    <3>2. UsesOf[p] = 0 /\ Units[p] = 0
      <4>1. undo[p][current]["usage"] = 0 /\ undo[p][current]["sem"] = 0
        BY <2>1, <3>1
      <4>2. QED BY <4>1 DEF UsesOf, Units
    <3>3. Has' = [Has EXCEPT ![p] = 0]
      <4>1. holds'[p][current] = 0 /\ \A q \in Process : q # p => holds'[q] = holds[q]
        BY <2>1, <3>1, <1>0
      <4>2. Has' = [q \in Process |-> IF q = p THEN 0 ELSE Has[q]]
        BY <4>1, <2>1 DEF Has
      <4>3. [Has EXCEPT ![p] = 0] = [q \in Process |-> IF q = p THEN 0 ELSE Has[q]]
        BY DEF Has
      <4>4. QED BY <4>2, <4>3
    <3>4. Balance(value[current]["usage"], value[current]["sem"], UsesOf, Units, [Has EXCEPT ![p] = 0],
                  [At EXCEPT ![p] = "away"], Counts)
      BY <2>3, <3>1, <3>2, BookEnded
    <3>5. QED BY <2>1, <2>2, <2>3, <3>3, <3>4, Zenon
  <2>5. current' = current /\ spoiled' = spoiled
    BY <2>1
  <2>6. QED BY <2>4, <2>5, <1>b, Zenon
<1>16. CASE UNCHANGED vars
  <2>1. UNCHANGED <<current, value, undo, pc, res, holds, spoiled>>
    BY <1>16 DEF vars
  <2>2. UsesOf' = UsesOf /\ Units' = Units /\ Has' = Has /\ At' = At /\ Counts' = Counts
    BY <2>1 DEF UsesOf, Units, Has, At, Counts
  <2>3. QED BY <2>1, <2>2, <1>b, <1>i
<1>17. QED
  BY <1>1, <1>2, <1>3, <1>4, <1>5, <1>6, <1>7, <1>8, <1>9, <1>10, <1>11, <1>12, <1>13, <1>14,
     <1>15, <1>16 DEF Next, Step, InGet

LEMMA BooksStep ==
  ASSUME IsFiniteSet(Process)
  PROVE  Typed /\ Serial /\ BooksKept /\ [Next]_vars => BooksKept'
BY SemAssumption, CleanStep, BeginsStep, BalancedStep DEF BooksKept

(* Who has the semaphore finds max_acquire units, free or acquired, whatever   *)
(* processes came, went and died before: SEM_UNDO gives back what they had.    *)
THEOREM UnitsAreConserved ==
  ASSUME IsFiniteSet(Process)
  PROVE  Spec => []UnitsConserved
<1>1. Init => Typed /\ Serial /\ BooksKept
  BY TypesInit, SerialInit, BooksInit
<1>2. Typed /\ Serial /\ BooksKept /\ [Next]_vars => Typed' /\ Serial' /\ BooksKept'
  BY TypesStep, SerialStep, BooksStep
<1>3. Typed /\ Serial /\ BooksKept => UnitsConserved
  BY BooksSay
<1>4. QED BY <1>1, <1>2, <1>3, PTL DEF Spec

-----------------------------------------------------------------------------
(***************************************************************************)
(* Variables in shared memory, when scripts hold the semaphore to attach.  *)
(***************************************************************************)
(* The memory below "e" consists of whole chunks of different variables. *)
Memory == [Unit -> Cell]
Size(m, u) == units[m[u].val]
Heads(m, e) == {u \in Unit : u < e /\ m[u].part = 1}
Chunk(m, u, e) ==
  /\ m[u].key \in Key /\ m[u].val \in Value /\ u + Size(m, u) <= e
  /\ \A x \in u..(u + Size(m, u) - 1) :
       m[x] = [key |-> m[u].key, val |-> m[u].val, part |-> x - u + 1]
Covered(m, x, e) == \E u \in Heads(m, e) : u <= x /\ x < u + Size(m, u)
Tiled(m, e) ==
  /\ m \in Memory /\ e \in 1..shm_size
  /\ \A x \in 1..(e - 1) : Covered(m, x, e)
  /\ \A u \in Heads(m, e) : Chunk(m, u, e)
  /\ \A u, w \in Heads(m, e) : m[u].key = m[w].key => u = w

LEMMA SizeFacts ==
  ASSUME ShmAssumption, NEW m, NEW e, Tiled(m, e), NEW u \in Heads(m, e)
  PROVE  /\ u \in Nat /\ 1 <= u /\ u < e /\ u \in Unit /\ e \in Nat /\ e <= shm_size
         /\ Size(m, u) \in Nat /\ 1 <= Size(m, u) /\ u + Size(m, u) <= e
         /\ m[u] \in Cell /\ m[u].part = 1 /\ m[u].key \in Key /\ m[u].val \in Value
<1>1. shm_size \in Nat /\ e \in Nat /\ e <= shm_size /\ u \in Unit /\ u < e /\ m[u].part = 1
  BY DEF ShmAssumption, Tiled, Heads
<1>2. u \in Nat /\ 1 <= u
  BY <1>1 DEF Unit
<1>3. m[u] \in Cell
  BY <1>1 DEF Tiled, Memory
<1>4. Chunk(m, u, e)
  BY DEF Tiled
<1>5. m[u].val \in Value /\ units \in [Value -> Nat \ {0}]
  BY <1>4 DEF Chunk, ShmAssumption
<1>6. Size(m, u) \in Nat \ {0}
  BY <1>5 DEF Size
<1>7. QED BY <1>1, <1>2, <1>3, <1>4, <1>6 DEF Chunk

(* No other chunk begins within one. *)
LEMMA Apart ==
  ASSUME ShmAssumption, NEW m, NEW e, Tiled(m, e),
         NEW u \in Heads(m, e), NEW w \in Heads(m, e), u < w
  PROVE  u + Size(m, u) <= w
<1>1. /\ u \in Nat /\ w \in Nat /\ Size(m, u) \in Nat /\ m[w].part = 1
  BY SizeFacts
<1>2. SUFFICES ASSUME w < u + Size(m, u) PROVE FALSE
  BY <1>1
<1>3. w \in u..(u + Size(m, u) - 1)
  BY <1>1, <1>2
<1>4. m[w] = [key |-> m[u].key, val |-> m[u].val, part |-> w - u + 1]
  BY <1>3 DEF Tiled, Chunk
<1>5. w - u + 1 = 1
  BY <1>1, <1>4
<1>6. QED BY <1>1, <1>5

(* A chunk is followed by another one or by the end. *)
LEMMA NextHead ==
  ASSUME ShmAssumption, NEW m, NEW e, Tiled(m, e), NEW u \in Heads(m, e)
  PROVE  u + Size(m, u) \in Heads(m, e) \cup {e}
<1>1. u \in Nat /\ e \in Nat /\ Size(m, u) \in Nat /\ 1 <= Size(m, u) /\ u + Size(m, u) <= e /\ 1 <= u
  BY SizeFacts
<1> DEFINE w == u + Size(m, u)
<1>2. SUFFICES ASSUME w # e PROVE w \in Heads(m, e)
  OBVIOUS
<1>3. w \in 1..(e - 1)
  BY <1>1, <1>2
<1>4. PICK c \in Heads(m, e) : c <= w /\ w < c + Size(m, c)
  BY <1>3 DEF Tiled, Covered
<1>5. c \in Nat /\ Size(m, c) \in Nat
  BY SizeFacts
<1>6. CASE c < u
  <2>1. c + Size(m, c) <= u
    BY <1>6, Apart
  <2>2. QED BY <2>1, <1>1, <1>4, <1>5
<1>7. CASE c = u
  BY <1>7, <1>4, <1>5
<1>8. CASE u < c
  <2>1. w <= c
    BY <1>8, Apart
  <2>2. c = w
    BY <2>1, <1>1, <1>4, <1>5
  <2>3. QED BY <2>2
<1>9. QED BY <1>1, <1>5, <1>6, <1>7, <1>8

LEMMA FirstHead ==
  ASSUME ShmAssumption, NEW m, NEW e, Tiled(m, e), e # 1
  PROVE  1 \in Heads(m, e)
<1>1. e \in Nat /\ 1 \in 1..(e - 1)
  BY DEF Tiled, ShmAssumption
<1>2. PICK c \in Heads(m, e) : c <= 1
  BY <1>1 DEF Tiled, Covered
<1>3. c = 1
  BY <1>2, SizeFacts
<1>4. QED BY <1>3

(* The recursive function of the model exists: a step goes to a later chunk. *)
Places == 0..(2 * shm_size)
WalkStep(m, e, f, u) ==
  IF u \notin Unit \/ u >= e \/ m[u].part # 1 THEN <<>> ELSE <<u>> \o f[u + Size(m, u)]
Walkable(m, e) ==
  /\ e \in 0..shm_size
  /\ \A u \in Unit : u < e /\ m[u].part = 1 => Size(m, u) \in Nat \ {0} /\ u + Size(m, u) <= e
WalkedLast(m, e, k, f) == f = [u \in Places |-> IF u + k >= e THEN WalkStep(m, e, f, u) ELSE <<>>]

LEMMA WalkOneMore ==
  ASSUME ShmAssumption, NEW m, NEW e, Walkable(m, e), NEW k \in Nat, NEW f, WalkedLast(m, e, k, f)
  PROVE  \E h : WalkedLast(m, e, k + 1, h)
<1> DEFINE h == [u \in Places |-> IF u + (k + 1) >= e THEN WalkStep(m, e, f, u) ELSE <<>>]
<1>0. e \in Nat /\ shm_size \in Nat /\ e <= shm_size
  BY DEF Walkable, ShmAssumption
<1>1. ASSUME NEW u \in Places, u + (k + 1) >= e PROVE WalkStep(m, e, f, u) = WalkStep(m, e, h, u)
  <2>1. CASE u \notin Unit \/ u >= e \/ m[u].part # 1
    BY <2>1 DEF WalkStep
  <2>2. CASE u \in Unit /\ ~(u >= e) /\ m[u].part = 1
    <3> DEFINE w == u + Size(m, u)
    <3>1. u \in Nat
      BY <1>0 DEF Places
    <3>2. Size(m, u) \in Nat \ {0} /\ w <= e
      BY <2>2, <3>1, <1>0 DEF Walkable
    <3>3. w \in Places /\ w + k >= e /\ w + (k + 1) >= e
      BY <3>1, <3>2, <1>0, <1>1 DEF Places
    <3>4. f[w] = WalkStep(m, e, f, w) /\ h[w] = WalkStep(m, e, f, w)
      <4> HIDE DEF w
      <4>1. f[w] = IF w + k >= e THEN WalkStep(m, e, f, w) ELSE <<>>
        BY <3>3 DEF WalkedLast
      <4>2. QED BY <4>1, <3>3
    <3>5. f[w] = h[w]
      BY <3>4
    <3> HIDE DEF h
    <3>6. QED BY <2>2, <3>5 DEF WalkStep
  <2>3. QED BY <2>1, <2>2
<1>2. \A u \in Places : h[u] = IF u + (k + 1) >= e THEN WalkStep(m, e, h, u) ELSE <<>>
  BY <1>1
<1>3. h = [u \in Places |-> h[u]]
  OBVIOUS
<1>4. WalkedLast(m, e, k + 1, h)
  <2> HIDE DEF h
  <2>1. [u \in Places |-> h[u]]
        = [u \in Places |-> IF u + (k + 1) >= e THEN WalkStep(m, e, h, u) ELSE <<>>]
    BY <1>2
  <2>2. QED BY <1>3, <2>1 DEF WalkedLast
<1>5. QED BY <1>4

LEMMA WalkExists ==
  ASSUME ShmAssumption, NEW m, NEW e, Walkable(m, e)
  PROVE  \E f : f = [u \in Places |-> WalkStep(m, e, f, u)]
<1>0. e \in Nat /\ shm_size \in Nat
  BY DEF Walkable, ShmAssumption
<1> DEFINE T == {k \in Nat : ~\E f : WalkedLast(m, e, k, f)}
<1>1. T = {}
  <2>1. SUFFICES ASSUME NEW k \in T, \A y \in T : k <= y PROVE FALSE
    BY LeastNumber
  <2>2. k # 0
    <3> DEFINE f == [u \in Places |-> <<>>]
    <3>1. ASSUME NEW u \in Places, u + 0 >= e PROVE WalkStep(m, e, f, u) = <<>>
      <4>1. u \in Nat /\ u >= e
        BY <3>1, <1>0 DEF Places
      <4>2. QED BY <4>1 DEF WalkStep
    <3>2. f = [u \in Places |-> IF u + 0 >= e THEN WalkStep(m, e, f, u) ELSE <<>>]
      BY <3>1
    <3>3. WalkedLast(m, e, 0, f)
      BY <3>2 DEF WalkedLast
    <3>4. QED BY <3>3
  <2>3. k - 1 \in Nat /\ k - 1 \notin T /\ (k - 1) + 1 = k
    BY <2>1, <2>2
  <2>4. PICK f : WalkedLast(m, e, k - 1, f)
    BY <2>3
  <2>5. \E h : WalkedLast(m, e, (k - 1) + 1, h)
    BY <2>3, <2>4, WalkOneMore
  <2>6. QED BY <2>3, <2>5
<1>2. PICK f : WalkedLast(m, e, e, f)
  BY <1>0, <1>1
<1>3. \A u \in Places : u + e >= e
  BY <1>0 DEF Places
<1>4. [u \in Places |-> IF u + e >= e THEN WalkStep(m, e, f, u) ELSE <<>>]
      = [u \in Places |-> WalkStep(m, e, f, u)]
  BY <1>3
<1>5. QED BY <1>2, <1>4 DEF WalkedLast

LEMMA ChunksIsWalk ==
  ASSUME ShmAssumption, NEW m, NEW e, Walkable(m, e)
  PROVE  \E f : /\ \A u \in Places : f[u] = WalkStep(m, e, f, u)
                /\ \A u : Chunks(m, u, e) = f[u]
<1> DEFINE Def(f) == [u \in 0..(2 * shm_size) |->
             IF u \notin Unit \/ u >= e \/ m[u].part # 1 THEN <<>>
             ELSE <<u>> \o f[u + units[m[u].val]]]
           walk == CHOOSE f : f = Def(f)
<1>1. walk = Def(walk)
  <2>1. \E f : f = [u \in Places |-> WalkStep(m, e, f, u)]
    BY WalkExists
  <2>2. \E f : f = Def(f)
    BY <2>1, Zenon DEF WalkStep, Size, Places
  <2> HIDE DEF Def
  <2>3. QED BY <2>2, Zenon
<1>2. \A u : Chunks(m, u, e) = walk[u]
  BY DEF Chunks
<1> HIDE DEF walk
<1>3. \A u \in Places : walk[u] = WalkStep(m, e, walk, u)
  BY <1>1 DEF WalkStep, Size, Places
<1>4. QED BY <1>2, <1>3

LEMMA ChunksStep ==
  ASSUME ShmAssumption, NEW m, NEW e, Walkable(m, e), NEW u \in Places
  PROVE  /\ u \notin Heads(m, e) => Chunks(m, u, e) = <<>>
         /\ u \in Heads(m, e) => Chunks(m, u, e) = <<u>> \o Chunks(m, u + Size(m, u), e)
<1>1. PICK f : /\ \A x \in Places : f[x] = WalkStep(m, e, f, x)
               /\ \A x : Chunks(m, x, e) = f[x]
  BY ChunksIsWalk
<1>2. f[u] = WalkStep(m, e, f, u)
  BY <1>1
<1>3. e \in Nat /\ u \in Nat
  BY DEF Walkable, Places, ShmAssumption
<1>4. u \in Unit => (u >= e <=> ~(u < e))
  BY <1>3
<1>5. QED BY <1>1, <1>2, <1>4 DEF WalkStep, Heads

LEMMA Prepend ==
  ASSUME NEW S, NEW x \in S, NEW t \in Seq(S)
  PROVE  /\ <<x>> \o t \in Seq(S) /\ Len(<<x>> \o t) = Len(t) + 1 /\ Len(t) \in Nat
         /\ (<<x>> \o t)[1] = x
         /\ \A i \in 2..(Len(t) + 1) : (<<x>> \o t)[i] = t[i - 1]
  OBVIOUS

(* From a chunk on, the walk has every chunk once, in order, up to the end. *)
Listing(m, e, u, s) ==
  /\ s \in Seq(Unit)
  /\ \A i \in 1..Len(s) : s[i] \in Heads(m, e) /\ u <= s[i]
  /\ \A w \in Heads(m, e) : u <= w => \E i \in 1..Len(s) : s[i] = w
  /\ \A i, j \in 1..Len(s) : i < j => s[i] < s[j]
  /\ s = <<>> => u = e
  /\ s # <<>> => s[Len(s)] + Size(m, s[Len(s)]) = e

LEMMA TiledWalkable ==
  ASSUME ShmAssumption, NEW m, NEW e, Tiled(m, e)
  PROVE  Walkable(m, e) /\ Heads(m, e) \cup {e} \subseteq Places /\ e \notin Heads(m, e) /\ e \in Nat
<1>1. e \in 1..shm_size /\ shm_size \in Nat
  BY DEF Tiled, ShmAssumption
<1>2. \A u \in Heads(m, e) : /\ u \in Nat /\ u < e /\ u + Size(m, u) <= e
                             /\ Size(m, u) \in Nat /\ 1 <= Size(m, u)
  BY SizeFacts
<1>3. Walkable(m, e)
  <2>1. \A u \in Unit : u < e /\ m[u].part = 1 => u \in Heads(m, e)
    BY DEF Heads
  <2>2. e \in 0..shm_size
    BY <1>1
  <2>3. \A u \in Heads(m, e) : Size(m, u) \in Nat \ {0} /\ u + Size(m, u) <= e
    BY <1>2
  <2>4. QED BY <2>1, <2>2, <2>3 DEF Walkable
<1>4. QED BY <1>1, <1>2, <1>3 DEF Places

LEMMA ListingStep ==
  ASSUME ShmAssumption, NEW m, NEW e, Tiled(m, e), NEW u \in Heads(m, e),
         NEW t, Listing(m, e, u + Size(m, u), t)
  PROVE  Listing(m, e, u, <<u>> \o t)
<1> DEFINE s == <<u>> \o t
           n == Len(t)
           w == u + Size(m, u)
<1>1. /\ u \in Unit /\ u \in Nat /\ Size(m, u) \in Nat /\ 1 <= Size(m, u)
      /\ w \in Nat /\ u < w /\ e \in Nat
  BY SizeFacts
<1>2. t \in Seq(Unit)
  BY DEF Listing
<1>3. /\ s \in Seq(Unit) /\ Len(s) = n + 1 /\ n \in Nat /\ s[1] = u
      /\ \A i \in 2..(n + 1) : s[i] = t[i - 1]
  BY <1>1, <1>2, Prepend
<1>4. \A i \in 1..n : t[i] \in Heads(m, e) /\ w <= t[i] /\ t[i] \in Nat
  BY SizeFacts DEF Listing
<1> HIDE DEF s, n
<1>5. \A i \in 2..(n + 1) : i - 1 \in 1..n
  BY <1>3
<1>6. \A i \in 2..(n + 1) : s[i] \in Heads(m, e) /\ w <= s[i] /\ s[i] \in Nat
  BY <1>3, <1>4, <1>5
<1>7. \A i \in 1..(n + 1) : i = 1 \/ i \in 2..(n + 1)
  BY <1>3
<1>8. \A i \in 1..Len(s) : s[i] \in Heads(m, e) /\ u <= s[i]
  <2> SUFFICES ASSUME NEW i \in 1..(n + 1) PROVE s[i] \in Heads(m, e) /\ u <= s[i]
    BY <1>3
  <2>1. CASE i = 1
    BY <2>1, <1>1, <1>3
  <2>2. CASE i \in 2..(n + 1)
    BY <2>2, <1>1, <1>6
  <2>3. QED BY <2>1, <2>2, <1>7
<1>9. \A x \in Heads(m, e) : u <= x => \E i \in 1..Len(s) : s[i] = x
  <2> SUFFICES ASSUME NEW x \in Heads(m, e), u <= x PROVE \E i \in 1..(n + 1) : s[i] = x
    BY <1>3
  <2>1. CASE x = u
    BY <2>1, <1>3
  <2>2. CASE x # u
    <3>0. x \in Nat
      BY SizeFacts
    <3>1. x \in Nat /\ u < x
      BY <2>2, <1>1, <3>0
    <3>2. w <= x
      BY <3>1, Apart
    <3>3. PICK i \in 1..n : t[i] = x
      BY <3>2 DEF Listing, n
    <3>4. i + 1 \in 2..(n + 1) /\ (i + 1) - 1 = i /\ i + 1 \in 1..(n + 1)
      BY <1>3
    <3>5. s[i + 1] = t[(i + 1) - 1]
      BY <3>4, <1>3
    <3>6. QED BY <3>3, <3>4, <3>5
  <2>3. QED BY <2>1, <2>2
<1>10. \A i, j \in 1..Len(s) : i < j => s[i] < s[j]
  <2> SUFFICES ASSUME NEW i \in 1..(n + 1), NEW j \in 1..(n + 1), i < j PROVE s[i] < s[j]
    BY <1>3
  <2>1. j \in 2..(n + 1)
    BY <1>3
  <2>2. CASE i = 1
    BY <2>1, <2>2, <1>1, <1>3, <1>6
  <2>3. CASE i \in 2..(n + 1)
    <3>1. i - 1 \in 1..n /\ j - 1 \in 1..n /\ i - 1 < j - 1
      BY <2>1, <2>3, <1>5
    <3>2. t[i - 1] < t[j - 1]
      BY <3>1 DEF Listing, n
    <3>3. QED BY <3>2, <2>1, <2>3, <1>3
  <2>4. QED BY <2>2, <2>3, <1>7
<1>11. s # <<>>
  BY <1>3
<1>12. s[Len(s)] + Size(m, s[Len(s)]) = e
  <2>1. CASE t = <<>>
    <3>1. n = 0 /\ w = e
      BY <2>1 DEF Listing, n
    <3>2. s[Len(s)] = u
      BY <3>1, <1>3
    <3>3. QED BY <3>1, <3>2
  <2>2. CASE t # <<>>
    <3>1. t[n] + Size(m, t[n]) = e /\ n # 0
      BY <2>2, <1>2 DEF Listing, n
    <3>2. n + 1 \in 2..(n + 1) /\ (n + 1) - 1 = n
      BY <3>1, <1>3
    <3>3. s[n + 1] = t[n]
      BY <3>2, <1>3
    <3>4. QED BY <3>1, <3>3, <1>3
  <2>3. QED BY <2>1, <2>2
<1>13. QED BY <1>3, <1>8, <1>9, <1>10, <1>11, <1>12 DEF Listing, s

LEMMA ChunksListed ==
  ASSUME ShmAssumption, NEW m, NEW e, Tiled(m, e)
  PROVE  Listing(m, e, 1, Chunks(m, 1, e))
<1>0. Walkable(m, e) /\ Heads(m, e) \cup {e} \subseteq Places /\ e \notin Heads(m, e) /\ e \in Nat
  BY TiledWalkable
<1> DEFINE W == Heads(m, e) \cup {e}
           T == {k \in Nat : \E u \in W : e - u = k /\ ~Listing(m, e, u, Chunks(m, u, e))}
<1>1. T = {}
  <2>1. SUFFICES ASSUME NEW k \in T, \A y \in T : k <= y PROVE FALSE
    BY LeastNumber
  <2>2. PICK u \in W : e - u = k /\ ~Listing(m, e, u, Chunks(m, u, e))
    OBVIOUS
  <2>3. CASE u = e
    <3>1. Chunks(m, u, e) = <<>>
      BY <2>3, <1>0, ChunksStep
    <3>2. \A w \in Heads(m, e) : ~(u <= w)
      BY <2>3, <1>0, SizeFacts
    <3>3. Listing(m, e, u, <<>>)
      BY <3>2, <2>3 DEF Listing
    <3>4. QED BY <3>1, <3>3, <2>2
  <2>4. CASE u \in Heads(m, e)
    <3> DEFINE w == u + Size(m, u)
    <3>1. Chunks(m, u, e) = <<u>> \o Chunks(m, w, e)
      BY <2>4, <1>0, ChunksStep
    <3>2. w \in W
      BY <2>4, NextHead
    <3>3. u \in Nat /\ Size(m, u) \in Nat /\ 1 <= Size(m, u) /\ w <= e
      BY <2>4, SizeFacts
    <3>4. e - w \in Nat /\ e - w < k
      BY <3>3, <2>2, <1>0
    <3>5. Listing(m, e, w, Chunks(m, w, e))
      BY <3>2, <3>4, <2>1
    <3>6. Listing(m, e, u, Chunks(m, u, e))
      BY <2>4, <3>1, <3>5, ListingStep
    <3>7. QED BY <3>6, <2>2
  <2>5. QED BY <2>3, <2>4
<1>2. 1 \in W
  BY FirstHead
<1>3. e - 1 \in Nat
  BY DEF Tiled, ShmAssumption
<1>4. QED BY <1>1, <1>2, <1>3

(* What shm_get_var() and the checks find in whole chunks. *)
LEMMA FoundInChunks ==
  ASSUME ShmAssumption, NEW m, NEW e, Tiled(m, e), NEW k
  PROVE  Found(m, 1, e, k) = {u \in Heads(m, e) : m[u].key = k}
<1> DEFINE s == Chunks(m, 1, e)
<1>1. Listing(m, e, 1, s)
  BY ChunksListed
<1> HIDE DEF s
<1>2. \A i \in 1..Len(s) : s[i] \in Heads(m, e)
  BY <1>1 DEF Listing
<1>3. \A w \in Heads(m, e) : \E i \in 1..Len(s) : s[i] = w
  <2>1. \A w \in Heads(m, e) : 1 <= w
    BY SizeFacts
  <2>2. QED BY <1>1, <2>1 DEF Listing
<1>4. Found(m, 1, e, k) = {s[i] : i \in {j \in 1..Len(s) : m[s[j]].key = k}}
  BY DEF Found, s
<1>5. QED BY <1>2, <1>3, <1>4

LEMMA FoundInNothing ==
  ASSUME ShmAssumption, NEW m, NEW k
  PROVE  Found(m, 0, 0, k) = {}
<1>0. shm_size \in Nat
  BY DEF ShmAssumption
<1>1. \A u \in Unit : ~(u < 0)
  BY <1>0 DEF Unit
<1>2. Walkable(m, 0) /\ 0 \in Places /\ 0 \notin Heads(m, 0)
  BY <1>0, <1>1 DEF Walkable, Places, Heads
<1>3. Chunks(m, 0, 0) = <<>>
  BY <1>2, ChunksStep
<1>4. QED BY <1>3 DEF Found

LEMMA ChunkIntact ==
  ASSUME ShmAssumption, NEW m, NEW e, Tiled(m, e), NEW u \in Heads(m, e)
  PROVE  Intact(m, u)
<1>1. /\ u \in Nat /\ 1 <= u /\ Size(m, u) \in Nat /\ u + Size(m, u) <= e
      /\ e \in Nat /\ e <= shm_size /\ m[u] \in Cell
  BY SizeFacts
<1>2. SUFFICES ASSUME NEW i \in 0..(Size(m, u) - 1)
               PROVE  u + i \in Unit /\ m[u + i] = [m[u] EXCEPT !.part = i + 1]
  BY DEF Intact, Size
<1>3. u + i \in Unit
  BY <1>1, <1>2 DEF Unit, ShmAssumption
<1>4. u + i \in u..(u + Size(m, u) - 1) /\ (u + i) - u + 1 = i + 1
  BY <1>1, <1>2
<1>5. m[u + i] = [key |-> m[u].key, val |-> m[u].val, part |-> i + 1]
  BY <1>4 DEF Tiled, Chunk
<1>6. [m[u] EXCEPT !.part = i + 1] = [key |-> m[u].key, val |-> m[u].val, part |-> i + 1]
  BY <1>1 DEF Cell
<1>7. QED BY <1>3, <1>5, <1>6

(* The value of a key in the memory below e, or NoValue. *)
Holds(m, e, k, v) ==
  \/ \E u \in Heads(m, e) : m[u].key = k /\ m[u].val = v
  \/ v = NoValue /\ \A u \in Heads(m, e) : m[u].key # k

LEMMA ValueInChunks ==
  ASSUME ShmAssumption, NEW m, NEW h, h.start = 1, Tiled(m, h.end), NEW k, NEW v,
         Holds(m, h.end, k, v)
  PROVE  ValueIn(m, h, k) = v
<1> DEFINE us == Found(m, h.start, h.end, k)
<1>1. us = {u \in Heads(m, h.end) : m[u].key = k}
  BY FoundInChunks
<1>2. CASE v = NoValue /\ \A u \in Heads(m, h.end) : m[u].key # k
  <2>1. us = {}
    BY <1>1, <1>2
  <2>2. QED BY <2>1, <1>2 DEF ValueIn
<1>3. ASSUME NEW u \in Heads(m, h.end), m[u].key = k, m[u].val = v PROVE ValueIn(m, h, k) = v
  <2>1. us = {u}
    BY <1>1, <1>3 DEF Tiled
  <2>2. u \in Nat
    BY SizeFacts
  <2>3. (CHOOSE x \in us : \A w \in us : x <= w) = u
    <3>1. u \in us /\ \A w \in us : u <= w
      BY <2>1, <2>2
    <3>2. QED BY <3>1, <2>1
  <2>4. Intact(m, u)
    BY ChunkIntact
  <2>5. us # {}
    BY <2>1
  <2> HIDE DEF us
  <2>6. ValueIn(m, h, k) =
          IF us = {} THEN NoValue
          ELSE LET x == CHOOSE x \in us : \A w \in us : x <= w
               IN IF Intact(m, x) THEN m[x].val ELSE NoValue
    BY Zenon DEF ValueIn, us
  <2>7. QED BY <2>3, <2>4, <2>5, <2>6, <1>3
<1>4. QED BY <1>2, <1>3 DEF Holds

LEMMA SomeValue ==
  ASSUME ShmAssumption, NEW m, NEW h, h.start = 1, Tiled(m, h.end), NEW k
  PROVE  Holds(m, h.end, k, ValueIn(m, h, k))
<1>1. CASE \E u \in Heads(m, h.end) : m[u].key = k
  <2>1. PICK u \in Heads(m, h.end) : m[u].key = k
    BY <1>1
  <2>2. Holds(m, h.end, k, m[u].val)
    BY <2>1 DEF Holds
  <2>3. ValueIn(m, h, k) = m[u].val
    BY <2>2, ValueInChunks
  <2>4. QED BY <2>2, <2>3
<1>2. CASE ~\E u \in Heads(m, h.end) : m[u].key = k
  <2>1. Holds(m, h.end, k, NoValue)
    BY <1>2 DEF Holds
  <2>2. ValueIn(m, h, k) = NoValue
    BY <2>1, ValueInChunks
  <2>3. QED BY <2>1, <2>2
<1>3. QED BY <1>1, <1>2

(* A chunk removed: those before it stay, those after it move down. *)
IsMoved(m, w, pos, n, e) ==
  /\ w \in Memory
  /\ \A x \in Unit : x < pos => w[x] = m[x]
  /\ \A x \in Unit : pos <= x /\ x < e - n => w[x] = m[x + n]

LEMMA MovedIsMoved ==
  ASSUME ShmAssumption, NEW m, NEW e, Tiled(m, e), NEW pos \in Heads(m, e)
  PROVE  IsMoved(m, Moved(m, pos, Size(m, pos), e - Size(m, pos)), pos, Size(m, pos), e)
<1> DEFINE n == Size(m, pos)
           w == Moved(m, pos, n, e - n)
<1>1. /\ pos \in Nat /\ 1 <= pos /\ n \in Nat /\ 1 <= n /\ pos + n <= e
      /\ e \in Nat /\ e <= shm_size
  BY SizeFacts
<1>2. m \in Memory /\ shm_size \in Nat
  BY DEF Tiled, ShmAssumption
<1> HIDE DEF n
<1>3. w = [u \in Unit |-> IF u >= pos /\ u < e - n THEN m[u + n] ELSE m[u]]
  BY DEF Moved
<1>4. \A u \in Unit : u \in Nat /\ 1 <= u
  BY <1>2 DEF Unit
<1>5. \A u \in Unit : u >= pos /\ u < e - n => u + n \in Unit
  BY <1>1, <1>2 DEF Unit
<1>6. w \in Memory
  BY <1>2, <1>3, <1>5 DEF Memory
<1>7. \A x \in Unit : x < pos => w[x] = m[x]
  BY <1>1, <1>3, <1>4
<1>8. \A x \in Unit : pos <= x /\ x < e - n => w[x] = m[x + n]
  BY <1>1, <1>3, <1>4
<1>9. QED BY <1>6, <1>7, <1>8 DEF IsMoved, n

(* The place a chunk had before. *)
Before(u, pos, n) == IF u < pos THEN u ELSE u + n

LEMMA MovedHeads ==
  ASSUME ShmAssumption, NEW m, NEW e, Tiled(m, e), NEW pos \in Heads(m, e),
         NEW n, n = Size(m, pos), NEW w, IsMoved(m, w, pos, n, e)
  PROVE  /\ \A u \in Heads(w, e - n) :
              /\ Before(u, pos, n) \in Heads(m, e) \ {pos} /\ w[u] = m[Before(u, pos, n)]
              /\ u \in Nat /\ 1 <= u /\ u < e - n
         /\ \A c \in Heads(m, e) : c < pos => c \in Heads(w, e - n) /\ w[c] = m[c] /\ c < e - n
         /\ \A c \in Heads(m, e) : pos < c => c - n \in Heads(w, e - n) /\ w[c - n] = m[c] /\ pos <= c - n
<1>1. /\ pos \in Nat /\ 1 <= pos /\ n \in Nat /\ 1 <= n /\ pos + n <= e
      /\ e \in Nat /\ e <= shm_size /\ shm_size \in Nat
  BY SizeFacts DEF ShmAssumption
<1>2. \A u : u \in Unit <=> u \in Int /\ 1 <= u /\ u < shm_size
  BY <1>1 DEF Unit
<1>3. ASSUME NEW u \in Heads(w, e - n)
      PROVE  /\ Before(u, pos, n) \in Heads(m, e) \ {pos} /\ w[u] = m[Before(u, pos, n)]
             /\ u \in Nat /\ 1 <= u /\ u < e - n
  <2>1. u \in Int /\ 1 <= u /\ u < e - n /\ u \in Unit /\ w[u].part = 1
    BY <1>2 DEF Heads
  <2>2. CASE u < pos
    <3>1. w[u] = m[u]
      BY <2>1, <2>2 DEF IsMoved
    <3>2. u < e /\ u # pos
      BY <2>1, <2>2, <1>1
    <3>3. QED BY <2>1, <2>2, <3>1, <3>2 DEF Before, Heads
  <2>3. CASE ~(u < pos)
    <3>1. pos <= u
      BY <2>1, <2>3, <1>1
    <3>2. w[u] = m[u + n]
      BY <2>1, <3>1 DEF IsMoved
    <3>3. u + n < e /\ u + n # pos /\ u + n \in Unit
      BY <2>1, <3>1, <1>1, <1>2
    <3>4. QED BY <2>1, <2>3, <3>2, <3>3 DEF Before, Heads
  <2>4. QED BY <2>2, <2>3
<1>4. ASSUME NEW c \in Heads(m, e), c < pos
      PROVE  c \in Heads(w, e - n) /\ w[c] = m[c] /\ c < e - n
  <2>1. c \in Nat /\ c \in Unit /\ m[c].part = 1
    BY SizeFacts
  <2>2. w[c] = m[c]
    BY <2>1, <1>4 DEF IsMoved
  <2>3. c < e - n
    BY <2>1, <1>1, <1>4
  <2>4. QED BY <2>1, <2>2, <2>3 DEF Heads
<1>5. ASSUME NEW c \in Heads(m, e), pos < c
      PROVE  c - n \in Heads(w, e - n) /\ w[c - n] = m[c] /\ pos <= c - n
  <2>1. c \in Nat /\ c \in Unit /\ m[c].part = 1 /\ c < e
    BY SizeFacts
  <2>2. pos + n <= c
    BY <1>5, Apart
  <2>3. c - n \in Unit /\ pos <= c - n /\ c - n < e - n /\ (c - n) + n = c
    BY <2>1, <2>2, <1>1, <1>2
  <2>4. w[c - n] = m[c]
    BY <2>3 DEF IsMoved
  <2>5. QED BY <2>1, <2>3, <2>4 DEF Heads
<1>6. QED BY <1>3, <1>4, <1>5

LEMMA MovedTiled ==
  ASSUME ShmAssumption, NEW m, NEW e, Tiled(m, e), NEW pos \in Heads(m, e),
         NEW n, n = Size(m, pos), NEW w, IsMoved(m, w, pos, n, e)
  PROVE  /\ Tiled(w, e - n)
         /\ \A u \in Heads(w, e - n) : w[u].key # m[pos].key
<1>1. /\ pos \in Nat /\ 1 <= pos /\ n \in Nat /\ 1 <= n /\ pos + n <= e
      /\ e \in Nat /\ e <= shm_size /\ shm_size \in Nat
  BY SizeFacts DEF ShmAssumption
<1>2. \A u : u \in Unit <=> u \in Int /\ 1 <= u /\ u < shm_size
  BY <1>1 DEF Unit
<1>3. /\ \A u \in Heads(w, e - n) :
           /\ Before(u, pos, n) \in Heads(m, e) \ {pos} /\ w[u] = m[Before(u, pos, n)]
           /\ u \in Nat /\ 1 <= u /\ u < e - n
      /\ \A c \in Heads(m, e) : c < pos => c \in Heads(w, e - n) /\ w[c] = m[c] /\ c < e - n
      /\ \A c \in Heads(m, e) : pos < c =>
           c - n \in Heads(w, e - n) /\ w[c - n] = m[c] /\ pos <= c - n
  BY MovedHeads
<1>4. w \in Memory /\ e - n \in 1..shm_size
  BY <1>1 DEF IsMoved
<1>5. ASSUME NEW x \in 1..(e - n - 1) PROVE Covered(w, x, e - n)
  <2>0. x \in Nat /\ 1 <= x /\ x < e - n
    BY <1>1
  <2>1. CASE x < pos
    <3>1. PICK c \in Heads(m, e) : c <= x /\ x < c + Size(m, c)
      <4>1. x \in 1..(e - 1)
        BY <2>0, <1>1
      <4>2. QED BY <4>1 DEF Tiled, Covered
    <3>2. c \in Nat
      BY SizeFacts
    <3>3. c < pos
      BY <3>1, <3>2, <2>0, <2>1, <1>1
    <3>4. c \in Heads(w, e - n) /\ Size(w, c) = Size(m, c)
      BY <3>3, <1>3 DEF Size
    <3>5. QED BY <3>1, <3>4 DEF Covered
  <2>2. CASE ~(x < pos)
    <3>1. PICK c \in Heads(m, e) : c <= x + n /\ x + n < c + Size(m, c)
      <4>1. x + n \in 1..(e - 1)
        BY <2>0, <1>1
      <4>2. QED BY <4>1 DEF Tiled, Covered
    <3>2. c \in Nat /\ Size(m, c) \in Nat
      BY SizeFacts
    <3>3. c # pos
      BY <3>1, <2>0, <2>2, <1>1
    <3>4. ~(c < pos)
      <4>1. SUFFICES ASSUME c < pos PROVE FALSE
        OBVIOUS
      <4>2. c + Size(m, c) <= pos
        BY <4>1, Apart
      <4>3. QED BY <4>2, <3>1, <3>2, <2>0, <2>2, <1>1
    <3>5. pos < c
      BY <3>2, <3>3, <3>4, <1>1
    <3>6. c - n \in Heads(w, e - n) /\ Size(w, c - n) = Size(m, c)
      BY <3>5, <1>3 DEF Size
    <3>7. c - n <= x /\ x < (c - n) + Size(m, c)
      BY <3>1, <3>2, <2>0, <1>1
    <3>8. QED BY <3>6, <3>7 DEF Covered
  <2>3. QED BY <2>1, <2>2
<1>6. ASSUME NEW u \in Heads(w, e - n) PROVE Chunk(w, u, e - n)
  <2> DEFINE c == Before(u, pos, n)
             z == Size(m, c)
  <2>1. c \in Heads(m, e) /\ c # pos /\ w[u] = m[c] /\ u \in Nat /\ 1 <= u /\ u < e - n
    BY <1>3
  <2>2. /\ c \in Nat /\ z \in Nat /\ 1 <= z /\ c + z <= e
        /\ m[c].key \in Key /\ m[c].val \in Value
    BY <2>1, SizeFacts
  <2>3. Size(w, u) = z
    BY <2>1 DEF Size
  <2>4. \A x \in c..(c + z - 1) : m[x] = [key |-> m[c].key, val |-> m[c].val, part |-> x - c + 1]
    BY <2>1 DEF Tiled, Chunk
  <2>5. CASE u < pos
    <3>1. c = u
      BY <2>5 DEF Before
    <3> HIDE DEF c, z
    <3>2. u + z <= pos
      <4>1. u + Size(m, u) <= pos
        BY <3>1, <2>1, <2>5, Apart
      <4>2. QED BY <4>1, <3>1 DEF z
    <3>3. u + z <= e - n
      BY <3>2, <2>1, <2>2, <1>1
    <3>4. ASSUME NEW x \in u..(u + z - 1)
          PROVE  w[x] = [key |-> w[u].key, val |-> w[u].val, part |-> x - u + 1]
      <4>1. x \in Unit /\ x < pos
        BY <3>2, <2>1, <2>2, <1>1, <1>2
      <4>2. w[x] = m[x]
        BY <4>1 DEF IsMoved
      <4>3. QED BY <4>2, <3>1, <2>1, <2>4
    <3>5. QED BY <3>3, <3>4, <2>1, <2>2, <2>3 DEF Chunk
  <2>6. CASE ~(u < pos)
    <3>1. c = u + n
      BY <2>6 DEF Before
    <3> HIDE DEF c, z
    <3>2. u + z <= e - n
      BY <3>1, <2>1, <2>2, <1>1
    <3>3. ASSUME NEW x \in u..(u + z - 1)
          PROVE  w[x] = [key |-> w[u].key, val |-> w[u].val, part |-> x - u + 1]
      <4>1. x \in Unit /\ pos <= x /\ x < e - n
        BY <3>2, <2>1, <2>2, <2>6, <1>1, <1>2
      <4>2. w[x] = m[x + n]
        BY <4>1 DEF IsMoved
      <4>3. x + n \in c..(c + z - 1) /\ (x + n) - c + 1 = x - u + 1
        BY <3>1, <2>1, <2>2, <1>1
      <4>4. m[x + n] = [key |-> m[c].key, val |-> m[c].val, part |-> (x + n) - c + 1]
        BY <4>3, <2>4
      <4>5. QED BY <4>2, <4>3, <4>4, <2>1
    <3>4. QED BY <3>2, <3>3, <2>1, <2>2, <2>3 DEF Chunk
  <2>7. QED BY <2>5, <2>6
<1>7. ASSUME NEW u \in Heads(w, e - n), NEW x \in Heads(w, e - n), w[u].key = w[x].key
      PROVE  u = x
  <2>1. /\ Before(u, pos, n) \in Heads(m, e) /\ Before(x, pos, n) \in Heads(m, e)
        /\ w[u] = m[Before(u, pos, n)] /\ w[x] = m[Before(x, pos, n)]
        /\ Before(u, pos, n) # pos /\ Before(x, pos, n) # pos
    BY <1>3
  <2>2. Before(u, pos, n) = Before(x, pos, n)
    BY <2>1, <1>7 DEF Tiled
  <2>3. u \in Nat /\ x \in Nat
    BY <1>3
  <2>4. CASE u < pos /\ ~(x < pos)
    <3>1. pos + n <= x + n /\ u = x + n
      BY <2>2, <2>3, <2>4, <1>1 DEF Before
    <3>2. QED BY <3>1, <2>3, <2>4, <1>1
  <2>5. CASE ~(u < pos) /\ x < pos
    <3>1. pos + n <= u + n /\ x = u + n
      BY <2>2, <2>3, <2>5, <1>1 DEF Before
    <3>2. QED BY <3>1, <2>3, <2>5, <1>1
  <2>6. CASE u < pos /\ x < pos
    BY <2>2, <2>6 DEF Before
  <2>7. CASE ~(u < pos) /\ ~(x < pos)
    BY <2>2, <2>3, <2>7, <1>1 DEF Before
  <2>8. QED BY <2>4, <2>5, <2>6, <2>7
<1>8. ASSUME NEW u \in Heads(w, e - n) PROVE w[u].key # m[pos].key
  <2>1. Before(u, pos, n) \in Heads(m, e) \ {pos} /\ w[u] = m[Before(u, pos, n)]
    BY <1>3
  <2>2. QED BY <2>1 DEF Tiled
<1>9. QED BY <1>4, <1>5, <1>6, <1>7, <1>8 DEF Tiled

LEMMA MovedHolds ==
  ASSUME ShmAssumption, NEW m, NEW e, Tiled(m, e), NEW pos \in Heads(m, e),
         NEW n, n = Size(m, pos), NEW w, IsMoved(m, w, pos, n, e), NEW k, k # m[pos].key,
         NEW v, Holds(m, e, k, v)
  PROVE  Holds(w, e - n, k, v)
<1>1. /\ \A u \in Heads(w, e - n) : Before(u, pos, n) \in Heads(m, e) /\ w[u] = m[Before(u, pos, n)]
      /\ \A c \in Heads(m, e) : c < pos => c \in Heads(w, e - n) /\ w[c] = m[c]
      /\ \A c \in Heads(m, e) : pos < c => c - n \in Heads(w, e - n) /\ w[c - n] = m[c]
  BY MovedHeads
<1>2. CASE v = NoValue /\ \A u \in Heads(m, e) : m[u].key # k
  BY <1>1, <1>2 DEF Holds
<1>3. ASSUME NEW c \in Heads(m, e), m[c].key = k, m[c].val = v PROVE Holds(w, e - n, k, v)
  <2>1. c \in Nat /\ pos \in Nat /\ c # pos
    BY <1>3, SizeFacts
  <2>2. CASE c < pos
    BY <2>2, <1>1, <1>3 DEF Holds
  <2>3. CASE pos < c
    BY <2>3, <1>1, <1>3 DEF Holds
  <2>4. QED BY <2>1, <2>2, <2>3
<1>4. QED BY <1>2, <1>3 DEF Holds

(* What is written behind the end changes nothing. *)
Prefix(m, w, e) == w \in Memory /\ \A x \in Unit : x < e => w[x] = m[x]

LEMMA PrefixTiled ==
  ASSUME ShmAssumption, NEW m, NEW e, Tiled(m, e), NEW w, Prefix(m, w, e)
  PROVE  /\ Tiled(w, e) /\ Heads(w, e) = Heads(m, e)
         /\ \A u \in Heads(m, e) : w[u] = m[u]
         /\ \A k, v : Holds(m, e, k, v) => Holds(w, e, k, v)
<1>1. shm_size \in Nat /\ e \in Nat /\ e <= shm_size
  BY DEF Tiled, ShmAssumption
<1>2. Heads(w, e) = Heads(m, e) /\ \A u \in Heads(m, e) : w[u] = m[u]
  BY DEF Prefix, Heads
<1>3. ASSUME NEW x \in 1..(e - 1) PROVE Covered(w, x, e)
  <2>1. PICK u \in Heads(m, e) : u <= x /\ x < u + Size(m, u)
    BY DEF Tiled, Covered
  <2>2. Size(w, u) = Size(m, u)
    BY <1>2 DEF Size
  <2>3. QED BY <2>1, <2>2, <1>2 DEF Covered
<1>4. ASSUME NEW u \in Heads(m, e) PROVE Chunk(w, u, e)
  <2>1. /\ u \in Nat /\ 1 <= u /\ u + Size(m, u) <= e /\ Size(m, u) \in Nat
    BY SizeFacts
  <2>2. w[u] = m[u] /\ Size(w, u) = Size(m, u)
    BY <1>2 DEF Size
  <2>3. \A x \in u..(u + Size(m, u) - 1) : w[x] = m[x]
    <3> SUFFICES ASSUME NEW x \in u..(u + Size(m, u) - 1) PROVE w[x] = m[x]
      OBVIOUS
    <3>1. x \in Unit /\ x < e
      BY <2>1, <1>1 DEF Unit
    <3>2. QED BY <3>1 DEF Prefix
  <2>4. QED BY <2>2, <2>3 DEF Tiled, Chunk
<1>5. Tiled(w, e)
  <2>1. \A u, x \in Heads(m, e) : w[u].key = w[x].key => u = x
    BY <1>2 DEF Tiled
  <2>2. QED BY <2>1, <1>2, <1>3, <1>4 DEF Tiled, Prefix
<1>6. \A k, v : Holds(m, e, k, v) => Holds(w, e, k, v)
  BY <1>2 DEF Holds
<1>7. QED BY <1>2, <1>5, <1>6

(* A chunk added at the end. *)
IsAdded(m, w, e, k, v) ==
  /\ Prefix(m, w, e)
  /\ \A x \in Unit : e <= x /\ x < e + units[v] => w[x] = [key |-> k, val |-> v, part |-> x - e + 1]

LEMMA AddedTiled ==
  ASSUME ShmAssumption, NEW m, NEW e, Tiled(m, e), NEW k \in Key, NEW v \in Value,
         \A u \in Heads(m, e) : m[u].key # k, e + units[v] <= shm_size,
         NEW w, IsAdded(m, w, e, k, v)
  PROVE  /\ Tiled(w, e) /\ Tiled(w, e + units[v])
         /\ e \in Unit /\ w[e] = [key |-> k, val |-> v, part |-> 1]
         /\ \A u \in Heads(w, e) : w[u].key # k
<1> DEFINE n == units[v]
<1>1. /\ shm_size \in Nat /\ e \in Nat /\ 1 <= e /\ e <= shm_size /\ n \in Nat /\ 1 <= n
      /\ e + n <= shm_size
  BY DEF Tiled, ShmAssumption
<1>2. \A u : u \in Unit <=> u \in Int /\ 1 <= u /\ u < shm_size
  BY <1>1 DEF Unit
<1>3. /\ Tiled(w, e) /\ Heads(w, e) = Heads(m, e)
      /\ \A u \in Heads(m, e) : w[u] = m[u]
  BY PrefixTiled DEF IsAdded
<1>4. \A u \in Heads(w, e) : w[u].key # k
  BY <1>3
<1>5. e \in Unit
  BY <1>1, <1>2
<1>6. \A x \in e..(e + n - 1) : w[x] = [key |-> k, val |-> v, part |-> x - e + 1]
  <2>1. \A x \in e..(e + n - 1) : x \in Unit /\ e <= x /\ x < e + n
    BY <1>1, <1>2
  <2>2. QED BY <2>1 DEF IsAdded
<1>7. w[e] = [key |-> k, val |-> v, part |-> 1]
  <2>1. e \in e..(e + n - 1) /\ e - e + 1 = 1
    BY <1>1
  <2>2. QED BY <2>1, <1>6
<1> HIDE DEF n
<1>8. Heads(w, e + n) = Heads(w, e) \cup {e}
  <2>1. ASSUME NEW u \in Heads(w, e + n) PROVE u \in Heads(w, e) \cup {e}
    <3>1. u \in Unit /\ u < e + n /\ w[u].part = 1 /\ u \in Int
      BY <1>2 DEF Heads
    <3>2. CASE u < e
      BY <3>1, <3>2 DEF Heads
    <3>3. CASE ~(u < e)
      <4>1. u \in e..(e + n - 1)
        BY <3>1, <3>3, <1>1
      <4>2. w[u] = [key |-> k, val |-> v, part |-> u - e + 1]
        BY <4>1, <1>6
      <4>3. u - e + 1 = 1
        BY <4>2, <3>1
      <4>4. QED BY <4>3, <3>1, <1>1
    <3>4. QED BY <3>2, <3>3
  <2>2. ASSUME NEW u \in Heads(w, e) PROVE u \in Heads(w, e + n)
    <3>1. u \in Unit /\ u < e /\ w[u].part = 1 /\ u \in Int
      BY <1>2 DEF Heads
    <3>2. u < e + n
      BY <3>1, <1>1
    <3>3. QED BY <3>1, <3>2 DEF Heads
  <2>3. e \in Heads(w, e + n)
    <3>1. e < e + n
      BY <1>1
    <3>2. QED BY <3>1, <1>5, <1>7 DEF Heads
  <2>4. QED BY <2>1, <2>2, <2>3
<1>9. Size(w, e) = n
  BY <1>7 DEF Size, n
<1>10. ASSUME NEW x \in 1..((e + n) - 1) PROVE Covered(w, x, e + n)
  <2>1. CASE x < e
    <3>1. x \in 1..(e - 1)
      BY <2>1, <1>1
    <3>2. PICK u \in Heads(w, e) : u <= x /\ x < u + Size(w, u)
      BY <3>1, <1>3 DEF Tiled, Covered
    <3>3. QED BY <3>2, <1>8 DEF Covered
  <2>2. CASE ~(x < e)
    <3>1. e <= x /\ x < e + Size(w, e)
      BY <2>2, <1>1, <1>9
    <3>2. QED BY <3>1, <1>8 DEF Covered
  <2>3. QED BY <2>1, <2>2
<1>11. ASSUME NEW u \in Heads(w, e + n) PROVE Chunk(w, u, e + n)
  <2>1. CASE u = e
    <3>1. w[e].key = k /\ w[e].val = v
      BY <1>7
    <3>2. Chunk(w, e, e + n)
      BY <3>1, <1>1, <1>6, <1>9 DEF Chunk
    <3>3. QED BY <3>2, <2>1
  <2>2. CASE u \in Heads(w, e)
    <3>1. Chunk(w, u, e) /\ u \in Nat /\ Size(w, u) \in Nat /\ u + Size(w, u) <= e
      BY <2>2, <1>3, SizeFacts DEF Tiled
    <3>2. u + Size(w, u) <= e + n
      BY <3>1, <1>1
    <3>3. QED BY <3>1, <3>2 DEF Chunk
  <2>3. QED BY <2>1, <2>2, <1>8
<1>12. ASSUME NEW u \in Heads(w, e + n), NEW x \in Heads(w, e + n), w[u].key = w[x].key
       PROVE  u = x
  BY <1>3, <1>4, <1>7, <1>8, <1>12 DEF Tiled
<1>13. e + n \in 1..shm_size /\ w \in Memory
  BY <1>1 DEF IsAdded, Prefix, n
<1>14. Tiled(w, e + n)
  <2>1. \A u, x \in Heads(w, e + n) : w[u].key = w[x].key => u = x
    BY <1>12
  <2>2. \A x \in 1..((e + n) - 1) : Covered(w, x, e + n)
    BY <1>10
  <2>3. \A u \in Heads(w, e + n) : Chunk(w, u, e + n)
    BY <1>11
  <2>4. QED BY <1>13, <2>1, <2>2, <2>3 DEF Tiled
<1>15. QED BY <1>3, <1>4, <1>5, <1>7, <1>14 DEF n

(* A chunk at the end that becomes part of the memory. *)
LEMMA GrownHolds ==
  ASSUME ShmAssumption, NEW m, NEW e, Tiled(m, e), NEW v \in Value, NEW k, Tiled(m, e + units[v]),
         e \in Unit, m[e] = [key |-> k, val |-> v, part |-> 1]
  PROVE  /\ \A j, z : j # k /\ Holds(m, e, j, z) => Holds(m, e + units[v], j, z)
         /\ (\A u \in Heads(m, e) : m[u].key # k) => Holds(m, e, k, NoValue)
<1> DEFINE n == units[v]
<1>1. shm_size \in Nat /\ e \in Nat /\ n \in Nat /\ 1 <= n
  BY DEF Tiled, ShmAssumption
<1>2. Heads(m, e + n) \subseteq Heads(m, e) \cup {e}
  <2> SUFFICES ASSUME NEW u \in Heads(m, e + n), u # e PROVE u \in Heads(m, e)
    OBVIOUS
  <2>1. u \in Nat /\ u < e + n /\ u \in Unit /\ m[u].part = 1
    BY SizeFacts
  <2>2. e < e + n => e \in Heads(m, e + n)
    BY DEF Heads
  <2>3. CASE e < u
    <3>1. e < e + n
      BY <1>1
    <3>2. e + Size(m, e) <= u
      BY <2>2, <2>3, <3>1, Apart
    <3>3. Size(m, e) = n
      BY DEF Size
    <3>4. QED BY <3>2, <3>3, <2>1, <1>1
  <2>4. CASE u < e
    BY <2>1, <2>4 DEF Heads
  <2>5. QED BY <2>1, <2>3, <2>4, <1>1
<1>3. Heads(m, e) \subseteq Heads(m, e + n)
  <2> SUFFICES ASSUME NEW u \in Heads(m, e) PROVE u \in Heads(m, e + n)
    OBVIOUS
  <2>1. u \in Nat /\ u < e /\ u \in Unit /\ m[u].part = 1
    BY SizeFacts
  <2>2. u < e + n
    BY <2>1, <1>1
  <2>3. QED BY <2>1, <2>2 DEF Heads
<1> HIDE DEF n
<1>4. \A j, z : j # k /\ Holds(m, e, j, z) => Holds(m, e + n, j, z)
  BY <1>2, <1>3 DEF Holds
<1>5. (\A u \in Heads(m, e) : m[u].key # k) => Holds(m, e, k, NoValue)
  BY DEF Holds
<1>6. QED BY <1>4, <1>5 DEF n

-----------------------------------------------------------------------------
(* A header, a chunk to remove, a variable to add, and what holds between  *)
(* any two writes of the one who writes: the sum of end and free is off by *)
(* the chunk in two places.                                                *)
HeaderType == [magic : BOOLEAN, start : {0, Start}, end : 0..shm_size,
               free : 0..shm_size, total : {0, shm_size}]
OpType == [key : Key \cup {NoKey}, val : Value \cup {NoValue}, pos : 0..shm_size \cup Segment]
Opened(h) == h \in HeaderType /\ h.magic /\ h.start = 1 /\ h.total = shm_size
EndAndFree(h, n) == h.end + h.free = shm_size + n
Quiet(m, h) == Tiled(m, h.end) /\ EndAndFree(h, 0)
Removing(o, m, e) ==
  /\ Tiled(m, e) /\ o.pos \in Heads(m, e)
  /\ m[o.pos].key = o.key /\ o.val \in Value \cup {NoValue}
Adding(o, m, h) ==
  /\ Quiet(m, h) /\ o.key \in Key /\ o.val \in Value
  /\ \A u \in Heads(m, h.end) : m[u].key # o.key
WrittenWhole(o, m, h) ==
  /\ Tiled(m, h.end + units[o.val]) /\ h.end \in Unit
  /\ m[h.end] = [key |-> o.key, val |-> o.val, part |-> 1]
Working(c, o, m, h) ==
  /\ c = "idle" => Quiet(m, h)
  /\ c = "free+" => Removing(o, m, h.end) /\ EndAndFree(h, 0)
  /\ c = "end-" => Removing(o, m, h.end) /\ EndAndFree(h, Size(m, o.pos))
  /\ c = "move" => Removing(o, m, h.end + Size(m, o.pos)) /\ EndAndFree(h, 0)
  /\ c = "room" => Adding(o, m, h)
  /\ c = "write" => Adding(o, m, h) /\ h.free >= units[o.val]
  /\ c = "end+" => Adding(o, m, h) /\ WrittenWhole(o, m, h)
  /\ c = "free-" => o.val \in Value /\ Tiled(m, h.end) /\ EndAndFree(h, units[o.val])

LEMMA FreeGrowsWorks ==
  ASSUME ShmAssumption, NEW m, NEW h, Opened(h), NEW o, Working("free+", o, m, h),
         NEW h2, h2 = [h EXCEPT !.free = @ + Size(m, o.pos)]
  PROVE  Opened(h2) /\ Working("end-", o, m, h2)
<1>1. Removing(o, m, h.end) /\ EndAndFree(h, 0)
  BY DEF Working
<1>2. /\ o.pos \in Nat /\ 1 <= o.pos /\ Size(m, o.pos) \in Nat /\ o.pos + Size(m, o.pos) <= h.end
  BY <1>1, SizeFacts DEF Removing
<1>3. h \in HeaderType /\ shm_size \in Nat
  BY DEF Opened, ShmAssumption
<1>4. h.end \in Nat /\ h.free \in Nat /\ h.end + h.free = shm_size + 0
  BY <1>1, <1>3 DEF HeaderType, EndAndFree
<1>5. /\ h2.free = h.free + Size(m, o.pos) /\ h2.end = h.end /\ h2.magic = h.magic
      /\ h2.start = h.start /\ h2.total = h.total
  BY <1>3 DEF HeaderType
<1>6. h.free + Size(m, o.pos) \in 0..shm_size
  BY <1>2, <1>3, <1>4
<1>7. h2 \in HeaderType
  BY <1>3, <1>6 DEF HeaderType
<1>8. EndAndFree(h2, Size(m, o.pos))
  BY <1>2, <1>3, <1>4, <1>5 DEF EndAndFree
<1>9. QED BY <1>1, <1>5, <1>7, <1>8 DEF Working, Opened

Shrunk(h, n) == [h EXCEPT !.end = @ - n]

LEMMA EndShrinksWorks ==
  ASSUME ShmAssumption, NEW m, NEW h, Opened(h), NEW o, Working("end-", o, m, h),
         NEW h2, h2 = Shrunk(h, Size(m, o.pos))
  PROVE  Opened(h2) /\ Working("move", o, m, h2) /\ h.end = h2.end + Size(m, o.pos)
<1>1. Removing(o, m, h.end) /\ EndAndFree(h, Size(m, o.pos))
  BY DEF Working
<1>2. /\ o.pos \in Nat /\ 1 <= o.pos /\ Size(m, o.pos) \in Nat /\ o.pos + Size(m, o.pos) <= h.end
  BY <1>1, SizeFacts DEF Removing
<1>3. h \in HeaderType /\ shm_size \in Nat
  BY DEF Opened, ShmAssumption
<1>4. /\ h.end \in Nat /\ h.free \in Nat /\ h.end <= shm_size
      /\ h.end + h.free = shm_size + Size(m, o.pos)
  BY <1>1, <1>3 DEF HeaderType, EndAndFree
<1>5. /\ h2.end = h.end - Size(m, o.pos) /\ h2.free = h.free /\ h2.magic = h.magic
      /\ h2.start = h.start /\ h2.total = h.total
  BY <1>3 DEF HeaderType, Shrunk
<1>6. h.end - Size(m, o.pos) \in 0..shm_size
  BY <1>2, <1>3, <1>4
<1>7. h2 \in HeaderType
  BY <1>3, <1>6 DEF HeaderType, Shrunk
<1>8. EndAndFree(h2, 0) /\ h2.end + Size(m, o.pos) = h.end
  BY <1>2, <1>3, <1>4, <1>5 DEF EndAndFree
<1>9. QED BY <1>1, <1>5, <1>7, <1>8 DEF Working, Opened

MoveEffect(m, w, o, h) ==
  LET n == Size(m, o.pos)
  IN /\ Tiled(w, h.end) /\ IsMoved(m, w, o.pos, n, h.end + n)
     /\ Tiled(m, h.end + n) /\ o.pos \in Heads(m, h.end + n)
     /\ m[o.pos].key = o.key /\ (h.end + n) - n = h.end
     /\ \A u \in Heads(w, h.end) : w[u].key # o.key

LEMMA MoveWorks ==
  ASSUME ShmAssumption, NEW m, NEW h, Opened(h), NEW o \in OpType, Working("move", o, m, h),
         NEW w, w = Moved(m, o.pos, Size(m, o.pos), h.end)
  PROVE  /\ w \in Memory /\ Tiled(w, h.end)
         /\ o.val = NoValue => Working("idle", o, w, h)
         /\ o.val # NoValue => Working("room", [o EXCEPT !.pos = 0], w, h)
         /\ MoveEffect(m, w, o, h)
<1> DEFINE n == Size(m, o.pos)
           e == h.end + n
<1>1. Removing(o, m, e) /\ EndAndFree(h, 0)
  BY DEF Working
<1>2. Tiled(m, e) /\ o.pos \in Heads(m, e) /\ m[o.pos].key = o.key /\ o.val \in Value \cup {NoValue}
  BY <1>1 DEF Removing
<1>3. n \in Nat /\ m[o.pos].key \in Key
  BY <1>2, SizeFacts
<1>4. h.end \in Nat
  BY DEF Opened, HeaderType, ShmAssumption
<1>5. e - n = h.end
  BY <1>3, <1>4
<1>6. IsMoved(m, w, o.pos, n, e)
  BY <1>2, <1>5, MovedIsMoved
<1>7. Tiled(w, h.end) /\ \A u \in Heads(w, h.end) : w[u].key # m[o.pos].key
  <2>1. Tiled(w, e - n) /\ \A u \in Heads(w, e - n) : w[u].key # m[o.pos].key
    BY <1>2, <1>6, MovedTiled
  <2>2. QED BY <2>1, <1>5
<1>8. w \in Memory
  BY <1>6 DEF IsMoved
<1>9. Quiet(w, h)
  BY <1>1, <1>7 DEF Quiet
<1>10. [o EXCEPT !.pos = 0].key = o.key /\ [o EXCEPT !.pos = 0].val = o.val
  BY DEF OpType
<1>11. o.val # NoValue => Adding([o EXCEPT !.pos = 0], w, h)
  BY <1>2, <1>3, <1>7, <1>9, <1>10 DEF Adding
<1>12. Working("idle", o, w, h)
  BY <1>9 DEF Working
<1>13. o.val # NoValue => Working("room", [o EXCEPT !.pos = 0], w, h)
  BY <1>11 DEF Working
<1>14. MoveEffect(m, w, o, h)
  <2> HIDE DEF n, e
  <2>1. Tiled(w, h.end) /\ IsMoved(m, w, o.pos, n, h.end + n)
    BY <1>6, <1>7 DEF e
  <2>2. /\ Tiled(m, h.end + n) /\ o.pos \in Heads(m, h.end + n) /\ m[o.pos].key = o.key
        /\ (h.end + n) - n = h.end
    BY <1>2, <1>5 DEF e
  <2>3. \A u \in Heads(w, h.end) : w[u].key # o.key
    BY <1>2, <1>7
  <2>4. QED BY <2>1, <2>2, <2>3 DEF MoveEffect, n
<1>15. QED BY <1>7, <1>8, <1>12, <1>13, <1>14

LEMMA RoomWorks ==
  ASSUME NEW m, NEW h, NEW o, Working("room", o, m, h)
  PROVE  /\ h.free >= units[o.val] => Working("write", o, m, h)
         /\ \A o2 : Working("idle", o2, m, h)
  BY DEF Working, Adding

LEMMA WriteWorks ==
  ASSUME ShmAssumption, NEW m, NEW h, Opened(h), NEW o, Working("write", o, m, h),
         NEW w, w = [u \in Unit |->
                       IF u >= h.end /\ u < h.end + units[o.val]
                       THEN [key |-> o.key, val |-> o.val, part |-> u - h.end + 1] ELSE m[u]]
  PROVE  w \in Memory /\ Working("end+", o, w, h) /\ Prefix(m, w, h.end) /\ Tiled(m, h.end)
<1>1. Adding(o, m, h) /\ h.free >= units[o.val]
  BY DEF Working
<1>2. /\ Tiled(m, h.end) /\ h.end + h.free = shm_size + 0 /\ o.key \in Key /\ o.val \in Value
      /\ \A u \in Heads(m, h.end) : m[u].key # o.key
  BY <1>1 DEF Adding, Quiet, EndAndFree
<1>3. shm_size \in Nat /\ h.end \in Nat /\ h.free \in Nat
  BY DEF Opened, HeaderType, ShmAssumption
<1>4. units[o.val] \in Nat
  BY <1>2 DEF ShmAssumption
<1>5. h.end + units[o.val] <= shm_size
  BY <1>1, <1>2, <1>3, <1>4
<1>6. m \in Memory
  BY <1>2 DEF Tiled
<1>7. \A u \in Unit : u \in Nat
  BY <1>3 DEF Unit
<1>8. w \in Memory
  <2>1. ASSUME NEW u \in Unit PROVE w[u] \in Cell
    <3>1. CASE u >= h.end /\ u < h.end + units[o.val]
      <4>1. w[u] = [key |-> o.key, val |-> o.val, part |-> u - h.end + 1]
        BY <3>1
      <4>2. u - h.end + 1 \in Nat
        BY <3>1, <1>3, <1>7
      <4>3. QED BY <4>1, <4>2, <1>2 DEF Cell
    <3>2. CASE ~(u >= h.end /\ u < h.end + units[o.val])
      BY <3>2, <1>6 DEF Memory
    <3>3. QED BY <3>1, <3>2
  <2>2. QED BY <2>1 DEF Memory
<1>9. \A x \in Unit : x < h.end => w[x] = m[x]
  BY <1>3, <1>7
<1>10. \A x \in Unit : h.end <= x /\ x < h.end + units[o.val] =>
         w[x] = [key |-> o.key, val |-> o.val, part |-> x - h.end + 1]
  BY <1>3, <1>7
<1>11. IsAdded(m, w, h.end, o.key, o.val)
  BY <1>8, <1>9, <1>10, Zenon DEF IsAdded, Prefix
<1>12. /\ Tiled(w, h.end) /\ Tiled(w, h.end + units[o.val])
       /\ h.end \in Unit /\ w[h.end] = [key |-> o.key, val |-> o.val, part |-> 1]
       /\ \A u \in Heads(w, h.end) : w[u].key # o.key
  BY <1>2, <1>5, <1>11, AddedTiled
<1>13. Adding(o, w, h) /\ WrittenWhole(o, w, h)
  BY <1>1, <1>2, <1>12 DEF Adding, Quiet, WrittenWhole
<1>14. QED BY <1>2, <1>8, <1>11, <1>13 DEF Working, IsAdded

LEMMA EndGrowsWorks ==
  ASSUME ShmAssumption, NEW m, NEW h, Opened(h), NEW o, Working("end+", o, m, h),
         NEW h2, h2 = [h EXCEPT !.end = @ + units[o.val]]
  PROVE  Opened(h2) /\ Working("free-", o, m, h2) /\ h2.end = h.end + units[o.val]
<1>1. Adding(o, m, h) /\ WrittenWhole(o, m, h)
  BY DEF Working
<1>2. /\ Tiled(m, h.end + units[o.val]) /\ h.end + h.free = shm_size + 0 /\ o.val \in Value
  BY <1>1 DEF Adding, Quiet, EndAndFree, WrittenWhole
<1>3. h \in HeaderType /\ shm_size \in Nat /\ units[o.val] \in Nat
  BY <1>2 DEF Opened, ShmAssumption
<1>4. h.end \in Nat /\ h.free \in Nat
  BY <1>3 DEF HeaderType
<1>5. /\ h2.end = h.end + units[o.val] /\ h2.free = h.free /\ h2.magic = h.magic
      /\ h2.start = h.start /\ h2.total = h.total
  BY <1>3 DEF HeaderType
<1>6. h.end + units[o.val] \in 0..shm_size
  BY <1>2, <1>3 DEF Tiled
<1>7. h2 \in HeaderType
  BY <1>3, <1>6 DEF HeaderType
<1>8. EndAndFree(h2, units[o.val])
  BY <1>2, <1>3, <1>4, <1>5 DEF EndAndFree
<1>9. QED BY <1>2, <1>5, <1>7, <1>8 DEF Working, Opened

LEMMA FreeShrinksWorks ==
  ASSUME ShmAssumption, NEW m, NEW h, Opened(h), NEW o, Working("free-", o, m, h),
         NEW h2, h2 = [h EXCEPT !.free = @ - units[o.val]], NEW o2
  PROVE  Opened(h2) /\ Working("idle", o2, m, h2) /\ h2.end = h.end
<1>1. o.val \in Value /\ Tiled(m, h.end) /\ h.end + h.free = shm_size + units[o.val]
  BY DEF Working, EndAndFree
<1>2. h \in HeaderType /\ shm_size \in Nat /\ units[o.val] \in Nat
  BY <1>1 DEF Opened, ShmAssumption
<1>3. h.end \in Nat /\ h.free \in Nat /\ h.end <= shm_size
  BY <1>2 DEF HeaderType
<1>4. /\ h2.free = h.free - units[o.val] /\ h2.end = h.end /\ h2.magic = h.magic
      /\ h2.start = h.start /\ h2.total = h.total
  BY <1>2 DEF HeaderType
<1>5. h.free - units[o.val] \in 0..shm_size
  <2>1. h.free <= shm_size
    BY <1>2 DEF HeaderType
  <2>2. QED BY <2>1, <1>1, <1>2, <1>3
<1>6. h2 \in HeaderType
  BY <1>2, <1>5 DEF HeaderType
<1>7. EndAndFree(h2, 0)
  BY <1>1, <1>2, <1>3, <1>4 DEF EndAndFree
<1>8. QED BY <1>1, <1>4, <1>6, <1>7 DEF Working, Opened, Quiet

(* Who dies before the first of two writes leaves whole chunks. *)
LEMMA WorkAbandoned ==
  ASSUME NEW m, NEW h, NEW o, NEW c \in Writing \ HalfWritten, Working(c, o, m, h)
  PROVE  Quiet(m, h)
<1>1. c \in {"free+", "room", "write", "end+"}
  BY DEF Writing, HalfWritten
<1>2. QED BY <1>1 DEF Working, Removing, Adding, Quiet

-----------------------------------------------------------------------------
(* The inductive invariant: only the holder of the semaphore is between two *)
(* steps of an operation; what does not exist is blank; a segment that is   *)
(* not torn has a header when somebody is done with attaching it, and whole *)
(* chunks unless somebody writes it.                                        *)
ShmTypes ==
  /\ segment \in 0..MaxSegments
  /\ head \in [Segment -> HeaderType] /\ mem \in [Segment -> Memory]
  /\ at \in [Process -> 0..MaxSegments] /\ holder \in Process \cup {NoProcess}
  /\ step \in [Process -> {"idle"} \cup Writing \cup Attaching]
  /\ op \in [Process -> OpType] /\ torn \subseteq Segment
Opening == {"check", "magic", "header"}
Exclusive == \A p \in Process : step[p] # "idle" => holder = p
Blank ==
  \A g \in Segment : ~Exists(g) => head[g] = NewHead /\ mem[g] = NewMem /\ g \notin torn
Attached(p) ==
  /\ step[p] = "attach" => at[p] = 0 /\ op[p].pos \in Segment
  /\ step[p] \in Writing \cup Opening => at[p] # 0
  /\ step[p] \in Writing \cup {"magic", "header"} => at[p] \notin torn
  /\ at[p] # 0 /\ at[p] \notin torn /\ step[p] \notin Opening => Initialized(at[p])
  /\ step[p] = "magic" => ~head[at[p]].magic
  /\ step[p] = "header" => head[at[p]].magic /\ ~Initialized(at[p])
Header(g) ==
  /\ g \in torn => head[g].magic
  /\ Initialized(g) => Opened(head[g])
  /\ g \notin torn /\ ~Initialized(g) => head[g].end = 0
  /\ g \notin torn /\ head[g].magic /\ ~Initialized(g) =>
       \E p \in Process : at[p] = g /\ step[p] = "header"
AllQuiet ==
  \A g \in Segment : g \notin torn /\ Initialized(g) /\ ~Written(g) => Quiet(mem[g], head[g])
AllWorking ==
  \A p \in Process : step[p] \in Writing => Working(step[p], op[p], mem[at[p]], head[at[p]])
Attachments == \A p \in Process : Attached(p)
Headers == \A g \in Segment : Header(g)
ShmInv == ShmTypes /\ Exclusive /\ Blank /\ Attachments /\ Headers /\ AllQuiet /\ AllWorking

LEMMA TypesAre == ShmTypeOK <=> ShmTypes
  BY Zenon DEF ShmTypeOK, ShmTypes, HeaderType, Memory, OpType

LEMMA Places0 ==
  ASSUME ShmAssumption, NEW g \in 0..MaxSegments, g # 0 PROVE g \in Segment
  BY DEF ShmAssumption, Segment

LEMMA NotZero == ASSUME ShmAssumption, NEW g \in Segment PROVE g # 0 /\ g \in 0..MaxSegments
  BY DEF ShmAssumption, Segment

LEMMA Alone ==
  ASSUME Exclusive, NEW p \in Process, step[p] # "idle" \/ holder = p,
         NEW q \in Process, q # p
  PROVE  step[q] = "idle"
  BY DEF Exclusive

LEMMA ShmInitInv == ShmAssumption /\ ShmInit => ShmInv
<1> SUFFICES ASSUME ShmAssumption, ShmInit PROVE ShmInv
  OBVIOUS
<1>0. shm_size \in Nat
  BY DEF ShmAssumption
<1>1. /\ segment = 0 /\ head = [g \in Segment |-> NewHead]
      /\ mem = [g \in Segment |-> NewMem] /\ at = [p \in Process |-> 0]
      /\ holder = NoProcess /\ step = [p \in Process |-> "idle"]
      /\ op = [p \in Process |-> NoOp] /\ torn = {}
  BY DEF ShmInit
<1>2. NewHead \in HeaderType /\ NewHead.start = 0 /\ NewHead.end = 0
      /\ NewHead.magic = FALSE
  BY <1>0 DEF NewHead, HeaderType
<1>3. NewMem \in Memory
  BY DEF NewMem, NoCell, Cell, Memory
<1>4. NoOp \in OpType
  BY <1>0 DEF NoOp, OpType
<1>5. ShmTypes
  <2>1. 0 \in 0..MaxSegments
    BY DEF ShmAssumption
  <2>2. QED BY <1>1, <1>2, <1>3, <1>4, <2>1 DEF ShmTypes
<1>6. Exclusive /\ AllWorking /\ Attachments
  BY <1>1 DEF Exclusive, AllWorking, Attachments, Attached, Writing, Opening
<1>7. Blank
  BY <1>1 DEF Blank
<1>8. \A g \in Segment : head[g] = NewHead
  BY <1>1
<1>9. Headers /\ AllQuiet
  BY <1>1, <1>2, <1>8 DEF Headers, Header, AllQuiet, Initialized
<1>10. QED BY <1>5, <1>6, <1>7, <1>9 DEF ShmInv

(* What holds of a segment that somebody uses or writes. *)
LEMMA WriterFacts ==
  ASSUME ShmAssumption, ShmInv, NEW p \in Process, step[p] \in Writing
  PROVE  /\ at[p] \in Segment /\ at[p] \notin torn /\ Opened(head[at[p]])
         /\ Working(step[p], op[p], mem[at[p]], head[at[p]]) /\ op[p] \in OpType
         /\ step[p] # "idle" /\ holder = p /\ mem[at[p]] \in Memory
         /\ \A q \in Process : q # p => step[q] = "idle"
<1>1. step[p] # "idle" /\ step[p] \notin Opening
  BY DEF Writing, Opening
<1>2. Attached(p)
  BY DEF ShmInv, Attachments
<1>3. at[p] # 0 /\ at[p] \notin torn /\ Initialized(at[p])
  BY <1>1, <1>2 DEF Attached
<1>4. at[p] \in Segment
  <2>1. at[p] \in 0..MaxSegments
    BY DEF ShmInv, ShmTypes
  <2>2. QED BY <2>1, <1>3, Places0
<1>5. Opened(head[at[p]])
  BY <1>3, <1>4 DEF ShmInv, Headers, Header
<1>6. Working(step[p], op[p], mem[at[p]], head[at[p]])
  BY DEF ShmInv, AllWorking
<1>7. op[p] \in OpType /\ mem[at[p]] \in Memory
  BY <1>4 DEF ShmInv, ShmTypes
<1>8. holder = p /\ \A q \in Process : q # p => step[q] = "idle"
  BY <1>1 DEF ShmInv, Exclusive
<1>9. QED BY <1>1, <1>3, <1>4, <1>5, <1>6, <1>7, <1>8

LEMMA UserFacts ==
  ASSUME ShmAssumption, ShmInv, NEW p \in Process, Uses(p)
  PROVE  /\ at[p] \in Segment /\ at[p] \notin torn /\ Opened(head[at[p]])
         /\ Quiet(mem[at[p]], head[at[p]]) /\ Initialized(at[p])
         /\ \A q \in Process : step[q] = "idle"
<1>1. step[p] = "idle" /\ holder = p /\ at[p] # 0 /\ at[p] \notin torn
  BY DEF Uses
<1>2. \A q \in Process : step[q] = "idle"
  BY <1>1 DEF ShmInv, Exclusive
<1>3. Initialized(at[p])
  <2>1. Attached(p)
    BY DEF ShmInv, Attachments
  <2>2. QED BY <2>1, <1>1 DEF Attached, Opening
<1>4. at[p] \in Segment
  <2>1. at[p] \in 0..MaxSegments
    BY DEF ShmInv, ShmTypes
  <2>2. QED BY <2>1, <1>1, Places0
<1>5. Opened(head[at[p]])
  BY <1>3, <1>4 DEF ShmInv, Headers, Header
<1>6. ~Written(at[p])
  BY <1>2 DEF Written, Writing
<1>7. Quiet(mem[at[p]], head[at[p]])
  BY <1>1, <1>3, <1>4, <1>6 DEF ShmInv, AllQuiet
<1>8. QED BY <1>1, <1>2, <1>3, <1>4, <1>5, <1>7

(* A write of the one who writes: a new header and memory of its segment. *)
LEMMA WriteStep ==
  ASSUME ShmAssumption, ShmInv, NEW p \in Process, step[p] \in Writing,
         NEW h2, Opened(h2), NEW w \in Memory, NEW c \in Writing \cup {"idle"},
         NEW o2 \in OpType, Working(c, o2, w, h2),
         head' = [head EXCEPT ![at[p]] = h2], mem' = [mem EXCEPT ![at[p]] = w],
         step' = [step EXCEPT ![p] = c], op' = [op EXCEPT ![p] = o2],
         UNCHANGED <<segment, at, holder, torn>>
  PROVE  ShmInv'
<1>0. PICK g \in Segment : g = at[p]
  BY WriterFacts
<1>1. /\ g \notin torn /\ Opened(head[g])
      /\ step[p] # "idle" /\ holder = p /\ \A q \in Process : q # p => step[q] = "idle"
  BY <1>0, WriterFacts
<1>2. /\ ShmTypes /\ Exclusive /\ Blank /\ Attachments /\ Headers /\ AllQuiet /\ AllWorking
  BY DEF ShmInv
<1>3. /\ head \in [Segment -> HeaderType] /\ mem \in [Segment -> Memory]
      /\ step \in [Process -> {"idle"} \cup Writing \cup Attaching]
      /\ op \in [Process -> OpType]
  BY <1>2 DEF ShmTypes
<1>4. /\ head'[g] = h2 /\ mem'[g] = w /\ step'[p] = c /\ op'[p] = o2
      /\ \A x \in Segment : x # g => head'[x] = head[x] /\ mem'[x] = mem[x]
      /\ \A q \in Process : q # p => step'[q] = "idle" /\ op'[q] = op[q] /\ step[q] = "idle"
  BY <1>0, <1>1, <1>3
<1>5. ShmTypes'
  <2>1. head' \in [Segment -> HeaderType] /\ mem' \in [Segment -> Memory]
    BY <1>0, <1>1, <1>3 DEF Opened
  <2>2. step' \in [Process -> {"idle"} \cup Writing \cup Attaching] /\ op' \in [Process -> OpType]
    BY <1>3
  <2>3. /\ segment' \in 0..MaxSegments /\ at' \in [Process -> 0..MaxSegments]
        /\ holder' \in Process \cup {NoProcess} /\ torn' \subseteq Segment
    BY <1>2 DEF ShmTypes
  <2>4. QED BY <2>1, <2>2, <2>3 DEF ShmTypes
<1>6. Exclusive'
  BY <1>1, <1>4 DEF Exclusive
<1>7. at' = at /\ torn' = torn /\ segment' = segment /\ holder' = holder /\ at[p] = g
  BY <1>0
<1>8. Blank'
  <2>1. Exists(g)
    BY <1>7 DEF Exists
  <2>2. \A x \in Segment : Exists(x)' <=> Exists(x)
    BY <1>7 DEF Exists
  <2>3. QED BY <2>1, <2>2, <1>2, <1>4, <1>7 DEF Blank
<1>9. head'[g].start # 0 /\ head[g].start # 0 /\ head'[g].magic /\ head[g].magic
  BY <1>1, <1>4 DEF Opened
<1>10. \A x \in Segment : Initialized(x)' <=> Initialized(x)
  BY <1>4, <1>9 DEF Initialized
<1>11. Attachments'
  <2>1. ASSUME NEW q \in Process, q # p PROVE Attached(q)'
    <3>1. step'[q] = "idle" /\ step[q] = "idle" /\ Attached(q)
      BY <2>1, <1>2, <1>4 DEF Attachments
    <3>2. at[q] # 0 => at[q] \in Segment
      <4>1. at[q] \in 0..MaxSegments
        BY <1>2 DEF ShmTypes
      <4>2. QED BY <4>1, Places0
    <3>3. at[q] # 0 /\ at[q] \notin torn => Initialized(at[q])
      BY <3>1 DEF Attached, Opening
    <3>4. at[q] # 0 /\ at[q] \notin torn => Initialized(at[q])'
      BY <3>2, <3>3, <1>7, <1>10
    <3>5. QED BY <3>1, <3>4, <1>7 DEF Attached, Writing, Opening
  <2>2. Attached(p)'
    <3>1. step'[p] \in Writing \cup {"idle"} /\ at'[p] = g /\ g # 0
      BY <1>1, <1>4, <1>7, NotZero
    <3>2. QED BY <3>1, <1>1, <1>7, <1>9 DEF Attached, Writing, Opening, Initialized
  <2>3. QED BY <2>1, <2>2 DEF Attachments
<1>12. Headers'
  <2> SUFFICES ASSUME NEW x \in Segment PROVE Header(x)'
    BY DEF Headers
  <2>1. CASE x = g
    BY <2>1, <1>1, <1>4, <1>7, <1>9 DEF Header, Initialized
  <2>2. CASE x # g
    <3>1. Header(x) /\ head'[x] = head[x]
      BY <2>2, <1>2, <1>4 DEF Headers
    <3>2. ASSUME NEW q \in Process, step[q] = "header" PROVE FALSE
      <4>1. step[p] # "header"
        BY DEF Writing
      <4>2. QED BY <4>1, <3>2, <1>4
    <3>3. QED BY <3>1, <3>2, <1>7, <1>10 DEF Header
  <2>3. QED BY <2>1, <2>2
<1>13. Writing = Writing' /\ "idle" \notin Writing
  BY DEF Writing
<1>14. AllQuiet'
  <2> SUFFICES ASSUME NEW x \in Segment, x \notin torn, Initialized(x)', ~Written(x)'
               PROVE  Quiet(mem'[x], head'[x])
    BY <1>7 DEF AllQuiet
  <2>1. CASE x = g
    <3>1. c \notin Writing
      BY <2>1, <1>4, <1>7 DEF Written
    <3>2. QED BY <3>1, <2>1, <1>4 DEF Working
  <2>2. CASE x # g
    <3>1. ~Written(x)
      <4>1. \A q \in Process : ~(at[q] = x /\ step[q] \in Writing)
        BY <2>2, <1>4, <1>7, <1>13
      <4>2. QED BY <4>1 DEF Written
    <3>2. Initialized(x)
      BY <1>10
    <3>3. QED BY <3>1, <3>2, <2>2, <1>2, <1>4 DEF AllQuiet
  <2>3. QED BY <2>1, <2>2
<1>15. AllWorking'
  <2> SUFFICES ASSUME NEW q \in Process, step'[q] \in Writing
               PROVE  Working(step'[q], op'[q], mem'[at[q]], head'[at[q]])
    BY <1>7 DEF AllWorking
  <2>1. q = p
    BY <1>4, <1>13
  <2>2. QED BY <2>1, <1>4, <1>7
<1>16. QED BY <1>5, <1>6, <1>8, <1>11, <1>12, <1>14, <1>15 DEF ShmInv

(* Segments are freed: a process detaches, removes the key, or dies. *)
LEMMA FreeStep ==
  ASSUME ShmAssumption, ShmInv, NEW p \in Process,
         at' \in {at, [at EXCEPT ![p] = 0]}, segment' \in {segment, 0},
         step' = [step EXCEPT ![p] = "idle"], op' \in {op, [op EXCEPT ![p] = NoOp]},
         holder' = holder \/ (holder = p /\ holder' = NoProcess),
         step[p] # "idle" => at'[p] = 0,
         Free(IF step[p] \in HalfWritten THEN torn \cup {at[p]} ELSE torn)
  PROVE  ShmInv'
<1> DEFINE half == IF step[p] \in HalfWritten THEN torn \cup {at[p]} ELSE torn
           kept == {g \in Segment : g = segment' \/ \E q \in Process : at'[q] = g}
<1>1. /\ ShmTypes /\ Exclusive /\ Blank /\ Attachments /\ Headers /\ AllQuiet /\ AllWorking
  BY DEF ShmInv
<1>2. /\ head \in [Segment -> HeaderType] /\ mem \in [Segment -> Memory]
      /\ step \in [Process -> {"idle"} \cup Writing \cup Attaching]
      /\ op \in [Process -> OpType] /\ at \in [Process -> 0..MaxSegments]
      /\ segment \in 0..MaxSegments /\ holder \in Process \cup {NoProcess}
  BY <1>1 DEF ShmTypes
<1>3. /\ head' = [g \in Segment |-> IF g \in kept THEN head[g] ELSE NewHead]
      /\ mem' = [g \in Segment |-> IF g \in kept THEN mem[g] ELSE NewMem]
      /\ torn' = half \cap kept
  BY DEF Free
<1> HIDE DEF half, kept
<1>4. /\ \A g \in kept : head'[g] = head[g] /\ mem'[g] = mem[g]
      /\ \A g \in Segment \ kept : head'[g] = NewHead /\ mem'[g] = NewMem /\ g \notin torn'
      /\ kept \subseteq Segment
  BY <1>3 DEF kept
<1>5. /\ \A q \in Process : q # p => at'[q] = at[q] /\ step'[q] = step[q] /\ op'[q] = op[q]
      /\ step'[p] = "idle" /\ at'[p] \in {0, at[p]}
      /\ \A q \in Process : at'[q] # 0 => at'[q] = at[q]
  BY <1>2
<1>6. NewHead \in HeaderType /\ NewHead.start = 0 /\ NewHead.end = 0
      /\ NewHead.magic = FALSE /\ NewMem \in Memory /\ NoOp \in OpType
  <2>1. shm_size \in Nat
    BY DEF ShmAssumption
  <2>2. QED BY <2>1 DEF NewHead, HeaderType, NewMem, NoCell, Cell, Memory, NoOp, OpType
<1>7. \A q \in Process : at'[q] # 0 => at'[q] \in kept
  <2>1. \A q \in Process : at[q] # 0 => at[q] \in Segment
    BY <1>2, Places0
  <2>2. QED BY <2>1, <1>5 DEF kept
<1>8. half # torn => step[p] \in HalfWritten /\ half = torn \cup {at[p]}
  BY DEF half
<1>9. step[p] \in HalfWritten => /\ half = torn \cup {at[p]} /\ step[p] # "idle"
                                 /\ \A q \in Process : q # p => step[q] = "idle"
  <2>1. step[p] \in HalfWritten => step[p] # "idle"
    BY DEF HalfWritten
  <2>2. QED BY <2>1, <1>1 DEF Exclusive, half
<1>10. ShmTypes'
  <2>1. head' \in [Segment -> HeaderType] /\ mem' \in [Segment -> Memory]
    BY <1>2, <1>3, <1>6
  <2>2. step' \in [Process -> {"idle"} \cup Writing \cup Attaching] /\ op' \in [Process -> OpType]
    BY <1>2, <1>6
  <2>3. 0 \in 0..MaxSegments
    BY DEF ShmAssumption
  <2>4. /\ segment' \in 0..MaxSegments /\ at' \in [Process -> 0..MaxSegments]
        /\ holder' \in Process \cup {NoProcess}
    BY <1>2, <2>3
  <2>5. torn' \subseteq Segment
    BY <1>3, <1>4
  <2>6. QED BY <2>1, <2>2, <2>4, <2>5 DEF ShmTypes
<1>11. Exclusive'
  <2> SUFFICES ASSUME NEW q \in Process, step'[q] # "idle" PROVE holder' = q
    BY DEF Exclusive
  <2>1. q # p /\ step[q] # "idle"
    BY <1>5
  <2>2. holder = q
    BY <2>1, <1>1 DEF Exclusive
  <2>3. QED BY <2>1, <2>2
<1>12. Blank'
  <2> SUFFICES ASSUME NEW g \in Segment, ~Exists(g)'
               PROVE  head'[g] = NewHead /\ mem'[g] = NewMem /\ g \notin torn'
    BY DEF Blank
  <2>1. g \notin kept
    BY DEF kept, Exists
  <2>2. QED BY <2>1, <1>4
<1>13. Attachments'
  <2> SUFFICES ASSUME NEW q \in Process PROVE Attached(q)'
    BY DEF Attachments
  <2>1. CASE q = p
    <3>1. step'[p] = "idle"
      BY <1>5
    <3>2. ASSUME at'[p] # 0, at'[p] \notin torn' PROVE head'[at'[p]].start # 0
      <4>1. at'[p] = at[p] /\ at[p] \in kept /\ step[p] = "idle"
        BY <3>2, <1>5, <1>7
      <4>2. at[p] \notin torn
        BY <3>2, <4>1, <1>3 DEF half
      <4>3. Initialized(at[p])
        BY <3>2, <4>1, <4>2, <1>1 DEF Attachments, Attached, Opening
      <4>4. QED BY <4>1, <4>3, <1>4 DEF Initialized
    <3>3. QED BY <2>1, <3>1, <3>2 DEF Attached, Writing, Opening, Initialized
  <2>2. CASE q # p
    <3>1. at'[q] = at[q] /\ step'[q] = step[q] /\ op'[q] = op[q] /\ Attached(q)
      BY <2>2, <1>1, <1>5 DEF Attachments
    <3>2. at[q] # 0 => at[q] \in kept
      BY <3>1, <1>7
    <3>3. at[q] # 0 => head'[at[q]] = head[at[q]]
      BY <3>2, <1>4
    <3>4. ASSUME step[q] # "idle" PROVE torn' = torn \cap kept
      BY <3>4, <2>2, <1>3, <1>8, <1>9
    <3>5. at[q] # 0 /\ at[q] \notin torn' => at[q] \notin torn
      BY <3>2, <1>3 DEF half
    <3>6. CASE step[q] = "idle"
      BY <3>6, <3>1, <3>3, <3>5 DEF Attached, Writing, Opening, Initialized
    <3>7. CASE step[q] # "idle"
      <4>1. torn' = torn \cap kept
        BY <3>4, <3>7
      <4>2. step[q] \in Writing \cup Opening => at[q] # 0
        BY <3>1 DEF Attached
      <4>3. (step[q] = "magic" \/ step[q] = "header") => at[q] # 0
        BY <4>2 DEF Opening
      <4>4. QED BY <4>1, <4>3, <3>1, <3>2, <3>3, <3>5 DEF Attached, Initialized
    <3>8. QED BY <3>6, <3>7
  <2>3. QED BY <2>1, <2>2
<1>14. Headers'
  <2> SUFFICES ASSUME NEW g \in Segment PROVE Header(g)'
    BY DEF Headers
  <2>1. CASE g \notin kept
    <3>1. head'[g] = NewHead /\ g \notin torn'
      BY <2>1, <1>4
    <3>2. QED BY <3>1, <1>6 DEF Header, Initialized
  <2>2. CASE g \in kept
    <3>1. head'[g] = head[g] /\ Header(g) /\ (g \in torn' <=> g \in half)
      BY <2>2, <1>1, <1>3, <1>4 DEF Headers
    <3>2. ASSUME g \in half PROVE head[g].magic
      <4>1. CASE g \in torn
        BY <4>1, <3>1 DEF Header
      <4>2. CASE step[p] = "header" /\ g = at[p]
        <5>1. Attached(p)
          BY <1>1 DEF Attachments
        <5>2. QED BY <5>1, <4>2 DEF Attached
      <4>3. CASE step[p] \in Writing /\ g = at[p]
        <5>1. Opened(head[at[p]])
          BY <4>3, WriterFacts
        <5>2. QED BY <5>1, <4>3 DEF Opened
      <4>4. QED BY <3>2, <4>1, <4>2, <4>3, <1>8 DEF HalfWritten, Writing
    <3>3. ASSUME g \notin half, head[g].magic, ~Initialized(g)
          PROVE  \E q \in Process : at'[q] = g /\ step'[q] = "header"
      <4>1. g \notin torn
        BY <3>3 DEF half
      <4>2. PICK q \in Process : at[q] = g /\ step[q] = "header"
        BY <4>1, <3>1, <3>3 DEF Header
      <4>3. q # p
        BY <4>2, <3>3 DEF half, HalfWritten
      <4>4. QED BY <4>2, <4>3, <1>5
    <3>4. g \notin half => g \notin torn
      BY DEF half
    <3>5. QED BY <3>1, <3>2, <3>3, <3>4 DEF Header, Initialized
  <2>3. QED BY <2>1, <2>2
<1>15. AllQuiet'
  <2> SUFFICES ASSUME NEW g \in Segment, g \notin torn', Initialized(g)', ~Written(g)'
               PROVE  Quiet(mem'[g], head'[g])
    BY DEF AllQuiet
  <2>1. g \in kept
    BY <1>4, <1>6 DEF Initialized
  <2>2. /\ head'[g] = head[g] /\ mem'[g] = mem[g] /\ g \notin half /\ g \notin torn
        /\ Initialized(g)
    BY <2>1, <1>3, <1>4 DEF Initialized, half
  <2>3. CASE ~Written(g)
    BY <2>2, <2>3, <1>1 DEF AllQuiet
  <2>4. CASE Written(g)
    <3>1. PICK q \in Process : at[q] = g /\ step[q] \in Writing
      BY <2>4 DEF Written
    <3>2. q = p
      BY <3>1, <1>5 DEF Written
    <3>3. step[p] \in Writing \ HalfWritten
      BY <3>1, <3>2, <2>2 DEF half
    <3>4. Working(step[p], op[p], mem[g], head[g])
      BY <3>1, <3>2, WriterFacts
    <3>5. Quiet(mem[g], head[g])
      BY <3>3, <3>4, WorkAbandoned
    <3>6. QED BY <3>5, <2>2
  <2>5. QED BY <2>3, <2>4
<1>16. AllWorking'
  <2> SUFFICES ASSUME NEW q \in Process, step'[q] \in Writing
               PROVE  Working(step'[q], op'[q], mem'[at'[q]], head'[at'[q]])
    BY DEF AllWorking
  <2>1. q # p
    BY <1>5 DEF Writing
  <2>2. at'[q] = at[q] /\ step'[q] = step[q] /\ op'[q] = op[q]
    BY <2>1, <1>5
  <2>3. at[q] \in Segment /\ Working(step[q], op[q], mem[at[q]], head[at[q]])
    BY <2>2, WriterFacts
  <2>4. at[q] \in kept
    BY <2>2, <2>3, <1>7, NotZero
  <2>5. QED BY <2>2, <2>3, <2>4, <1>4
<1>17. QED BY <1>10, <1>11, <1>12, <1>13, <1>14, <1>15, <1>16 DEF ShmInv

(* A step of the holder, who does not write, that changes no segment. *)
LEMMA HolderStep ==
  ASSUME ShmAssumption, ShmInv, NEW p \in Process,
         \A q \in Process : q # p => step[q] = "idle",
         holder = p \/ \A q \in Process : step[q] = "idle",
         step[p] \notin Writing \cup {"header"},
         holder' = holder, head' = head, mem' = mem, torn' = torn,
         NEW c \in {"idle"} \cup Writing \cup Attaching, step' = [step EXCEPT ![p] = c],
         c # "idle" => holder = p,
         NEW o2 \in OpType, op' = [op EXCEPT ![p] = o2],
         NEW g \in 0..MaxSegments, at' = [at EXCEPT ![p] = g], segment' \in 0..MaxSegments,
         \A x \in Segment : Exists(x) => (Exists(x))',
         Attached(p)',
         c \in Writing => Working(c, o2, mem[g], head[g])
  PROVE  ShmInv'
<1>1. /\ ShmTypes /\ Exclusive /\ Blank /\ Attachments /\ Headers /\ AllQuiet /\ AllWorking
  BY DEF ShmInv
<1>2. /\ step \in [Process -> {"idle"} \cup Writing \cup Attaching]
      /\ op \in [Process -> OpType] /\ at \in [Process -> 0..MaxSegments]
  BY <1>1 DEF ShmTypes
<1>3. /\ step'[p] = c /\ op'[p] = o2 /\ at'[p] = g
      /\ \A q \in Process : q # p => /\ step'[q] = "idle" /\ step[q] = "idle"
                                     /\ op'[q] = op[q] /\ at'[q] = at[q]
  BY <1>2
<1>4. ShmTypes'
  <2>1. step' \in [Process -> {"idle"} \cup Writing \cup Attaching]
    BY <1>2
  <2>2. op' \in [Process -> OpType] /\ at' \in [Process -> 0..MaxSegments]
    BY <1>2
  <2>3. /\ head' \in [Segment -> HeaderType] /\ mem' \in [Segment -> Memory]
        /\ holder' \in Process \cup {NoProcess} /\ torn' \subseteq Segment
    BY <1>1 DEF ShmTypes
  <2>4. QED BY <2>1, <2>2, <2>3 DEF ShmTypes
<1>5. Exclusive'
  BY <1>3 DEF Exclusive
<1>6. Blank'
  <2> SUFFICES ASSUME NEW x \in Segment, ~(Exists(x))'
               PROVE  head[x] = NewHead /\ mem[x] = NewMem /\ x \notin torn
    BY DEF Blank
  <2>1. ~Exists(x)
    OBVIOUS
  <2>2. QED BY <2>1, <1>1 DEF Blank
<1>7. Attachments'
  <2>1. ASSUME NEW q \in Process, q # p PROVE Attached(q)'
    <3>1. step'[q] = "idle" /\ step[q] = "idle" /\ at'[q] = at[q] /\ Attached(q)
      BY <2>1, <1>1, <1>3 DEF Attachments
    <3>2. QED BY <3>1 DEF Attached, Writing, Opening, Initialized
  <2>2. QED BY <2>1 DEF Attachments
<1>8. Headers'
  <2> SUFFICES ASSUME NEW x \in Segment PROVE Header(x)'
    BY DEF Headers
  <2>1. Header(x)
    BY <1>1 DEF Headers
  <2>2. \A q \in Process : step[q] # "header"
    BY <1>3
  <2>3. QED BY <2>1, <2>2 DEF Header, Initialized
<1>9. AllQuiet'
  <2> SUFFICES ASSUME NEW x \in Segment, x \notin torn, head[x].start # 0
               PROVE  Quiet(mem[x], head[x])
    BY DEF AllQuiet, Initialized
  <2>1. \A q \in Process : step[q] \notin Writing
    BY <1>3 DEF Writing
  <2>2. ~Written(x)
    BY <2>1 DEF Written
  <2>3. QED BY <2>2, <1>1 DEF AllQuiet, Initialized
<1>10. AllWorking'
  <2> SUFFICES ASSUME NEW q \in Process, step'[q] \in Writing
               PROVE  Working(step'[q], op'[q], mem[at'[q]], head[at'[q]])
    BY DEF AllWorking
  <2>1. q = p
    BY <1>3 DEF Writing
  <2>2. QED BY <2>1, <1>3
<1>11. QED BY <1>4, <1>5, <1>6, <1>7, <1>8, <1>9, <1>10 DEF ShmInv

(* The header is written, in two steps, by the one who attaches. *)
LEMMA HeaderStep ==
  ASSUME ShmAssumption, ShmInv, NEW p \in Process, step[p] \in {"magic", "header"},
         NEW h2 \in HeaderType, h2.magic, NEW c \in {"idle", "header"},
         c = "idle" => Opened(h2) /\ Quiet(mem[at[p]], h2),
         c = "header" => h2.start = 0 /\ h2.end = 0,
         head' = [head EXCEPT ![at[p]] = h2], step' = [step EXCEPT ![p] = c],
         UNCHANGED <<segment, mem, at, holder, op, torn>>
  PROVE  ShmInv'
<1>1. /\ ShmTypes /\ Exclusive /\ Blank /\ Attachments /\ Headers /\ AllQuiet /\ AllWorking
  BY DEF ShmInv
<1>2. /\ step \in [Process -> {"idle"} \cup Writing \cup Attaching]
      /\ head \in [Segment -> HeaderType] /\ at \in [Process -> 0..MaxSegments]
  BY <1>1 DEF ShmTypes
<1>3. Attached(p)
  BY <1>1 DEF Attachments
<1>4. at[p] \in Segment
  <2>1. at[p] # 0 /\ at[p] \in 0..MaxSegments
    BY <1>2, <1>3 DEF Attached, Opening
  <2>2. QED BY <2>1, Places0
<1>5. PICK g \in Segment : g = at[p]
  BY <1>4
<1>6. g \notin torn /\ head[g].start = 0
  <2>1. g \notin torn
    BY <1>3, <1>5 DEF Attached
  <2>2. CASE step[p] = "header"
    BY <2>2, <1>3, <1>5 DEF Attached, Initialized
  <2>3. CASE step[p] = "magic"
    <3>1. ~head[g].magic
      BY <2>3, <1>3, <1>5 DEF Attached
    <3>2. QED BY <3>1, <1>1 DEF Headers, Header, Initialized, Opened
  <2>4. QED BY <2>1, <2>2, <2>3
<1>7. /\ head'[g] = h2 /\ \A x \in Segment : x # g => head'[x] = head[x]
      /\ step'[p] = c /\ step[p] # "idle" /\ step[p] \notin Writing /\ c \notin Writing
      /\ \A q \in Process : q # p => step'[q] = step[q]
  BY <1>2, <1>5 DEF Writing
<1>8. \A q \in Process : q # p => step'[q] = "idle" /\ step[q] = "idle"
  BY <1>1, <1>7 DEF Exclusive
<1>9. /\ segment' = segment /\ mem' = mem /\ at' = at /\ holder' = holder /\ op' = op /\ torn' = torn
  OBVIOUS
<1>10. ShmTypes'
  <2>1. step' \in [Process -> {"idle"} \cup Writing \cup Attaching]
    BY <1>2 DEF Attaching
  <2>2. head' \in [Segment -> HeaderType]
    BY <1>2
  <2>3. QED BY <2>1, <2>2, <1>1, <1>9 DEF ShmTypes
<1>11. Exclusive'
  BY <1>1, <1>7, <1>8, <1>9 DEF Exclusive
<1>12. Blank'
  <2>1. Exists(g) /\ \A x \in Segment : Exists(x)' <=> Exists(x)
    BY <1>5, <1>9 DEF Exists
  <2>2. QED BY <2>1, <1>1, <1>7, <1>9 DEF Blank
<1>13. Attachments'
  <2>1. ASSUME NEW q \in Process, q # p PROVE Attached(q)'
    <3>1. step'[q] = "idle" /\ step[q] = "idle" /\ Attached(q)
      BY <2>1, <1>1, <1>8 DEF Attachments
    <3>2. ASSUME at[q] # 0, at[q] \notin torn PROVE at[q] \in Segment /\ at[q] # g /\ head[at[q]].start # 0
      <4>1. head[at[q]].start # 0
        BY <3>1, <3>2 DEF Attached, Opening, Initialized
      <4>2. at[q] \in 0..MaxSegments
        BY <1>2
      <4>3. QED BY <4>1, <4>2, <3>2, <1>6, Places0
    <3>3. QED BY <3>1, <3>2, <1>7, <1>9 DEF Attached, Writing, Opening, Initialized
  <2>2. Attached(p)'
    <3>1. at'[p] = g /\ g # 0
      BY <1>5, <1>9, NotZero
    <3>2. CASE c = "idle"
      BY <3>1, <3>2, <1>6, <1>7, <1>9 DEF Attached, Writing, Opening, Initialized, Opened
    <3>3. CASE c = "header"
      BY <3>1, <3>3, <1>6, <1>7, <1>9 DEF Attached, Writing, Opening, Initialized
    <3>4. QED BY <3>2, <3>3
  <2>3. QED BY <2>1, <2>2 DEF Attachments
<1>14. Headers'
  <2> SUFFICES ASSUME NEW x \in Segment PROVE Header(x)'
    BY DEF Headers
  <2>1. CASE x = g
    <3>1. CASE c = "idle"
      BY <2>1, <3>1, <1>7, <1>9 DEF Header, Initialized, Opened
    <3>2. CASE c = "header"
      <4>1. at'[p] = g /\ step'[p] = "header"
        BY <3>2, <1>5, <1>7, <1>9
      <4>2. head'[g].start = 0 /\ head'[g].end = 0 /\ head'[g].magic
        BY <3>2, <1>7
      <4>3. QED BY <4>1, <4>2, <2>1 DEF Header, Initialized
    <3>3. QED BY <3>1, <3>2
  <2>2. CASE x # g
    <3>1. Header(x) /\ head'[x] = head[x]
      BY <2>2, <1>1, <1>7 DEF Headers
    <3>2. ~\E q \in Process : at[q] = x /\ step[q] = "header"
      BY <2>2, <1>5, <1>8
    <3>3. QED BY <3>1, <3>2, <1>9 DEF Header, Initialized
  <2>3. QED BY <2>1, <2>2
<1>15. AllQuiet'
  <2> SUFFICES ASSUME NEW x \in Segment, x \notin torn, head'[x].start # 0
               PROVE  Quiet(mem[x], head'[x])
    BY <1>9 DEF AllQuiet, Initialized
  <2>1. CASE x = g
    <3>1. c = "idle"
      BY <2>1, <1>7
    <3>2. QED BY <3>1, <2>1, <1>5, <1>7
  <2>2. CASE x # g
    <3>1. \A q \in Process : step[q] \notin Writing
      BY <1>7, <1>8 DEF Writing
    <3>2. ~Written(x)
      BY <3>1 DEF Written
    <3>3. QED BY <3>2, <2>2, <1>1, <1>7 DEF AllQuiet, Initialized
  <2>3. QED BY <2>1, <2>2
<1>16. AllWorking'
  <2>1. \A q \in Process : step'[q] \notin Writing
    BY <1>7, <1>8 DEF Writing
  <2>2. QED BY <2>1 DEF AllWorking
<1>17. QED BY <1>10, <1>11, <1>12, <1>13, <1>14, <1>15, <1>16 DEF ShmInv

-----------------------------------------------------------------------------
(* The steps of the operations. *)
LEMMA LockSteps ==
  ASSUME ShmAssumption, ShmInv, NEW p \in Process, Lock(p) \/ Unlock(p)
  PROVE  ShmInv'
<1>1. /\ ShmTypes /\ Exclusive /\ Blank /\ Attachments /\ Headers /\ AllQuiet /\ AllWorking
  BY DEF ShmInv
<1>2. /\ segment' = segment /\ head' = head /\ mem' = mem /\ at' = at /\ step' = step
      /\ op' = op /\ torn' = torn /\ holder' \in {p, NoProcess} /\ step[p] = "idle"
      /\ holder \in {p, NoProcess}
  BY DEF Lock, Unlock
<1>3. NoProcess \notin Process
  BY DEF ShmAssumption
<1>4. ShmTypes'
  BY <1>1, <1>2 DEF ShmTypes
<1>5. Exclusive'
  BY <1>1, <1>2, <1>3 DEF Exclusive
<1>6. Blank'
  BY <1>1, <1>2 DEF Blank, Exists
<1>7. Attachments' /\ Headers'
  BY <1>1, <1>2 DEF Attachments, Attached, Headers, Header, Initialized
<1>8. AllQuiet' /\ AllWorking'
  BY <1>1, <1>2 DEF AllQuiet, AllWorking, Initialized, Written
<1>9. QED BY <1>4, <1>5, <1>6, <1>7, <1>8 DEF ShmInv

LEMMA UnitOfNothing ==
  ShmAssumption => /\ NoOp \in OpType /\ 0 \in 0..MaxSegments
                   /\ NoValue \notin Value /\ NoKey \notin Key /\ shm_size \in Nat /\ shm_size >= 1
<1> SUFFICES ASSUME ShmAssumption
             PROVE  /\ NoOp \in OpType /\ 0 \in 0..MaxSegments
                    /\ NoValue \notin Value /\ NoKey \notin Key /\ shm_size \in Nat /\ shm_size >= 1
  OBVIOUS
<1>1. shm_size \in Nat \ {0} /\ MaxSegments \in Nat
  BY DEF ShmAssumption
<1>2. NoOp \in OpType
  BY <1>1 DEF NoOp, OpType
<1>3. QED BY <1>1, <1>2 DEF ShmAssumption

(* shmat() finds the segment, or it is gone. *)
LEMMA ShmAtStep ==
  ASSUME ShmAssumption, ShmInv, NEW p \in Process, ShmAt(p)
  PROVE  ShmInv'
<1>1. /\ ShmTypes /\ Exclusive /\ Blank /\ Attachments
  BY DEF ShmInv
<1>2. step[p] = "attach" /\ holder = p /\ \A q \in Process : q # p => step[q] = "idle"
  BY <1>1 DEF ShmAt, Exclusive
<1>3. at[p] = 0 /\ op[p].pos \in Segment
  BY <1>1, <1>2 DEF Attachments, Attached
<1>4. at \in [Process -> 0..MaxSegments] /\ segment \in 0..MaxSegments
      /\ step \in [Process -> {"idle"} \cup Writing \cup Attaching]
  BY <1>1 DEF ShmTypes
<1>5. /\ head' = head /\ mem' = mem /\ holder' = holder /\ torn' = torn /\ segment' = segment
      /\ op' = [op EXCEPT ![p] = NoOp]
  BY DEF ShmAt
<1>6. PICK g \in 0..MaxSegments, c \in {"idle", "check"} :
        /\ at' = [at EXCEPT ![p] = g] /\ step' = [step EXCEPT ![p] = c]
        /\ c = "check" => g # 0
        /\ c = "idle" => g = 0
  <2>1. CASE Exists(op[p].pos)
    <3>1. at' = [at EXCEPT ![p] = op[p].pos] /\ step' = [step EXCEPT ![p] = "check"]
      BY <2>1 DEF ShmAt, Continue
    <3>2. op[p].pos \in 0..MaxSegments /\ op[p].pos # 0
      BY <1>3, NotZero
    <3>3. QED BY <3>1, <3>2
  <2>2. CASE ~Exists(op[p].pos)
    <3>1. at' = at /\ step' = [step EXCEPT ![p] = "idle"]
      BY <2>2 DEF ShmAt, Continue
    <3>2. at = [at EXCEPT ![p] = 0]
      BY <1>3, <1>4
    <3>3. QED BY <3>1, <3>2, UnitOfNothing
  <2>3. QED BY <2>1, <2>2
<1>7. at'[p] = g /\ step'[p] = c /\ \A q \in Process : q # p => at'[q] = at[q]
  BY <1>4, <1>6
<1>8. \A x \in Segment : Exists(x) => (Exists(x))'
  <2> SUFFICES ASSUME NEW x \in Segment, Exists(x) PROVE (Exists(x))'
    OBVIOUS
  <2>1. CASE x = segment
    BY <2>1, <1>5 DEF Exists
  <2>2. ASSUME NEW q \in Process, at[q] = x PROVE (Exists(x))'
    <3>1. q # p
      BY <2>2, <1>3, NotZero
    <3>2. QED BY <3>1, <2>2, <1>7 DEF Exists
  <2>3. QED BY <2>1, <2>2 DEF Exists
<1>9. Attached(p)'
  BY <1>6, <1>7 DEF Attached, Writing, Opening
<1>10. NoOp \in OpType
  BY UnitOfNothing
<1>11. c \in {"idle"} \cup Writing \cup Attaching /\ c \notin Writing
       /\ step[p] \notin Writing \cup {"header"}
  BY <1>2 DEF Attaching, Writing
<1>12. QED BY <1>2, <1>4, <1>5, <1>6, <1>8, <1>9, <1>10, <1>11, HolderStep

LEMMA ShmGetStep ==
  ASSUME ShmAssumption, AttachLocked, ShmInv, NEW p \in Process, ShmGet(p)
  PROVE  ShmInv'
<1>1. /\ ShmTypes /\ Exclusive /\ Blank /\ Attachments
  BY DEF ShmInv
<1>2. step[p] = "idle" /\ at[p] = 0 /\ holder = p
  BY DEF ShmGet
<1>3. \A q \in Process : q # p => step[q] = "idle"
  BY <1>1, <1>2 DEF Exclusive
<1>4. PICK g \in Segment : /\ IF segment = 0 THEN ~Exists(g) ELSE g = segment
                           /\ segment' = g /\ op' = [op EXCEPT ![p].pos = g]
  BY DEF ShmGet
<1>5. /\ at \in [Process -> 0..MaxSegments] /\ op \in [Process -> OpType] /\ g # 0
      /\ step \in [Process -> {"idle"} \cup Writing \cup Attaching]
  BY <1>1, NotZero DEF ShmTypes
<1>6. /\ head' = head /\ mem' = mem /\ holder' = holder /\ torn' = torn /\ at' = at
      /\ step' = [step EXCEPT ![p] = "attach"]
  BY DEF ShmGet, Continue
<1>7. PICK o2 \in OpType : op' = [op EXCEPT ![p] = o2] /\ o2.pos = g
  <2>1. [op[p] EXCEPT !.pos = g] \in OpType /\ [op[p] EXCEPT !.pos = g].pos = g
    BY <1>5 DEF OpType
  <2>2. op' = [op EXCEPT ![p] = [op[p] EXCEPT !.pos = g]]
    <3>1. op' = [op EXCEPT ![p].pos = g]
      BY <1>4
    <3>2. QED BY ONLY <3>1
  <2>3. QED BY <2>1, <2>2
<1>8. step'[p] = "attach" /\ at'[p] = 0 /\ op'[p] = o2 /\ \A q \in Process : step'[q] = step[q] \/ q = p
  BY <1>2, <1>5, <1>6, <1>7
<1>9. \A x \in Segment : Exists(x) => (Exists(x))'
  <2> SUFFICES ASSUME NEW x \in Segment, Exists(x) PROVE (Exists(x))'
    OBVIOUS
  <2>1. x = segment => x = segment'
    BY <1>4, NotZero
  <2>2. QED BY <2>1, <1>6 DEF Exists
<1>10. Attached(p)'
  BY <1>7, <1>8 DEF Attached, Writing, Opening
<1>11. /\ "attach" \in {"idle"} \cup Writing \cup Attaching /\ "attach" \notin Writing
       /\ step[p] \notin Writing \cup {"header"}
  BY <1>2 DEF Attaching, Writing
<1>12. at' = [at EXCEPT ![p] = 0] /\ 0 \in 0..MaxSegments /\ segment' \in 0..MaxSegments
  <2>1. at = [at EXCEPT ![p] = 0]
    BY <1>2, <1>5
  <2>2. segment' \in 0..MaxSegments
    BY <1>4, NotZero
  <2>3. QED BY <2>1, <2>2, <1>6, UnitOfNothing
<1>13. QED BY <1>2, <1>3, <1>6, <1>7, <1>9, <1>10, <1>11, <1>12, HolderStep

LEMMA CheckMagicStep ==
  ASSUME ShmAssumption, ShmInv, NEW p \in Process, CheckMagic(p)
  PROVE  ShmInv'
<1>1. /\ ShmTypes /\ Exclusive /\ Blank /\ Attachments /\ Headers
  BY DEF ShmInv
<1>2. step[p] = "check" /\ holder = p /\ \A q \in Process : q # p => step[q] = "idle"
  BY <1>1 DEF CheckMagic, Exclusive
<1>3. /\ at \in [Process -> 0..MaxSegments] /\ op \in [Process -> OpType]
      /\ step \in [Process -> {"idle"} \cup Writing \cup Attaching]
      /\ segment \in 0..MaxSegments
  BY <1>1 DEF ShmTypes
<1>4. at[p] # 0 /\ at[p] \in Segment
  <2>1. at[p] # 0
    BY <1>1, <1>2 DEF Attachments, Attached, Opening
  <2>2. QED BY <2>1, <1>3, Places0
<1>5. /\ head' = head /\ mem' = mem /\ holder' = holder /\ torn' = torn /\ at' = at /\ op' = op
      /\ segment' = segment
      /\ step' = [step EXCEPT ![p] = IF head[at[p]].magic THEN "idle" ELSE "magic"]
  BY DEF CheckMagic, Continue
<1>6. PICK c \in {"idle", "magic"} : /\ step' = [step EXCEPT ![p] = c]
                                     /\ c = "idle" <=> head[at[p]].magic
  <2>1. CASE head[at[p]].magic
    BY <2>1, <1>5
  <2>2. CASE ~head[at[p]].magic
    BY <2>2, <1>5
  <2>3. QED BY <2>1, <2>2
<1>7. step'[p] = c
  BY <1>3, <1>6
<1>8. Attached(p)'
  <2>1. CASE c = "idle"
    <3>1. at[p] \notin torn => head[at[p]].start # 0
      <4>1. Header(at[p]) /\ head[at[p]].magic
        BY <2>1, <1>1, <1>4, <1>6 DEF Headers
      <4>2. \A q \in Process : step[q] # "header"
        BY <1>2
      <4>3. QED BY <4>1, <4>2 DEF Header, Initialized
    <3>2. QED BY <2>1, <3>1, <1>5, <1>7 DEF Attached, Writing, Opening, Initialized
  <2>2. CASE c = "magic"
    <3>1. ~head[at[p]].magic /\ at[p] \notin torn
      BY <2>2, <1>1, <1>4, <1>6 DEF Headers, Header
    <3>2. QED BY <2>2, <3>1, <1>4, <1>5, <1>7 DEF Attached, Writing, Opening, Initialized
  <2>3. QED BY <2>1, <2>2
<1>9. c \in {"idle"} \cup Writing \cup Attaching /\ c \notin Writing
      /\ step[p] \notin Writing \cup {"header"}
  BY <1>2 DEF Attaching, Writing
<1>10. at' = [at EXCEPT ![p] = at[p]] /\ op' = [op EXCEPT ![p] = op[p]]
       /\ at[p] \in 0..MaxSegments /\ op[p] \in OpType /\ segment' \in 0..MaxSegments
  BY <1>3, <1>5
<1>11. \A x \in Segment : Exists(x) => (Exists(x))'
  BY <1>5 DEF Exists
<1>12. PICK g \in 0..MaxSegments, o2 \in OpType :
         at' = [at EXCEPT ![p] = g] /\ op' = [op EXCEPT ![p] = o2]
  BY <1>10
<1>13. QED BY <1>2, <1>5, <1>6, <1>8, <1>9, <1>10, <1>11, <1>12, HolderStep

LEMMA WriteMagicStep ==
  ASSUME ShmAssumption, ShmInv, NEW p \in Process, WriteMagic(p)
  PROVE  ShmInv'
<1>1. /\ ShmTypes /\ Attachments /\ Headers
  BY DEF ShmInv
<1>2. step[p] = "magic"
  BY DEF WriteMagic
<1>3. Attached(p)
  BY <1>1 DEF Attachments
<1>4. at[p] \in Segment /\ at[p] \notin torn /\ ~head[at[p]].magic
  <2>1. at[p] # 0 /\ at[p] \in 0..MaxSegments
    BY <1>1, <1>2, <1>3 DEF Attached, Opening, ShmTypes
  <2>2. QED BY <2>1, <1>2, <1>3, Places0 DEF Attached
<1>5. head[at[p]] \in HeaderType
  BY <1>1, <1>4 DEF ShmTypes
<1>6. head[at[p]].start = 0 /\ head[at[p]].end = 0
  BY <1>1, <1>4 DEF Headers, Header, Initialized, Opened
<1>7. PICK h2 \in HeaderType : h2 = [head[at[p]] EXCEPT !.magic = TRUE]
  BY <1>5 DEF HeaderType
<1>8. h2.magic /\ h2.start = 0 /\ h2.end = 0
  BY <1>5, <1>6, <1>7 DEF HeaderType
<1>9. head' = [head EXCEPT ![at[p]] = h2]
  BY <1>7 DEF WriteMagic
<1>10. step' = [step EXCEPT ![p] = "header"] /\ UNCHANGED <<segment, mem, at, holder, op, torn>>
  BY DEF WriteMagic, Continue
<1>11. "header" \in {"idle", "header"} /\ "header" # "idle"
  OBVIOUS
<1>12. QED BY <1>2, <1>8, <1>9, <1>10, <1>11, HeaderStep

LEMMA NothingTiled ==
  ASSUME ShmAssumption, NEW m \in Memory PROVE Tiled(m, 1)
<1>1. shm_size \in Nat /\ shm_size >= 1
  BY UnitOfNothing
<1>2. Heads(m, 1) = {} /\ 1..(1 - 1) = {}
  BY <1>1 DEF Heads, Unit
<1>3. QED BY <1>1, <1>2 DEF Tiled

LEMMA WriteHeaderStep ==
  ASSUME ShmAssumption, ShmInv, NEW p \in Process, WriteHeader(p)
  PROVE  ShmInv'
<1>1. /\ ShmTypes /\ Attachments
  BY DEF ShmInv
<1>2. step[p] = "header"
  BY DEF WriteHeader
<1>3. Attached(p)
  BY <1>1 DEF Attachments
<1>4. at[p] \in Segment
  <2>1. at[p] # 0 /\ at[p] \in 0..MaxSegments
    BY <1>1, <1>2, <1>3 DEF Attached, Opening, ShmTypes
  <2>2. QED BY <2>1, Places0
<1>5. shm_size \in Nat /\ shm_size >= 1 /\ Start = 1
  BY UnitOfNothing DEF Start
<1>6. PICK h2 : h2 = [magic |-> TRUE, start |-> Start, end |-> Start, total |-> shm_size,
                      free |-> shm_size - Start]
  OBVIOUS
<1>7. Opened(h2) /\ EndAndFree(h2, 0) /\ h2.end = 1
  BY <1>5, <1>6 DEF Opened, HeaderType, EndAndFree
<1>8. Quiet(mem[at[p]], h2)
  <2>1. mem[at[p]] \in Memory
    BY <1>1, <1>4 DEF ShmTypes
  <2>2. QED BY <2>1, <1>7, NothingTiled DEF Quiet
<1>9. head' = [head EXCEPT ![at[p]] = h2]
  BY <1>6 DEF WriteHeader
<1>10. step' = [step EXCEPT ![p] = "idle"] /\ UNCHANGED <<segment, mem, at, holder, op, torn>>
  BY DEF WriteHeader, Continue
<1>11. "idle" \in {"idle", "header"} /\ "header" # "idle" /\ h2 \in HeaderType /\ h2.magic
  BY <1>7 DEF Opened
<1>12. QED BY <1>2, <1>7, <1>8, <1>9, <1>10, <1>11, HeaderStep

(* What php_check_shm_data() finds for the one who uses a segment. *)
LEMMA PosOfChunk ==
  ASSUME ShmAssumption, ShmInv, NEW p \in Process, Uses(p), NEW k
  PROVE  PosOf(at[p], k) = {u \in Heads(mem[at[p]], head[at[p]].end) : mem[at[p]][u].key = k}
<1>1. Opened(head[at[p]]) /\ Quiet(mem[at[p]], head[at[p]])
  BY UserFacts
<1>2. head[at[p]].start = 1 /\ Tiled(mem[at[p]], head[at[p]].end)
  BY <1>1 DEF Opened, Quiet
<1>3. PosOf(at[p], k) = Found(mem[at[p]], 1, head[at[p]].end, k)
  BY <1>2 DEF PosOf
<1>4. QED BY <1>2, <1>3, FoundInChunks

LEMMA ShmChangeStep ==
  ASSUME ShmAssumption, ShmInv, NEW p \in Process, NEW k \in Key, NEW v \in Value \cup {NoValue},
         ShmChange(p, k, v)
  PROVE  ShmInv'
<1>1. Uses(p) /\ ShmTypes
  BY DEF ShmChange, ShmInv
<1>2. PICK g \in Segment : g = at[p]
  BY <1>1, UserFacts
<1>3. /\ g \notin torn /\ Quiet(mem[g], head[g]) /\ head[g].start # 0
      /\ \A q \in Process : step[q] = "idle"
  BY <1>1, <1>2, UserFacts DEF Initialized
<1>4. Tiled(mem[g], head[g].end) /\ EndAndFree(head[g], 0)
  BY <1>3 DEF Quiet
<1>5. /\ at \in [Process -> 0..MaxSegments] /\ op \in [Process -> OpType] /\ segment \in 0..MaxSegments
      /\ step \in [Process -> {"idle"} \cup Writing \cup Attaching]
  BY <1>1 DEF ShmTypes
<1>6. /\ head' = head /\ mem' = mem /\ holder' = holder /\ torn' = torn /\ at' = at /\ segment' = segment
  BY DEF ShmChange
<1>7. PICK o2 \in OpType, c \in {"free+", "room"} :
        /\ op' = [op EXCEPT ![p] = o2] /\ step' = [step EXCEPT ![p] = c]
        /\ Working(c, o2, mem[g], head[g])
  <2>1. ASSUME NEW u \in PosOf(at[p], k), op' = [op EXCEPT ![p] = [key |-> k, val |-> v, pos |-> u]],
               step' = [step EXCEPT ![p] = "free+"]
        PROVE  \E o2 \in OpType, c \in {"free+", "room"} :
                 /\ op' = [op EXCEPT ![p] = o2] /\ step' = [step EXCEPT ![p] = c]
                 /\ Working(c, o2, mem[g], head[g])
    <3>1. PICK o2 : o2 = [key |-> k, val |-> v, pos |-> u]
      OBVIOUS
    <3>2. u \in Heads(mem[g], head[g].end) /\ mem[g][u].key = k
      BY <2>1, <1>1, <1>2, PosOfChunk
    <3>3. u \in Nat /\ u < head[g].end /\ head[g].end \in Nat /\ head[g].end <= shm_size
      BY <3>2, <1>4, SizeFacts
    <3>4. u \in 0..shm_size
      BY <3>3, UnitOfNothing
    <3>5. o2 \in OpType
      BY <3>1, <3>4 DEF OpType
    <3>6. Removing(o2, mem[g], head[g].end)
      BY <3>1, <3>2, <1>4 DEF Removing
    <3>7. Working("free+", o2, mem[g], head[g])
      BY <3>6, <1>4 DEF Working
    <3>8. QED BY <3>1, <3>5, <3>7, <2>1
  <2>2. ASSUME PosOf(at[p], k) = {}, v # NoValue,
               op' = [op EXCEPT ![p] = [key |-> k, val |-> v, pos |-> 0]],
               step' = [step EXCEPT ![p] = "room"]
        PROVE  \E o2 \in OpType, c \in {"free+", "room"} :
                 /\ op' = [op EXCEPT ![p] = o2] /\ step' = [step EXCEPT ![p] = c]
                 /\ Working(c, o2, mem[g], head[g])
    <3>1. PICK o2 : o2 = [key |-> k, val |-> v, pos |-> 0]
      OBVIOUS
    <3>2. \A u \in Heads(mem[g], head[g].end) : mem[g][u].key # k
      BY <2>2, <1>1, <1>2, PosOfChunk
    <3>3. o2 \in OpType
      BY <3>1, UnitOfNothing DEF OpType
    <3>4. Adding(o2, mem[g], head[g])
      BY <3>1, <3>2, <2>2, <1>3 DEF Adding
    <3>5. Working("room", o2, mem[g], head[g])
      BY <3>4 DEF Working
    <3>6. QED BY <3>1, <3>3, <3>5, <2>2
  <2>3. QED BY <2>1, <2>2 DEF ShmChange, Continue
<1>8. step'[p] = c /\ at'[p] = g /\ g # 0
  BY <1>2, <1>5, <1>6, <1>7, NotZero
<1>9. Attached(p)'
  BY <1>3, <1>6, <1>8 DEF Attached, Writing, Opening, Initialized
<1>10. /\ c \in {"idle"} \cup Writing \cup Attaching
       /\ step[p] \notin Writing \cup {"header"} /\ holder = p
  BY <1>1 DEF Attaching, Writing, Uses
<1>11. at' = [at EXCEPT ![p] = g] /\ g \in 0..MaxSegments /\ segment' \in 0..MaxSegments
  BY <1>2, <1>5, <1>6, NotZero
<1>12. \A x \in Segment : Exists(x) => (Exists(x))'
  BY <1>6 DEF Exists
<1>13. QED BY <1>3, <1>6, <1>7, <1>9, <1>10, <1>11, <1>12, HolderStep

LEMMA FreeGrowsStep ==
  ASSUME ShmAssumption, ShmInv, NEW p \in Process, FreeGrows(p)
  PROVE  ShmInv'
<1>1. step[p] = "free+" /\ step[p] \in Writing /\ "end-" \in Writing \cup {"idle"}
  BY DEF FreeGrows, Writing
<1>2. PICK h, m, o : h = head[at[p]] /\ m = mem[at[p]] /\ o = op[p]
  OBVIOUS
<1>3. Opened(h) /\ Working("free+", o, m, h) /\ o \in OpType /\ m \in Memory /\ at[p] \in Segment
  BY <1>1, <1>2, WriterFacts
<1>4. PICK h2 : h2 = [h EXCEPT !.free = @ + Size(m, o.pos)]
  OBVIOUS
<1>5. Opened(h2) /\ Working("end-", o, m, h2)
  BY <1>3, <1>4, FreeGrowsWorks
<1>6. head' = [head EXCEPT ![at[p]] = h2]
  BY <1>2, <1>4 DEF FreeGrows, Next1, Size
<1>7. mem' = [mem EXCEPT ![at[p]] = m] /\ op' = [op EXCEPT ![p] = o]
  BY <1>2, <1>3 DEF FreeGrows, ShmInv, ShmTypes
<1>8. step' = [step EXCEPT ![p] = "end-"] /\ UNCHANGED <<segment, at, holder, torn>>
  BY DEF FreeGrows, Continue
<1>9. QED BY <1>1, <1>3, <1>5, <1>6, <1>7, <1>8, WriteStep

LEMMA EndShrinksStep ==
  ASSUME ShmAssumption, ShmInv, NEW p \in Process, EndShrinks(p)
  PROVE  ShmInv'
<1>1. step[p] = "end-" /\ step[p] \in Writing /\ "move" \in Writing \cup {"idle"}
  BY DEF EndShrinks, Writing
<1>2. PICK h, m, o : h = head[at[p]] /\ m = mem[at[p]] /\ o = op[p]
  OBVIOUS
<1>3. Opened(h) /\ Working("end-", o, m, h) /\ o \in OpType /\ m \in Memory /\ at[p] \in Segment
  BY <1>1, <1>2, WriterFacts
<1>4. PICK h2 : h2 = Shrunk(h, Size(m, o.pos))
  OBVIOUS
<1>5. Opened(h2) /\ Working("move", o, m, h2)
  BY <1>3, <1>4, EndShrinksWorks
<1>6. head' = [head EXCEPT ![at[p]] = h2]
  BY <1>2, <1>4 DEF EndShrinks, Next1, Size, Shrunk
<1>7. mem' = [mem EXCEPT ![at[p]] = m] /\ op' = [op EXCEPT ![p] = o]
  BY <1>2, <1>3 DEF EndShrinks, ShmInv, ShmTypes
<1>8. step' = [step EXCEPT ![p] = "move"] /\ UNCHANGED <<segment, at, holder, torn>>
  BY DEF EndShrinks, Continue
<1>9. QED BY <1>1, <1>3, <1>5, <1>6, <1>7, <1>8, WriteStep

LEMMA MoveStep ==
  ASSUME ShmAssumption, ShmInv, NEW p \in Process, Move(p)
  PROVE  ShmInv'
<1>1. step[p] = "move" /\ step[p] \in Writing /\ {"idle", "room"} \subseteq Writing \cup {"idle"}
  BY DEF Move, Writing
<1>2. PICK h, m, o : h = head[at[p]] /\ m = mem[at[p]] /\ o = op[p]
  OBVIOUS
<1>3. Opened(h) /\ Working("move", o, m, h) /\ o \in OpType /\ m \in Memory /\ at[p] \in Segment
  BY <1>1, <1>2, WriterFacts
<1>4. PICK w : w = Moved(m, o.pos, Size(m, o.pos), h.end)
  OBVIOUS
<1>5. /\ w \in Memory
      /\ o.val = NoValue => Working("idle", o, w, h)
      /\ o.val # NoValue => Working("room", [o EXCEPT !.pos = 0], w, h)
  BY <1>3, <1>4, MoveWorks
<1>6. mem' = [mem EXCEPT ![at[p]] = w]
  BY <1>2, <1>4 DEF Move, Next1, Size
<1>7. head' = [head EXCEPT ![at[p]] = h]
  BY <1>2, <1>3 DEF Move, ShmInv, ShmTypes
<1>8. UNCHANGED <<segment, at, holder, torn>>
  BY DEF Move
<1>9. CASE o.val = NoValue
  <2>1. step' = [step EXCEPT ![p] = "idle"] /\ op' = [op EXCEPT ![p] = NoOp]
    BY <1>2, <1>9 DEF Move, Continue
  <2>2. Working("idle", NoOp, w, h) /\ NoOp \in OpType
    BY <1>5, <1>9, UnitOfNothing DEF Working
  <2>3. QED BY <2>1, <2>2, <1>1, <1>3, <1>5, <1>6, <1>7, <1>8, WriteStep
<1>10. CASE o.val # NoValue
  <2>1. PICK o2 : o2 = [o EXCEPT !.pos = 0]
    OBVIOUS
  <2>2. step' = [step EXCEPT ![p] = "room"] /\ op' = [op EXCEPT ![p] = o2]
    BY <2>1, <1>2, <1>10 DEF Move, Continue
  <2>3. Working("room", o2, w, h) /\ o2 \in OpType
    BY <2>1, <1>3, <1>5, <1>10, UnitOfNothing DEF OpType
  <2>4. QED BY <2>2, <2>3, <1>1, <1>3, <1>5, <1>6, <1>7, <1>8, WriteStep
<1>11. QED BY <1>9, <1>10

LEMMA RoomStep ==
  ASSUME ShmAssumption, ShmInv, NEW p \in Process, Room(p)
  PROVE  ShmInv'
<1>1. step[p] = "room" /\ step[p] \in Writing /\ {"idle", "write"} \subseteq Writing \cup {"idle"}
  BY DEF Room, Writing
<1>2. PICK h, m, o : h = head[at[p]] /\ m = mem[at[p]] /\ o = op[p]
  OBVIOUS
<1>3. Opened(h) /\ Working("room", o, m, h) /\ o \in OpType /\ m \in Memory /\ at[p] \in Segment
  BY <1>1, <1>2, WriterFacts
<1>4. /\ h.free >= units[o.val] => Working("write", o, m, h)
      /\ Working("idle", NoOp, m, h) /\ NoOp \in OpType
  BY <1>3, RoomWorks, UnitOfNothing
<1>5. mem' = [mem EXCEPT ![at[p]] = m] /\ head' = [head EXCEPT ![at[p]] = h]
  BY <1>2, <1>3 DEF Room, ShmInv, ShmTypes
<1>6. UNCHANGED <<segment, at, holder, torn>>
  BY DEF Room
<1>7. CASE HasRoom(at[p], op[p].val)
  <2>1. step' = [step EXCEPT ![p] = "write"] /\ op' = op
    BY <1>7 DEF Room, Continue
  <2>2. op' = [op EXCEPT ![p] = o]
    BY <2>1, <1>2 DEF ShmInv, ShmTypes
  <2>3. Working("write", o, m, h)
    BY <1>2, <1>4, <1>7 DEF HasRoom
  <2>4. QED BY <2>1, <2>2, <2>3, <1>1, <1>3, <1>5, <1>6, WriteStep
<1>8. CASE ~HasRoom(at[p], op[p].val)
  <2>1. step' = [step EXCEPT ![p] = "idle"] /\ op' = [op EXCEPT ![p] = NoOp]
    BY <1>8 DEF Room, Continue
  <2>2. QED BY <2>1, <1>1, <1>3, <1>4, <1>5, <1>6, WriteStep
<1>9. QED BY <1>7, <1>8

LEMMA WriteChunkStep ==
  ASSUME ShmAssumption, ShmInv, NEW p \in Process, WriteChunk(p)
  PROVE  ShmInv'
<1>1. step[p] = "write" /\ step[p] \in Writing /\ "end+" \in Writing \cup {"idle"}
  BY DEF WriteChunk, Writing
<1>2. PICK h, m, o : h = head[at[p]] /\ m = mem[at[p]] /\ o = op[p]
  OBVIOUS
<1>3. Opened(h) /\ Working("write", o, m, h) /\ o \in OpType /\ m \in Memory /\ at[p] \in Segment
  BY <1>1, <1>2, WriterFacts
<1>4. PICK w : w = [u \in Unit |->
                      IF u >= h.end /\ u < h.end + units[o.val]
                      THEN [key |-> o.key, val |-> o.val, part |-> u - h.end + 1] ELSE m[u]]
  OBVIOUS
<1>5. w \in Memory /\ Working("end+", o, w, h)
  BY <1>3, <1>4, WriteWorks
<1>6. mem' = [mem EXCEPT ![at[p]] = w]
  BY <1>2, <1>4 DEF WriteChunk
<1>7. head' = [head EXCEPT ![at[p]] = h] /\ op' = [op EXCEPT ![p] = o]
  BY <1>2, <1>3 DEF WriteChunk, ShmInv, ShmTypes
<1>8. step' = [step EXCEPT ![p] = "end+"] /\ UNCHANGED <<segment, at, holder, torn>>
  BY DEF WriteChunk, Continue
<1>9. QED BY <1>1, <1>3, <1>5, <1>6, <1>7, <1>8, WriteStep

LEMMA EndGrowsStep ==
  ASSUME ShmAssumption, ShmInv, NEW p \in Process, EndGrows(p)
  PROVE  ShmInv'
<1>1. step[p] = "end+" /\ step[p] \in Writing /\ "free-" \in Writing \cup {"idle"}
  BY DEF EndGrows, Writing
<1>2. PICK h, m, o : h = head[at[p]] /\ m = mem[at[p]] /\ o = op[p]
  OBVIOUS
<1>3. Opened(h) /\ Working("end+", o, m, h) /\ o \in OpType /\ m \in Memory /\ at[p] \in Segment
  BY <1>1, <1>2, WriterFacts
<1>4. PICK h2 : h2 = [h EXCEPT !.end = @ + units[o.val]]
  OBVIOUS
<1>5. Opened(h2) /\ Working("free-", o, m, h2)
  BY <1>3, <1>4, EndGrowsWorks
<1>6. head' = [head EXCEPT ![at[p]] = h2]
  BY <1>2, <1>4 DEF EndGrows
<1>7. mem' = [mem EXCEPT ![at[p]] = m] /\ op' = [op EXCEPT ![p] = o]
  BY <1>2, <1>3 DEF EndGrows, ShmInv, ShmTypes
<1>8. step' = [step EXCEPT ![p] = "free-"] /\ UNCHANGED <<segment, at, holder, torn>>
  BY DEF EndGrows, Continue
<1>9. QED BY <1>1, <1>3, <1>5, <1>6, <1>7, <1>8, WriteStep

LEMMA FreeShrinksStep ==
  ASSUME ShmAssumption, ShmInv, NEW p \in Process, FreeShrinks(p)
  PROVE  ShmInv'
<1>1. step[p] = "free-" /\ step[p] \in Writing /\ "idle" \in Writing \cup {"idle"}
  BY DEF FreeShrinks, Writing
<1>2. PICK h, m, o : h = head[at[p]] /\ m = mem[at[p]] /\ o = op[p]
  OBVIOUS
<1>3. Opened(h) /\ Working("free-", o, m, h) /\ o \in OpType /\ m \in Memory /\ at[p] \in Segment
  BY <1>1, <1>2, WriterFacts
<1>4. PICK h2 : h2 = [h EXCEPT !.free = @ - units[o.val]]
  OBVIOUS
<1>5. Opened(h2) /\ Working("idle", NoOp, m, h2) /\ NoOp \in OpType
  BY <1>3, <1>4, FreeShrinksWorks, UnitOfNothing
<1>6. head' = [head EXCEPT ![at[p]] = h2]
  BY <1>2, <1>4 DEF FreeShrinks
<1>7. mem' = [mem EXCEPT ![at[p]] = m] /\ op' = [op EXCEPT ![p] = NoOp]
  BY <1>2, <1>3 DEF FreeShrinks, ShmInv, ShmTypes
<1>8. step' = [step EXCEPT ![p] = "idle"] /\ UNCHANGED <<segment, at, holder, torn>>
  BY DEF FreeShrinks, Continue
<1>9. QED BY <1>1, <1>3, <1>5, <1>6, <1>7, <1>8, WriteStep

LEMMA FreeSteps ==
  ASSUME ShmAssumption, ShmInv, NEW p \in Process,
         ShmDetach(p) \/ ShmRemove(p) \/ Die(p)
  PROVE  ShmInv'
<1>1. step \in [Process -> {"idle"} \cup Writing \cup Attaching] /\ at \in [Process -> 0..MaxSegments]
  BY DEF ShmInv, ShmTypes
<1>2. ASSUME step[p] = "idle" PROVE /\ step = [step EXCEPT ![p] = "idle"]
                                    /\ step[p] \notin HalfWritten
  BY <1>1, <1>2 DEF HalfWritten
<1>3. CASE ShmDetach(p)
  <2>1. /\ step[p] = "idle" /\ at' = [at EXCEPT ![p] = 0] /\ segment' = segment /\ step' = step
        /\ op' = op /\ holder' = holder /\ Free(torn)
    BY <1>3 DEF ShmDetach
  <2>2. step' = [step EXCEPT ![p] = "idle"] /\ step[p] \notin HalfWritten
    BY <2>1, <1>2
  <2>3. Free(IF step[p] \in HalfWritten THEN torn \cup {at[p]} ELSE torn)
    BY <2>1, <2>2
  <2>4. QED BY <2>1, <2>2, <2>3, FreeStep
<1>4. CASE ShmRemove(p)
  <2>1. /\ step[p] = "idle" /\ at' = at /\ segment' = 0 /\ step' = step
        /\ op' = op /\ holder' = holder /\ Free(torn)
    BY <1>4 DEF ShmRemove
  <2>2. step' = [step EXCEPT ![p] = "idle"] /\ step[p] \notin HalfWritten
    BY <2>1, <1>2
  <2>3. Free(IF step[p] \in HalfWritten THEN torn \cup {at[p]} ELSE torn)
    BY <2>1, <2>2
  <2>4. QED BY <2>1, <2>2, <2>3, FreeStep
<1>5. CASE Die(p)
  <2>1. /\ step' = [step EXCEPT ![p] = "idle"] /\ op' = [op EXCEPT ![p] = NoOp]
        /\ at' = [at EXCEPT ![p] = 0] /\ segment' = segment
        /\ holder' = IF holder = p THEN NoProcess ELSE holder
        /\ Free(IF step[p] \in HalfWritten THEN torn \cup {at[p]} ELSE torn)
    BY <1>5 DEF Die, Continue
  <2>2. holder' = holder \/ (holder = p /\ holder' = NoProcess)
    BY <2>1
  <2>3. at'[p] = 0
    BY <2>1, <1>1
  <2>4. QED BY <2>1, <2>2, <2>3, FreeStep
<1>6. QED BY <1>3, <1>4, <1>5

LEMMA ShmNextInv ==
  ASSUME ShmAssumption, AttachLocked, ShmInv, [ShmNext]_(shm_vars)
  PROVE  ShmInv'
<1>1. CASE UNCHANGED shm_vars
  <2>1. /\ segment' = segment /\ head' = head /\ mem' = mem /\ at' = at /\ step' = step
        /\ op' = op /\ torn' = torn /\ holder' = holder
    BY <1>1 DEF shm_vars
  <2>2. /\ ShmTypes /\ Exclusive /\ Blank /\ Attachments /\ Headers /\ AllQuiet /\ AllWorking
    BY DEF ShmInv
  <2>3. ShmTypes' /\ Exclusive' /\ Blank'
    BY <2>1, <2>2 DEF ShmTypes, Exclusive, Blank, Exists
  <2>4. Attachments' /\ Headers'
    BY <2>1, <2>2 DEF Attachments, Attached, Headers, Header, Initialized
  <2>5. AllQuiet' /\ AllWorking'
    BY <2>1, <2>2 DEF AllQuiet, AllWorking, Initialized, Written
  <2>6. QED BY <2>3, <2>4, <2>5 DEF ShmInv
<1>2. ASSUME NEW p \in Process, Script(p) PROVE ShmInv'
  <2>1. ASSUME NEW k \in Key, ShmRemoveVar(p, k) PROVE ShmInv'
    <3>1. ShmChange(p, k, NoValue)
      BY <2>1 DEF ShmRemoveVar
    <3>2. QED BY <3>1, ShmChangeStep
  <2>2. ASSUME NEW k \in Key, NEW v \in Value, ShmPutVar(p, k, v) PROVE ShmInv'
    <3>1. ShmChange(p, k, v)
      BY <2>2 DEF ShmPutVar
    <3>2. QED BY <3>1, ShmChangeStep
  <2>3. QED BY <1>2, <2>1, <2>2, LockSteps, FreeSteps DEF Script
<1>3. ASSUME NEW p \in Process, Attach(p) PROVE ShmInv'
  BY <1>3, ShmGetStep, ShmAtStep, CheckMagicStep, WriteMagicStep, WriteHeaderStep DEF Attach
<1>4. ASSUME NEW p \in Process, RemoveData(p) PROVE ShmInv'
  BY <1>4, FreeGrowsStep, EndShrinksStep, MoveStep DEF RemoveData
<1>5. ASSUME NEW p \in Process, PutData(p) PROVE ShmInv'
  BY <1>5, RoomStep, WriteChunkStep, EndGrowsStep, FreeShrinksStep DEF PutData
<1>6. ASSUME NEW p \in Process, Die(p) PROVE ShmInv'
  BY <1>6, FreeSteps
<1>7. QED BY <1>1, <1>2, <1>3, <1>4, <1>5, <1>6 DEF ShmNext

(* Whole chunks are what the run checks. *)
LEMMA QuietIsTiled ==
  ASSUME ShmAssumption, ShmInv PROVE SegmentIsTiled
<1> SUFFICES ASSUME NEW g \in Segment \ torn, Initialized(g) /\ ~Written(g)
             PROVE  LET s == Chunks(mem[g], Start, head[g].end)
                        last == s[Len(s)]
                    IN /\ head[g].end + head[g].free = head[g].total
                       /\ head[g].end = IF s = <<>> THEN Start ELSE last + units[mem[g][last].val]
                       /\ \A i \in 1..Len(s) : Intact(mem[g], s[i])
                       /\ \A i, j \in 1..Len(s) : mem[g][s[i]].key = mem[g][s[j]].key => i = j
  BY DEF SegmentIsTiled
<1> DEFINE m == mem[g]
           e == head[g].end
           s == Chunks(m, Start, e)
<1>1. Quiet(m, head[g]) /\ Opened(head[g])
  BY DEF ShmInv, AllQuiet, Headers, Header
<1>2. Tiled(m, e) /\ e + head[g].free = shm_size + 0 /\ head[g].total = shm_size /\ Start = 1
  BY <1>1 DEF Quiet, EndAndFree, Opened, Start
<1> HIDE DEF m, e
<1>3. Listing(m, e, 1, s)
  BY <1>2, ChunksListed
<1> HIDE DEF s
<1>4. e + head[g].free = head[g].total
  BY <1>2, UnitOfNothing
<1>5. e = IF s = <<>> THEN Start ELSE s[Len(s)] + units[m[s[Len(s)]].val]
  BY <1>2, <1>3 DEF Listing, Size
<1>6. \A i \in 1..Len(s) : Intact(m, s[i])
  BY <1>2, <1>3, ChunkIntact DEF Listing
<1>7. ASSUME NEW i \in 1..Len(s), NEW j \in 1..Len(s), m[s[i]].key = m[s[j]].key PROVE i = j
  <2>1. s[i] = s[j]
    BY <1>2, <1>3, <1>7 DEF Listing, Tiled
  <2>2. \A x, y \in 1..Len(s) : x < y => s[x] < s[y]
    BY <1>3 DEF Listing
  <2>3. s[i] \in Nat /\ Len(s) \in Nat
    <3>1. s[i] \in Heads(m, e) /\ s \in Seq(Unit)
      BY <1>3 DEF Listing
    <3>2. QED BY <3>1, <1>2, SizeFacts
  <2>4. QED BY <2>1, <2>2, <2>3
<1>8. QED BY <1>4, <1>5, <1>6, <1>7 DEF s, m, e

LEMMA ShmInvariance ==
  ASSUME ShmAssumption, AttachLocked PROVE ShmSpec => []ShmInv
<1>1. ShmInit => ShmInv
  BY ShmInitInv
<1>2. ShmInv /\ [ShmNext]_(shm_vars) => ShmInv'
  BY ShmNextInv
<1>3. QED BY <1>1, <1>2, PTL DEF ShmSpec

(* Types, of any number of processes, keys, values and segments. *)
THEOREM ShmTypesHold ==
  ASSUME AttachLocked PROVE ShmSpec => []ShmTypeOK
<1>1. ShmInv => ShmTypeOK
  BY TypesAre DEF ShmInv
<1>2. ShmSpec => []ShmInv
  BY ShmInvariance, ShmAssumption
<1>3. QED BY <1>1, <1>2, PTL

(* Unless somebody died between two writes, a segment that nobody writes is *)
(* whole chunks, one per variable, up to its end, and the rest is free.     *)
THEOREM SegmentsAreTiled ==
  ASSUME AttachLocked PROVE ShmSpec => []SegmentIsTiled
<1>1. ShmInv => SegmentIsTiled
  BY QuietIsTiled, ShmAssumption
<1>2. ShmSpec => []ShmInv
  BY ShmInvariance, ShmAssumption
<1>3. QED BY <1>1, <1>2, PTL

-----------------------------------------------------------------------------
(* The segment as a map.  Its contents are what is found in its memory, with *)
(* the chunks where they are about to be moved when somebody moves them.     *)
ValuesOf(m, h) == [k \in Key |-> ValueIn(m, h, k)]
AfterMove(m, o, h) == Moved(m, o.pos, Size(m, o.pos), h.end)

LEMMA ContentsStill ==
  \A g : (\A p \in Process : ~(at[p] = g /\ step[p] = "move"))
         => Contents(g) = ValuesOf(mem[g], head[g])
<1> SUFFICES ASSUME NEW g, \A p \in Process : ~(at[p] = g /\ step[p] = "move")
             PROVE  Contents(g) = ValuesOf(mem[g], head[g])
  OBVIOUS
<1>1. {p \in Process : at[p] = g /\ step[p] = "move"} = {}
  OBVIOUS
<1>2. QED BY <1>1 DEF Contents, ValuesOf

LEMMA ContentsMoving ==
  \A p \in Process : step[p] = "move" /\ Exclusive
    => Contents(at[p]) = ValuesOf(AfterMove(mem[at[p]], op[p], head[at[p]]), head[at[p]])
<1> SUFFICES ASSUME NEW p \in Process, step[p] = "move", Exclusive
             PROVE  Contents(at[p]) = ValuesOf(AfterMove(mem[at[p]], op[p], head[at[p]]), head[at[p]])
  OBVIOUS
<1> DEFINE movers == {q \in Process : at[q] = at[p] /\ step[q] = "move"}
<1>1. movers = {p}
  BY DEF Exclusive
<1>2. (CHOOSE q \in movers : TRUE) = p /\ movers # {}
  BY <1>1
<1> HIDE DEF movers
<1>3. Contents(at[p]) =
        LET m == IF movers = {} THEN mem[at[p]]
                 ELSE LET q == CHOOSE q \in movers : TRUE
                      IN Moved(mem[at[p]], op[q].pos, Next1(q), head[at[p]].end)
        IN [k \in Key |-> ValueIn(m, head[at[p]], k)]
  BY Zenon DEF Contents, movers
<1>4. QED BY <1>2, <1>3 DEF ValuesOf, AfterMove, Next1, Size

(* The values depend on where the chunks begin and end only. *)
LEMMA SameBounds ==
  ASSUME NEW m, NEW h, NEW h2, h2.start = h.start, h2.end = h.end
  PROVE  ValuesOf(m, h2) = ValuesOf(m, h)
  BY DEF ValuesOf, ValueIn

LEMMA NoValues ==
  ASSUME ShmAssumption, NEW m, NEW h,
         (h.start = 0 /\ h.end = 0) \/ (h.start = 1 /\ h.end = 1 /\ m \in Memory)
  PROVE  ValuesOf(m, h) = [k \in Key |-> NoValue]
<1>1. CASE h.start = 0 /\ h.end = 0
  <2>1. \A k : Found(m, h.start, h.end, k) = {}
    BY <1>1, FoundInNothing
  <2>2. \A k \in Key : ValueIn(m, h, k) = NoValue
    BY <2>1 DEF ValueIn
  <2>3. QED BY <2>2 DEF ValuesOf
<1>2. CASE h.start = 1 /\ h.end = 1 /\ m \in Memory
  <2>1. Tiled(m, h.end)
    BY <1>2, NothingTiled
  <2>2. Heads(m, h.end) = {}
    BY <2>1, <1>2, UnitOfNothing DEF Heads, Unit
  <2>3. \A k \in Key : Holds(m, h.end, k, NoValue)
    BY <2>2 DEF Holds
  <2>4. \A k \in Key : ValueIn(m, h, k) = NoValue
    BY <2>1, <2>3, <1>2, ValueInChunks
  <2>5. QED BY <2>4 DEF ValuesOf
<1>3. QED BY <1>1, <1>2

(* A chunk is gone from the map when the end shrinks. *)
Forgotten(m, h, w, h2, k) ==
  /\ k \in Key /\ ValueIn(w, h2, k) = NoValue
  /\ \A j \in Key : j # k => ValueIn(w, h2, j) = ValueIn(m, h, j)

LEMMA MovedForgets ==
  ASSUME ShmAssumption, NEW m, NEW h2, Opened(h2), NEW o \in OpType, Working("move", o, m, h2),
         NEW h, h.start = 1, h.end = h2.end + Size(m, o.pos), NEW w, w = AfterMove(m, o, h2)
  PROVE  Forgotten(m, h, w, h2, o.key)
<1>0. w = Moved(m, o.pos, Size(m, o.pos), h2.end)
  BY DEF AfterMove
<1>1. PICK n : n = Size(m, o.pos)
  OBVIOUS
<1>2. MoveEffect(m, w, o, h2)
  BY <1>0, MoveWorks
<1>3. /\ Tiled(w, h2.end) /\ IsMoved(m, w, o.pos, n, h2.end + n)
      /\ Tiled(m, h2.end + n) /\ o.pos \in Heads(m, h2.end + n)
      /\ m[o.pos].key = o.key /\ (h2.end + n) - n = h2.end
      /\ \A u \in Heads(w, h2.end) : w[u].key # o.key
  BY <1>1, <1>2 DEF MoveEffect
<1>4. h2.start = 1 /\ h.end = h2.end + n
  BY <1>1 DEF Opened
<1>5. o.key \in Key
  BY <1>3, SizeFacts
<1>6. ValueIn(w, h2, o.key) = NoValue
  <2>1. Holds(w, h2.end, o.key, NoValue)
    BY <1>3 DEF Holds
  <2>2. QED BY <2>1, <1>3, <1>4, ValueInChunks
<1>7. ASSUME NEW k \in Key, k # o.key PROVE ValueIn(w, h2, k) = ValueIn(m, h, k)
  <2>1. PICK v : v = ValueIn(m, h, k)
    OBVIOUS
  <2>2. Holds(m, h.end, k, v)
    <3>1. Tiled(m, h.end)
      BY <1>3, <1>4
    <3>2. QED BY <2>1, <3>1, SomeValue
  <2>3. Holds(m, h2.end + n, k, v)
    BY <2>2, <1>4
  <2>4. Holds(w, (h2.end + n) - n, k, v)
    BY <2>3, <1>1, <1>3, <1>7, MovedHolds
  <2>5. Holds(w, h2.end, k, v)
    BY <2>4, <1>3
  <2>6. QED BY <2>1, <2>5, <1>3, <1>4, ValueInChunks
<1>8. QED BY <1>5, <1>6, <1>7 DEF Forgotten

ForgetsOne(m, h, o) ==
  LET h2 == Shrunk(h, Size(m, o.pos))
  IN /\ o.key \in Key
     /\ ValuesOf(AfterMove(m, o, h2), h2)[o.key] = NoValue
     /\ \A k \in Key : k # o.key => ValuesOf(AfterMove(m, o, h2), h2)[k] = ValuesOf(m, h)[k]

LEMMA ShrinkingForgets ==
  ASSUME ShmAssumption, NEW m, NEW h, Opened(h), NEW o \in OpType, Working("end-", o, m, h)
  PROVE  ForgetsOne(m, h, o)
<1> DEFINE h2 == Shrunk(h, Size(m, o.pos))
<1> HIDE DEF h2
<1>0. h.start = 1
  BY DEF Opened
<1>1. Opened(h2) /\ Working("move", o, m, h2) /\ h.end = h2.end + Size(m, o.pos) /\ h.start = 1
  <2>1. h2 = Shrunk(h, Size(m, o.pos))
    BY DEF h2
  <2>2. QED BY <1>0, <2>1, EndShrinksWorks
<1>2. PICK w : w = AfterMove(m, o, h2)
  OBVIOUS
<1>3. Forgotten(m, h, w, h2, o.key)
  BY <1>1, <1>2, MovedForgets
<1>4. /\ o.key \in Key
      /\ ValuesOf(AfterMove(m, o, h2), h2)[o.key] = NoValue
      /\ \A k \in Key : k # o.key => ValuesOf(AfterMove(m, o, h2), h2)[k] = ValuesOf(m, h)[k]
  BY <1>2, <1>3 DEF ValuesOf, Forgotten
<1>5. QED BY <1>4 DEF h2, ForgetsOne

(* A variable is in the map when the end has grown. *)
LEMMA GrowingPuts ==
  ASSUME ShmAssumption, NEW m, NEW h, Opened(h), NEW o \in OpType, Working("end+", o, m, h),
         NEW h2, h2 = [h EXCEPT !.end = @ + units[o.val]]
  PROVE  /\ o.key \in Key
         /\ ValuesOf(m, h)[o.key] = NoValue
         /\ \A k \in Key : k # o.key => ValuesOf(m, h2)[k] = ValuesOf(m, h)[k]
<1>1. Opened(h2) /\ Working("free-", o, m, h2) /\ h2.end = h.end + units[o.val]
  BY EndGrowsWorks
<1>2. Adding(o, m, h) /\ WrittenWhole(o, m, h)
  BY DEF Working
<1>3. /\ Tiled(m, h.end) /\ Tiled(m, h.end + units[o.val]) /\ o.key \in Key /\ o.val \in Value
      /\ h.end \in Unit /\ m[h.end] = [key |-> o.key, val |-> o.val, part |-> 1]
      /\ \A u \in Heads(m, h.end) : m[u].key # o.key
  BY <1>2 DEF Adding, Quiet, WrittenWhole
<1>4. h.start = 1 /\ h2.start = 1
  BY <1>1 DEF Opened
<1>5. /\ \A j, z : j # o.key /\ Holds(m, h.end, j, z) => Holds(m, h.end + units[o.val], j, z)
      /\ Holds(m, h.end, o.key, NoValue)
  BY <1>3, GrownHolds
<1>6. ValueIn(m, h, o.key) = NoValue
  BY <1>3, <1>4, <1>5, ValueInChunks
<1>7. ASSUME NEW k \in Key, k # o.key PROVE ValueIn(m, h2, k) = ValueIn(m, h, k)
  <2> DEFINE v == ValueIn(m, h, k)
  <2>1. Holds(m, h.end, k, v)
    BY <1>3, <1>4, SomeValue
  <2> HIDE DEF v
  <2>2. Holds(m, h2.end, k, v) /\ Tiled(m, h2.end)
    BY <2>1, <1>1, <1>3, <1>5, <1>7
  <2>3. QED BY <2>2, <1>4, ValueInChunks DEF v
<1>8. QED BY <1>3, <1>6, <1>7 DEF ValuesOf

LEMMA WritingBehindTheEnd ==
  ASSUME ShmAssumption, NEW m, NEW h, Opened(h), Tiled(m, h.end), NEW w, Prefix(m, w, h.end)
  PROVE  ValuesOf(w, h) = ValuesOf(m, h)
<1>1. h.start = 1 /\ Tiled(w, h.end) /\ \A k, v : Holds(m, h.end, k, v) => Holds(w, h.end, k, v)
  BY PrefixTiled DEF Opened
<1>2. ASSUME NEW k \in Key PROVE ValueIn(w, h, k) = ValueIn(m, h, k)
  <2> DEFINE v == ValueIn(m, h, k)
  <2>1. Holds(m, h.end, k, v)
    BY <1>1, SomeValue
  <2> HIDE DEF v
  <2>2. QED BY <2>1, <1>1, ValueInChunks DEF v
<1>3. QED BY <1>2 DEF ValuesOf

-----------------------------------------------------------------------------
(* Every step is one of the map or none. *)
ContentsOf == [g \in Segment |-> Contents(g)]

LEMMA ContentsStillNext ==
  \A g : (\A p \in Process : ~(at'[p] = g /\ step'[p] = "move"))
         => (Contents(g))' = ValuesOf(mem'[g], head'[g])
<1> SUFFICES ASSUME NEW g, \A p \in Process : ~(at'[p] = g /\ step'[p] = "move")
             PROVE  (Contents(g))' = ValuesOf(mem'[g], head'[g])
  OBVIOUS
<1>1. {p \in Process : at'[p] = g /\ step'[p] = "move"} = {}
  OBVIOUS
<1>2. QED BY <1>1 DEF Contents, ValuesOf

LEMMA ContentsMovingNext ==
  \A p \in Process : step'[p] = "move" /\ Exclusive'
    => \A g : g = at'[p] =>
         (Contents(g))' = ValuesOf(AfterMove(mem'[g], op'[p], head'[g]), head'[g])
<1> SUFFICES ASSUME NEW p \in Process, step'[p] = "move", Exclusive', NEW g, g = at'[p]
             PROVE  (Contents(g))' = ValuesOf(AfterMove(mem'[g], op'[p], head'[g]), head'[g])
  OBVIOUS
<1> DEFINE movers == {q \in Process : at[q] = g /\ step[q] = "move"}
<1>1. movers' = {p}
  BY DEF Exclusive
<1>2. (CHOOSE q \in movers' : TRUE) = p /\ movers' # {}
  BY <1>1
<1> HIDE DEF movers
<1>3. (Contents(g))' =
        LET m == IF movers' = {} THEN mem'[g]
                 ELSE LET q == CHOOSE q \in movers' : TRUE
                      IN Moved(mem'[g], op'[q].pos, units[mem'[at'[q]][op'[q].pos].val], head'[g].end)
        IN [k \in Key |-> ValueIn(m, head'[g], k)]
  BY Zenon DEF Contents, Next1, movers
<1>4. QED BY <1>2, <1>3 DEF ValuesOf, AfterMove, Size

(* Nothing happens to a segment whose memory and movers stay. *)
LEMMA SameContents ==
  ASSUME ShmInv, ShmInv', NEW g \in Segment, head'[g] = head[g], mem'[g] = mem[g],
         \A q \in Process : (at'[q] = g /\ step'[q] = "move") <=> (at[q] = g /\ step[q] = "move"),
         \A q \in Process : at[q] = g /\ step[q] = "move" => op'[q] = op[q]
  PROVE  (Contents(g))' = Contents(g)
<1>1. Exclusive /\ Exclusive'
  BY DEF ShmInv
<1>2. CASE \A q \in Process : ~(at[q] = g /\ step[q] = "move")
  <2>1. Contents(g) = ValuesOf(mem[g], head[g])
    BY <1>2, ContentsStill
  <2>2. (Contents(g))' = ValuesOf(mem'[g], head'[g])
    BY <1>2, ContentsStillNext
  <2>3. QED BY <2>1, <2>2
<1>3. ASSUME NEW q \in Process, at[q] = g, step[q] = "move"
      PROVE  (Contents(g))' = Contents(g)
  <2>1. at'[q] = g /\ step'[q] = "move" /\ op'[q] = op[q]
    BY <1>3
  <2>2. Contents(g) = ValuesOf(AfterMove(mem[g], op[q], head[g]), head[g])
    BY <1>1, <1>3, ContentsMoving
  <2>3. (Contents(g))' = ValuesOf(AfterMove(mem'[g], op'[q], head'[g]), head'[g])
    BY <1>1, <2>1, ContentsMovingNext
  <2>4. QED BY <2>1, <2>2, <2>3
<1>4. QED BY <1>2, <1>3

MapStep == [Map!Next]_<<ContentsOf, torn>>

LEMMA SameMap ==
  ASSUME \A g \in Segment : (Contents(g))' = Contents(g), torn' = torn
  PROVE  MapStep
<1>1. ContentsOf' = ContentsOf
  BY DEF ContentsOf
<1>2. QED BY <1>1 DEF MapStep

LEMMA ChangedMap ==
  ASSUME NEW g \in Segment, g \notin torn, torn' = torn, NEW k \in Key,
         Contents(g)[k] = NoValue \/ (Contents(g))'[k] = NoValue,
         \A j \in Key : j # k => (Contents(g))'[j] = Contents(g)[j],
         \A x \in Segment : x # g => (Contents(x))' = Contents(x)
  PROVE  MapStep
<1>1. /\ \A x \in Segment : ContentsOf[x] = Contents(x) /\ ContentsOf'[x] = (Contents(x))'
  BY DEF ContentsOf
<1>2. Map!Change(g, k)
  BY <1>1 DEF Map!Change, Map!Others, ContentsOf
<1>3. Map!Next
  BY <1>2 DEF Map!Next
<1>4. QED BY <1>3 DEF MapStep

LEMMA DeletedMap ==
  ASSUME NEW g \in Segment, torn' = torn \ {g}, (Contents(g))' = [k \in Key |-> NoValue],
         \A x \in Segment : x # g => (Contents(x))' = Contents(x)
  PROVE  MapStep
<1>1. Map!Delete(g)
  BY DEF Map!Delete, Map!Others, Map!Empty
<1>2. Map!Next
  BY <1>1 DEF Map!Next
<1>3. QED BY <1>2 DEF MapStep

LEMMA BrokenMap ==
  ASSUME NEW g \in Segment, g \notin torn, torn' = torn \cup {g},
         \A x \in Segment : x # g => (Contents(x))' = Contents(x)
  PROVE  MapStep
<1>1. Map!Break(g)
  BY DEF Map!Break, Map!Others
<1>2. Map!Next
  BY <1>1 DEF Map!Next
<1>3. QED BY <1>2 DEF MapStep

(* A step that writes nothing and begins and ends no move. *)
LEMMA StillStep ==
  ASSUME ShmInv, ShmInv', head' = head, mem' = mem, torn' = torn,
         NEW p \in Process, step[p] # "move", step'[p] # "move",
         \A q \in Process : q # p => at'[q] = at[q] /\ step'[q] = step[q] /\ op'[q] = op[q]
  PROVE  MapStep
<1>1. ASSUME NEW g \in Segment PROVE (Contents(g))' = Contents(g)
  <2>1. \A q \in Process : (at'[q] = g /\ step'[q] = "move") <=> (at[q] = g /\ step[q] = "move")
    OBVIOUS
  <2>2. \A q \in Process : at[q] = g /\ step[q] = "move" => op'[q] = op[q]
    OBVIOUS
  <2>3. QED BY <2>1, <2>2, SameContents
<1>2. QED BY <1>1, SameMap

(* A step that writes one segment, or begins or ends a move. *)
LEMMA OneSegment ==
  ASSUME ShmInv, ShmInv', NEW p \in Process, step[p] # "idle", NEW g, g = at[p], at' = at,
         \A q \in Process : q # p => step'[q] = step[q],
         \A x \in Segment : x # g => head'[x] = head[x] /\ mem'[x] = mem[x]
  PROVE  /\ \A x \in Segment : x # g => (Contents(x))' = Contents(x)
         /\ step[p] # "move" => Contents(g) = ValuesOf(mem[g], head[g])
         /\ step[p] = "move" => Contents(g) = ValuesOf(AfterMove(mem[g], op[p], head[g]), head[g])
         /\ step'[p] # "move" => (Contents(g))' = ValuesOf(mem'[g], head'[g])
         /\ step'[p] = "move" =>
              (Contents(g))' = ValuesOf(AfterMove(mem'[g], op'[p], head'[g]), head'[g])
<1>1. Exclusive /\ Exclusive' /\ \A q \in Process : q # p => step[q] = "idle" /\ step'[q] = "idle"
  BY DEF ShmInv, Exclusive
<1>2. ASSUME NEW x \in Segment, x # g PROVE (Contents(x))' = Contents(x)
  <2>1. \A q \in Process : ~(at[q] = x /\ step[q] = "move") /\ ~(at'[q] = x /\ step'[q] = "move")
    BY <1>1, <1>2
  <2>2. QED BY <2>1, <1>2, SameContents
<1>3. step[p] # "move" => Contents(g) = ValuesOf(mem[g], head[g])
  BY <1>1, ContentsStill
<1>4. step[p] = "move" => Contents(g) = ValuesOf(AfterMove(mem[g], op[p], head[g]), head[g])
  BY <1>1, ContentsMoving
<1>5. step'[p] # "move" => (Contents(g))' = ValuesOf(mem'[g], head'[g])
  BY <1>1, ContentsStillNext
<1>6. step'[p] = "move" =>
        (Contents(g))' = ValuesOf(AfterMove(mem'[g], op'[p], head'[g]), head'[g])
  BY <1>1, ContentsMovingNext
<1>7. QED BY <1>2, <1>3, <1>4, <1>5, <1>6

(* Attaching writes nothing that is looked for. *)
LEMMA StillSteps ==
  ASSUME ShmAssumption, AttachLocked, ShmInv, ShmInv', NEW p \in Process,
         \/ Lock(p) \/ Unlock(p) \/ ShmGet(p) \/ ShmAt(p) \/ CheckMagic(p)
         \/ Room(p) \/ \E k \in Key, v \in Value \cup {NoValue} : ShmChange(p, k, v)
  PROVE  MapStep
<1>1. /\ step \in [Process -> {"idle"} \cup Writing \cup Attaching]
      /\ op \in [Process -> OpType] /\ at \in [Process -> 0..MaxSegments]
  BY DEF ShmInv, ShmTypes
<1>2. CASE Lock(p) \/ Unlock(p)
  <2>1. head' = head /\ mem' = mem /\ torn' = torn /\ at' = at /\ step' = step /\ op' = op
        /\ step[p] = "idle"
    BY <1>2 DEF Lock, Unlock
  <2>2. step[p] # "move" /\ step'[p] # "move"
    BY <2>1
  <2>3. QED BY <2>1, <2>2, StillStep
<1>3. CASE ShmGet(p)
  <2>1. PICK g : op' = [op EXCEPT ![p].pos = g]
    BY <1>3 DEF ShmGet
  <2>2. head' = head /\ mem' = mem /\ torn' = torn /\ at' = at /\ step[p] = "idle"
        /\ step' = [step EXCEPT ![p] = "attach"]
    BY <1>3 DEF ShmGet, Continue
  <2>3. step[p] # "move" /\ step'[p] # "move"
        /\ \A q \in Process : q # p => at'[q] = at[q] /\ step'[q] = step[q] /\ op'[q] = op[q]
    BY <1>1, <2>1, <2>2
  <2>4. QED BY <2>2, <2>3, StillStep
<1>4. CASE ShmAt(p)
  <2>1. head' = head /\ mem' = mem /\ torn' = torn /\ step[p] = "attach"
        /\ op' = [op EXCEPT ![p] = NoOp]
        /\ at' \in {at, [at EXCEPT ![p] = op[p].pos]}
        /\ step' \in {[step EXCEPT ![p] = "check"], [step EXCEPT ![p] = "idle"]}
    BY <1>4 DEF ShmAt, Continue
  <2>2. step[p] # "move" /\ step'[p] # "move"
        /\ \A q \in Process : q # p => at'[q] = at[q] /\ step'[q] = step[q] /\ op'[q] = op[q]
    BY <1>1, <2>1
  <2>3. QED BY <2>1, <2>2, StillStep
<1>5. CASE CheckMagic(p)
  <2>1. head' = head /\ mem' = mem /\ torn' = torn /\ at' = at /\ op' = op /\ step[p] = "check"
        /\ step' \in {[step EXCEPT ![p] = "magic"], [step EXCEPT ![p] = "idle"]}
    BY <1>5 DEF CheckMagic, Continue
  <2>2. step[p] # "move" /\ step'[p] # "move" /\ \A q \in Process : q # p => step'[q] = step[q]
    BY <1>1, <2>1
  <2>3. QED BY <2>1, <2>2, StillStep
<1>6. CASE Room(p)
  <2>1. head' = head /\ mem' = mem /\ torn' = torn /\ at' = at /\ step[p] = "room"
        /\ step' \in {[step EXCEPT ![p] = "write"], [step EXCEPT ![p] = "idle"]}
        /\ op' \in {op, [op EXCEPT ![p] = NoOp]}
    BY <1>6 DEF Room, Continue
  <2>2. step[p] # "move" /\ step'[p] # "move"
        /\ \A q \in Process : q # p => step'[q] = step[q] /\ op'[q] = op[q]
    BY <1>1, <2>1
  <2>3. QED BY <2>1, <2>2, StillStep
<1>7. ASSUME NEW k \in Key, NEW v \in Value \cup {NoValue}, ShmChange(p, k, v) PROVE MapStep
  <2>1. PICK o2 : op' = [op EXCEPT ![p] = o2]
    BY <1>7 DEF ShmChange
  <2>2. head' = head /\ mem' = mem /\ torn' = torn /\ at' = at /\ step[p] = "idle"
        /\ step' \in {[step EXCEPT ![p] = "free+"], [step EXCEPT ![p] = "room"]}
    BY <1>7 DEF ShmChange, Uses, Continue
  <2>3. step[p] # "move" /\ step'[p] # "move"
        /\ \A q \in Process : q # p => step'[q] = step[q] /\ op'[q] = op[q]
    BY <1>1, <2>1, <2>2
  <2>4. QED BY <2>2, <2>3, StillStep
<1>8. QED BY <1>2, <1>3, <1>4, <1>5, <1>6, <1>7

(* The writes of the header when a segment is attached. *)
LEMMA HeaderMapStep ==
  ASSUME ShmAssumption, ShmInv, ShmInv', NEW p \in Process, WriteMagic(p) \/ WriteHeader(p)
  PROVE  MapStep
<1>1. ShmTypes /\ Attachments /\ Headers /\ Attached(p)
  BY DEF ShmInv, Attachments
<1>2. step[p] \in {"magic", "header"}
  BY DEF WriteMagic, WriteHeader
<1>3. at[p] \in Segment
  <2>1. at[p] # 0 /\ at[p] \in 0..MaxSegments
    BY <1>1, <1>2 DEF Attached, Opening, ShmTypes
  <2>2. QED BY <2>1, Places0
<1>4. PICK g \in Segment : g = at[p]
  BY <1>3
<1>5. /\ head \in [Segment -> HeaderType] /\ mem \in [Segment -> Memory]
      /\ step \in [Process -> {"idle"} \cup Writing \cup Attaching]
  BY <1>1 DEF ShmTypes
<1>6. head[g].start = 0 /\ head[g].end = 0
  <2>1. g \notin torn /\ ~Initialized(g)
    BY <1>1, <1>2, <1>4 DEF Attached, Headers, Header, Opened
  <2>2. QED BY <2>1, <1>1 DEF Headers, Header, Initialized
<1>7. /\ \A x \in Segment : x # g => head'[x] = head[x]
      /\ \/ head'[g].start = 0 /\ head'[g].end = 0
         \/ head'[g].start = 1 /\ head'[g].end = 1
      /\ step' \in {[step EXCEPT ![p] = "header"], [step EXCEPT ![p] = "idle"]}
  <2>1. CASE WriteMagic(p)
    <3>1. head' = [head EXCEPT ![g] = [head[g] EXCEPT !.magic = TRUE]]
          /\ step' = [step EXCEPT ![p] = "header"]
      BY <2>1, <1>4 DEF WriteMagic, Continue
    <3>2. [head[g] EXCEPT !.magic = TRUE].start = 0 /\ [head[g] EXCEPT !.magic = TRUE].end = 0
      BY <1>5, <1>6 DEF HeaderType
    <3>3. QED BY <3>1, <3>2, <1>5
  <2>2. CASE WriteHeader(p)
    <3>1. PICK h2 : h2 = [magic |-> TRUE, start |-> Start, end |-> Start, total |-> shm_size,
                          free |-> shm_size - Start]
      OBVIOUS
    <3>2. head' = [head EXCEPT ![g] = h2] /\ step' = [step EXCEPT ![p] = "idle"]
      BY <2>2, <3>1, <1>4 DEF WriteHeader, Continue
    <3>3. h2.start = 1 /\ h2.end = 1
      BY <3>1 DEF Start
    <3>4. QED BY <3>2, <3>3, <1>5
  <2>3. QED BY <2>1, <2>2
<1>8. mem' = mem /\ at' = at /\ torn' = torn
  BY DEF WriteMagic, WriteHeader
<1>9. /\ step'[p] # "move" /\ step[p] # "move" /\ step[p] # "idle"
      /\ \A q \in Process : q # p => step'[q] = step[q]
      /\ \A x \in Segment : x # g => head'[x] = head[x] /\ mem'[x] = mem[x]
      /\ mem[g] \in Memory
  BY <1>2, <1>5, <1>7, <1>8
<1>10. /\ \A x \in Segment : x # g => (Contents(x))' = Contents(x)
       /\ Contents(g) = ValuesOf(mem[g], head[g])
       /\ (Contents(g))' = ValuesOf(mem'[g], head'[g])
  BY <1>4, <1>8, <1>9, OneSegment
<1>11. ValuesOf(mem[g], head[g]) = [k \in Key |-> NoValue]
  BY <1>6, NoValues
<1>12. ValuesOf(mem[g], head'[g]) = [k \in Key |-> NoValue]
  BY <1>7, <1>9, NoValues
<1>13. QED BY <1>8, <1>9, <1>10, <1>11, <1>12, SameMap

(* The writes of the chunks: a variable is forgotten when the end shrinks   *)
(* and put when it grows; the other writes are not seen.                    *)
LEMMA FreeMapSteps ==
  ASSUME ShmAssumption, ShmInv, ShmInv', NEW p \in Process, FreeGrows(p) \/ FreeShrinks(p)
  PROVE  MapStep
<1>1. step[p] \in Writing /\ step[p] \in {"free+", "free-"}
  BY DEF FreeGrows, FreeShrinks, Writing
<1>2. PICK g \in Segment : g = at[p]
  BY <1>1, WriterFacts
<1>3. /\ head \in [Segment -> HeaderType]
      /\ step \in [Process -> {"idle"} \cup Writing \cup Attaching]
  BY DEF ShmInv, ShmTypes
<1>4. PICK h : h = head[g] /\ h \in HeaderType
  BY <1>3
<1>5. /\ mem' = mem /\ at' = at /\ torn' = torn
      /\ step' \in {[step EXCEPT ![p] = "end-"], [step EXCEPT ![p] = "idle"]}
  BY DEF FreeGrows, FreeShrinks, Continue
<1>6. PICK n : head' = [head EXCEPT ![g] = [h EXCEPT !.free = n]]
  BY <1>2, <1>4 DEF FreeGrows, FreeShrinks
<1>7. /\ head'[g].start = h.start /\ head'[g].end = h.end
      /\ \A x \in Segment : x # g => head'[x] = head[x] /\ mem'[x] = mem[x]
  BY <1>3, <1>4, <1>5, <1>6 DEF HeaderType
<1>8. /\ step'[p] # "move" /\ step[p] # "move" /\ step[p] # "idle"
      /\ \A q \in Process : q # p => step'[q] = step[q]
  BY <1>1, <1>3, <1>5
<1>9. /\ \A x \in Segment : x # g => (Contents(x))' = Contents(x)
      /\ Contents(g) = ValuesOf(mem[g], head[g])
      /\ (Contents(g))' = ValuesOf(mem'[g], head'[g])
  BY <1>2, <1>5, <1>7, <1>8, OneSegment
<1>10. ValuesOf(mem[g], head'[g]) = ValuesOf(mem[g], h)
  BY <1>7, SameBounds
<1>11. QED BY <1>4, <1>5, <1>9, <1>10, SameMap

LEMMA ShrinkMapStep ==
  ASSUME ShmAssumption, ShmInv, ShmInv', NEW p \in Process, EndShrinks(p)
  PROVE  MapStep
<1>1. step[p] = "end-" /\ step[p] \in Writing
  BY DEF EndShrinks, Writing
<1>2. PICK g \in Segment : g = at[p]
  BY <1>1, WriterFacts
<1>3. /\ head \in [Segment -> HeaderType]
      /\ step \in [Process -> {"idle"} \cup Writing \cup Attaching]
  BY DEF ShmInv, ShmTypes
<1>4. PICK h, m, o : h = head[g] /\ m = mem[g] /\ o = op[p]
  OBVIOUS
<1>5. Opened(h) /\ Working("end-", o, m, h) /\ o \in OpType /\ g \notin torn
  BY <1>1, <1>2, <1>4, WriterFacts
<1>6. PICK h2 : h2 = Shrunk(h, Size(m, o.pos))
  OBVIOUS
<1>7. head' = [head EXCEPT ![g] = h2]
  BY <1>2, <1>4, <1>6 DEF EndShrinks, Next1, Size, Shrunk
<1>8. mem' = mem /\ at' = at /\ torn' = torn /\ op' = op /\ step' = [step EXCEPT ![p] = "move"]
  BY DEF EndShrinks, Continue
<1>9. /\ step'[p] = "move" /\ step[p] # "move" /\ step[p] # "idle" /\ head'[g] = h2
      /\ \A q \in Process : q # p => step'[q] = step[q]
      /\ \A x \in Segment : x # g => head'[x] = head[x] /\ mem'[x] = mem[x]
  BY <1>1, <1>3, <1>7, <1>8
<1>10. /\ \A x \in Segment : x # g => (Contents(x))' = Contents(x)
       /\ Contents(g) = ValuesOf(mem[g], head[g])
       /\ (Contents(g))' = ValuesOf(AfterMove(mem'[g], op'[p], head'[g]), head'[g])
  BY <1>2, <1>8, <1>9, OneSegment
<1>11. Contents(g) = ValuesOf(m, h) /\ (Contents(g))' = ValuesOf(AfterMove(m, o, h2), h2)
  BY <1>4, <1>8, <1>9, <1>10
<1>12. /\ o.key \in Key
       /\ ValuesOf(AfterMove(m, o, h2), h2)[o.key] = NoValue
       /\ \A k \in Key : k # o.key => ValuesOf(AfterMove(m, o, h2), h2)[k] = ValuesOf(m, h)[k]
  <2>1. ForgetsOne(m, h, o)
    BY <1>5, ShrinkingForgets
  <2>2. QED BY <2>1, <1>6 DEF ForgetsOne
<1>13. PICK k \in Key : k = o.key
  BY <1>12
<1>14. /\ (Contents(g))'[k] = NoValue
       /\ \A j \in Key : j # k => (Contents(g))'[j] = Contents(g)[j]
  BY <1>11, <1>12, <1>13
<1>15. QED BY <1>5, <1>8, <1>10, <1>14, ChangedMap

LEMMA GrowMapStep ==
  ASSUME ShmAssumption, ShmInv, ShmInv', NEW p \in Process, EndGrows(p)
  PROVE  MapStep
<1>1. step[p] = "end+" /\ step[p] \in Writing
  BY DEF EndGrows, Writing
<1>2. PICK g \in Segment : g = at[p]
  BY <1>1, WriterFacts
<1>3. /\ head \in [Segment -> HeaderType]
      /\ step \in [Process -> {"idle"} \cup Writing \cup Attaching]
  BY DEF ShmInv, ShmTypes
<1>4. PICK h, m, o : h = head[g] /\ m = mem[g] /\ o = op[p]
  OBVIOUS
<1>5. Opened(h) /\ Working("end+", o, m, h) /\ o \in OpType /\ g \notin torn
  BY <1>1, <1>2, <1>4, WriterFacts
<1>6. PICK h2 : h2 = [h EXCEPT !.end = @ + units[o.val]]
  OBVIOUS
<1>7. head' = [head EXCEPT ![g] = h2]
  BY <1>2, <1>4, <1>6 DEF EndGrows
<1>8. mem' = mem /\ at' = at /\ torn' = torn /\ step' = [step EXCEPT ![p] = "free-"]
  BY DEF EndGrows, Continue
<1>9. /\ step'[p] # "move" /\ step[p] # "move" /\ step[p] # "idle" /\ head'[g] = h2
      /\ \A q \in Process : q # p => step'[q] = step[q]
      /\ \A x \in Segment : x # g => head'[x] = head[x] /\ mem'[x] = mem[x]
  BY <1>1, <1>3, <1>7, <1>8
<1>10. /\ \A x \in Segment : x # g => (Contents(x))' = Contents(x)
       /\ Contents(g) = ValuesOf(mem[g], head[g])
       /\ (Contents(g))' = ValuesOf(mem'[g], head'[g])
  BY <1>2, <1>8, <1>9, OneSegment
<1>11. Contents(g) = ValuesOf(m, h) /\ (Contents(g))' = ValuesOf(m, h2)
  BY <1>4, <1>8, <1>9, <1>10
<1>12. /\ o.key \in Key /\ ValuesOf(m, h)[o.key] = NoValue
       /\ \A k \in Key : k # o.key => ValuesOf(m, h2)[k] = ValuesOf(m, h)[k]
  BY <1>5, <1>6, GrowingPuts
<1>13. PICK k \in Key : k = o.key
  BY <1>12
<1>14. /\ Contents(g)[k] = NoValue
       /\ \A j \in Key : j # k => (Contents(g))'[j] = Contents(g)[j]
  BY <1>11, <1>12, <1>13
<1>15. QED BY <1>5, <1>8, <1>10, <1>14, ChangedMap

LEMMA MoveMapStep ==
  ASSUME ShmAssumption, ShmInv, ShmInv', NEW p \in Process, Move(p)
  PROVE  MapStep
<1>1. step[p] = "move" /\ step[p] \in Writing
  BY DEF Move, Writing
<1>2. PICK g \in Segment : g = at[p]
  BY <1>1, WriterFacts
<1>3. /\ mem \in [Segment -> Memory]
      /\ step \in [Process -> {"idle"} \cup Writing \cup Attaching]
  BY DEF ShmInv, ShmTypes
<1>4. PICK h, m, o : h = head[g] /\ m = mem[g] /\ o = op[p]
  OBVIOUS
<1>5. PICK w : w = AfterMove(m, o, h)
  OBVIOUS
<1>6. mem' = [mem EXCEPT ![g] = w]
  BY <1>2, <1>4, <1>5 DEF Move, Next1, Size, AfterMove
<1>7. head' = head /\ at' = at /\ torn' = torn
      /\ step' \in {[step EXCEPT ![p] = "idle"], [step EXCEPT ![p] = "room"]}
  BY DEF Move, Continue
<1>8. /\ step'[p] # "move" /\ step[p] # "idle" /\ mem'[g] = w
      /\ \A q \in Process : q # p => step'[q] = step[q]
      /\ \A x \in Segment : x # g => head'[x] = head[x] /\ mem'[x] = mem[x]
  BY <1>1, <1>3, <1>6, <1>7
<1>9. /\ \A x \in Segment : x # g => (Contents(x))' = Contents(x)
      /\ Contents(g) = ValuesOf(AfterMove(mem[g], op[p], head[g]), head[g])
      /\ (Contents(g))' = ValuesOf(mem'[g], head'[g])
  BY <1>1, <1>2, <1>7, <1>8, OneSegment
<1>10. Contents(g) = ValuesOf(w, h) /\ (Contents(g))' = ValuesOf(w, h)
  BY <1>4, <1>5, <1>7, <1>8, <1>9
<1>11. QED BY <1>7, <1>9, <1>10, SameMap

LEMMA WriteMapStep ==
  ASSUME ShmAssumption, ShmInv, ShmInv', NEW p \in Process, WriteChunk(p)
  PROVE  MapStep
<1>1. step[p] = "write" /\ step[p] \in Writing
  BY DEF WriteChunk, Writing
<1>2. PICK g \in Segment : g = at[p]
  BY <1>1, WriterFacts
<1>3. /\ mem \in [Segment -> Memory]
      /\ step \in [Process -> {"idle"} \cup Writing \cup Attaching]
  BY DEF ShmInv, ShmTypes
<1>4. PICK h, m, o : h = head[g] /\ m = mem[g] /\ o = op[p]
  OBVIOUS
<1>5. Opened(h) /\ Working("write", o, m, h)
  BY <1>1, <1>2, <1>4, WriterFacts
<1>6. PICK w : w = [u \in Unit |->
                      IF u >= h.end /\ u < h.end + units[o.val]
                      THEN [key |-> o.key, val |-> o.val, part |-> u - h.end + 1] ELSE m[u]]
  OBVIOUS
<1>7. mem' = [mem EXCEPT ![g] = w]
  BY <1>2, <1>4, <1>6 DEF WriteChunk
<1>8. head' = head /\ at' = at /\ torn' = torn /\ step' = [step EXCEPT ![p] = "end+"]
  BY DEF WriteChunk, Continue
<1>9. /\ step'[p] # "move" /\ step[p] # "move" /\ step[p] # "idle" /\ mem'[g] = w
      /\ \A q \in Process : q # p => step'[q] = step[q]
      /\ \A x \in Segment : x # g => head'[x] = head[x] /\ mem'[x] = mem[x]
  BY <1>1, <1>3, <1>7, <1>8
<1>10. /\ \A x \in Segment : x # g => (Contents(x))' = Contents(x)
       /\ Contents(g) = ValuesOf(mem[g], head[g])
       /\ (Contents(g))' = ValuesOf(mem'[g], head'[g])
  BY <1>2, <1>8, <1>9, OneSegment
<1>11. Contents(g) = ValuesOf(m, h) /\ (Contents(g))' = ValuesOf(w, h)
  BY <1>4, <1>8, <1>9, <1>10
<1>12. Prefix(m, w, h.end) /\ Tiled(m, h.end)
  BY <1>5, <1>6, WriteWorks
<1>13. ValuesOf(w, h) = ValuesOf(m, h)
  BY <1>5, <1>12, WritingBehindTheEnd
<1>14. QED BY <1>8, <1>10, <1>11, <1>13, SameMap

(* Freeing deletes the map of the one segment nobody has any more, and a    *)
(* death between two writes breaks the map of the segment that is kept.     *)
LEMMA FreeingMapStep ==
  ASSUME ShmAssumption, ShmInv, ShmInv', NEW p \in Process,
         at' \in {at, [at EXCEPT ![p] = 0]}, segment' = segment \/ segment = at[p],
         step' = [step EXCEPT ![p] = "idle"],
         \A q \in Process : q # p => op'[q] = op[q],
         Free(IF step[p] \in HalfWritten THEN torn \cup {at[p]} ELSE torn)
  PROVE  MapStep
<1> DEFINE half == IF step[p] \in HalfWritten THEN torn \cup {at[p]} ELSE torn
           kept == {x \in Segment : x = segment' \/ \E q \in Process : at'[q] = x}
<1>1. /\ ShmTypes /\ Exclusive /\ Blank /\ Attachments
  BY DEF ShmInv
<1>2. /\ step \in [Process -> {"idle"} \cup Writing \cup Attaching]
      /\ at \in [Process -> 0..MaxSegments] /\ torn \subseteq Segment
  BY <1>1 DEF ShmTypes
<1>3. /\ head' = [x \in Segment |-> IF x \in kept THEN head[x] ELSE NewHead]
      /\ mem' = [x \in Segment |-> IF x \in kept THEN mem[x] ELSE NewMem]
      /\ torn' = half \cap kept
  BY DEF Free
<1> HIDE DEF half
<1>4. /\ \A q \in Process : q # p => at'[q] = at[q] /\ step'[q] = step[q]
      /\ step'[p] = "idle" /\ at'[p] \in {0, at[p]}
  BY <1>2
<1>5. \A x \in Segment : (\E q \in Process : at'[q] = x) => x \in kept
  OBVIOUS
<1>6. ASSUME NEW x \in Segment, x # at[p]
      PROVE  head'[x] = head[x] /\ mem'[x] = mem[x] /\ (x \in torn => x \in kept)
  <2>1. CASE x \in kept
    BY <2>1, <1>3
  <2>2. CASE x \notin kept
    <3>1. ~Exists(x)
      BY <2>2, <1>4, <1>6 DEF Exists
    <3>2. head[x] = NewHead /\ mem[x] = NewMem /\ x \notin torn
      BY <3>1, <1>1 DEF Blank
    <3>3. QED BY <2>2, <3>2, <1>3
  <2>3. QED BY <2>1, <2>2
<1> HIDE DEF kept
<1>7. ASSUME NEW x \in Segment, x # at[p] \/ (x \in kept /\ step[p] # "move")
      PROVE  (Contents(x))' = Contents(x)
  <2>1. head'[x] = head[x] /\ mem'[x] = mem[x]
    BY <1>3, <1>6, <1>7
  <2>2. \A q \in Process : (at'[q] = x /\ step'[q] = "move") <=> (at[q] = x /\ step[q] = "move")
    BY <1>4, <1>7
  <2>3. \A q \in Process : at[q] = x /\ step[q] = "move" => op'[q] = op[q]
    BY <1>7
  <2>4. QED BY <2>1, <2>2, <2>3, SameContents
<1>8. half = IF step[p] \in HalfWritten THEN torn \cup {at[p]} ELSE torn
  BY DEF half
<1>9. step[p] \in HalfWritten => at[p] # 0 /\ at[p] \notin torn
  BY <1>1 DEF Attachments, Attached, HalfWritten, Writing, Opening
<1>10. step[p] = "move" => step[p] \in HalfWritten
  BY DEF HalfWritten
<1>11. CASE at[p] = 0
  <2>1. \A x \in Segment : x # at[p]
    BY <1>11, NotZero
  <2>2. torn' = torn
    BY <2>1, <1>2, <1>3, <1>6, <1>8, <1>9, <1>11
  <2>3. QED BY <2>1, <2>2, <1>7, SameMap
<1>12. CASE at[p] # 0
  <2>1. PICK g \in Segment : g = at[p]
    <3>1. at[p] \in 0..MaxSegments
      BY <1>2
    <3>2. QED BY <3>1, <1>12, Places0
  <2>2. \A x \in Segment : x # g => (Contents(x))' = Contents(x)
    BY <2>1, <1>7
  <2>3. \A x \in torn : x # g => x \in kept
    BY <2>1, <1>2, <1>6
  <2>4. CASE g \notin kept
    <3>1. torn' = torn \ {g}
      BY <2>1, <2>3, <2>4, <1>3, <1>8
    <3>2. \A q \in Process : at'[q] # g
      BY <2>1, <2>4, <1>5
    <3>3. (Contents(g))' = ValuesOf(mem'[g], head'[g])
      BY <3>2, ContentsStillNext
    <3>4. head'[g] = NewHead
      BY <2>1, <2>4, <1>3
    <3>5. head'[g].start = 0 /\ head'[g].end = 0
      BY <3>4 DEF NewHead
    <3>6. ValuesOf(mem'[g], head'[g]) = [k \in Key |-> NoValue]
      BY <3>5, NoValues
    <3>7. QED BY <2>2, <3>1, <3>3, <3>6, DeletedMap
  <2>5. CASE g \in kept /\ step[p] \in HalfWritten
    <3>1. g \notin torn /\ torn' = torn \cup {g}
      BY <2>1, <2>3, <2>5, <1>3, <1>8, <1>9
    <3>2. QED BY <2>2, <3>1, BrokenMap
  <2>6. CASE g \in kept /\ step[p] \notin HalfWritten
    <3>1. torn' = torn
      BY <2>3, <2>6, <1>3, <1>8
    <3>2. (Contents(g))' = Contents(g)
      BY <2>6, <1>7, <1>10
    <3>3. QED BY <2>2, <3>1, <3>2, SameMap
  <2>7. QED BY <2>4, <2>5, <2>6
<1>13. QED BY <1>11, <1>12

LEMMA FreeingSteps ==
  ASSUME ShmAssumption, ShmInv, ShmInv', NEW p \in Process,
         ShmDetach(p) \/ ShmRemove(p) \/ Die(p)
  PROVE  MapStep
<1>1. /\ step \in [Process -> {"idle"} \cup Writing \cup Attaching]
      /\ op \in [Process -> OpType]
  BY DEF ShmInv, ShmTypes
<1>2. CASE ShmDetach(p) \/ ShmRemove(p)
  <2>1. /\ step[p] = "idle" /\ step' = step /\ op' = op /\ Free(torn)
        /\ at' \in {at, [at EXCEPT ![p] = 0]} /\ (segment' = segment \/ segment = at[p])
    BY <1>2 DEF ShmDetach, ShmRemove
  <2>2. step' = [step EXCEPT ![p] = "idle"] /\ step[p] \notin HalfWritten
    BY <2>1, <1>1 DEF HalfWritten
  <2>3. Free(IF step[p] \in HalfWritten THEN torn \cup {at[p]} ELSE torn)
    BY <2>1, <2>2
  <2>4. QED BY <2>1, <2>2, <2>3, FreeingMapStep
<1>3. CASE Die(p)
  <2>1. /\ step' = [step EXCEPT ![p] = "idle"] /\ op' = [op EXCEPT ![p] = NoOp]
        /\ at' = [at EXCEPT ![p] = 0] /\ segment' = segment
        /\ Free(IF step[p] \in HalfWritten THEN torn \cup {at[p]} ELSE torn)
    BY <1>3 DEF Die, Continue
  <2>2. \A q \in Process : q # p => op'[q] = op[q]
    BY <2>1, <1>1
  <2>3. QED BY <2>1, <2>2, FreeingMapStep
<1>4. QED BY <1>2, <1>3

LEMMA ShmMapNext ==
  ASSUME ShmAssumption, AttachLocked, ShmInv, ShmInv', [ShmNext]_(shm_vars)
  PROVE  MapStep
<1>1. CASE UNCHANGED shm_vars
  <2>1. /\ head' = head /\ mem' = mem /\ at' = at /\ step' = step /\ op' = op /\ torn' = torn
    BY <1>1 DEF shm_vars
  <2>2. \A x \in Segment : (Contents(x))' = Contents(x)
    BY <2>1, SameContents
  <2>3. QED BY <2>1, <2>2, SameMap
<1>2. ASSUME NEW p \in Process, Script(p) PROVE MapStep
  <2>1. ASSUME NEW k \in Key, ShmRemoveVar(p, k) PROVE MapStep
    BY <2>1, StillSteps DEF ShmRemoveVar
  <2>2. ASSUME NEW k \in Key, NEW v \in Value, ShmPutVar(p, k, v) PROVE MapStep
    BY <2>2, StillSteps DEF ShmPutVar
  <2>3. QED BY <1>2, <2>1, <2>2, StillSteps, FreeingSteps DEF Script
<1>3. ASSUME NEW p \in Process, Attach(p) PROVE MapStep
  BY <1>3, StillSteps, HeaderMapStep DEF Attach
<1>4. ASSUME NEW p \in Process, RemoveData(p) PROVE MapStep
  BY <1>4, FreeMapSteps, ShrinkMapStep, MoveMapStep DEF RemoveData
<1>5. ASSUME NEW p \in Process, PutData(p) PROVE MapStep
  BY <1>5, StillSteps, WriteMapStep, GrowMapStep, FreeMapSteps DEF PutData
<1>6. ASSUME NEW p \in Process, Die(p) PROVE MapStep
  BY <1>6, FreeingSteps
<1>7. QED BY <1>1, <1>2, <1>3, <1>4, <1>5, <1>6 DEF ShmNext

LEMMA ShmMapInit == ASSUME ShmAssumption, ShmInit PROVE Map!Init
<1>1. /\ head = [x \in Segment |-> NewHead] /\ torn = {}
      /\ step = [p \in Process |-> "idle"]
  BY DEF ShmInit
<1>2. ASSUME NEW x \in Segment PROVE Contents(x) = [k \in Key |-> NoValue]
  <2>1. Contents(x) = ValuesOf(mem[x], head[x])
    BY <1>1, ContentsStill
  <2>2. head[x] = NewHead
    BY <1>1
  <2>3. head[x].start = 0 /\ head[x].end = 0
    BY <2>2 DEF NewHead
  <2>4. QED BY <2>1, <2>3, NoValues
<1>3. [x \in Segment |-> Contents(x)] = [x \in Segment |-> [k \in Key |-> NoValue]]
  BY <1>2
<1>4. QED BY <1>1, <1>3 DEF Map!Init, Map!Empty

(* The segment of a key is a map to the scripts that use it under the      *)
(* semaphore: php_put_shm_data() and php_remove_shm_data() change one      *)
(* variable and no other, in two steps when a value replaces another, and  *)
(* only a death between two writes breaks it.                              *)
THEOREM ShmImplementsMap ==
  ASSUME AttachLocked PROVE ShmSpec => ImplementsMap
<1>1. ShmInit => Map!Init
  BY ShmMapInit, ShmAssumption
<1>2. ShmInv /\ ShmInv' /\ [ShmNext]_(shm_vars)
        => [Map!Next]_<<[g \in Segment |-> Contents(g)], torn>>
  BY ShmMapNext, ShmAssumption DEF MapStep, ContentsOf
<1>3. ShmSpec => []ShmInv
  BY ShmInvariance, ShmAssumption
<1>4. ShmSpec => Map!Init /\ [][Map!Next]_<<[g \in Segment |-> Contents(g)], torn>>
  BY <1>1, <1>2, <1>3, PTL DEF ShmSpec
<1>5. QED BY <1>4, PTL DEF ImplementsMap, Map!Spec
=============================================================================
