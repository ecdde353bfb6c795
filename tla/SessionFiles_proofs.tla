-------------------------- MODULE SessionFiles_proofs --------------------------
(***************************************************************************)
(* Proofs about SessionFiles, for every number of processes and ids.       *)
(*                                                                         *)
(* The lock on a file is held by the process that has it open and is past  *)
(* the wait for it.  While a process holds the lock on the file of an id,  *)
(* what has been stored there is among the changes that the process has,   *)
(* and the file is as long as when it was read, or empty.  That is why a   *)
(* truncation that is followed by a write loses nothing.                   *)
(***************************************************************************)
EXTENDS SessionFiles, FiniteSetTheorems, TLAPS

-----------------------------------------------------------------------------
(* The inductive invariant. *)

Detached == {"idle", "exists", "open", "reopen", "destroy"}
Waiting == {"lock", "relock"}
Informed == {"gc", "unlink", "active", "trunc", "write"}
Holding == Informed \cup {"read", "close"}

(* What a process has said it would do, it can do. *)
Prepared(p) ==
  /\ pc[p] \in Detached => fd[p] = 0
  /\ pc[p] \in Waiting \cup (Holding \ {"active"}) => fd[p] # 0
  /\ pc[p] # "idle" => id[p] \in Id /\ request[p] \in Request
  /\ pc[p] \in {"relock", "trunc", "write"} => lastkey[p] = id[p]
  /\ pc[p] = "unlink" => doomed[p] \in Id
  /\ pc[p] \in {"reopen", "relock", "trunc", "write"} => vallen[p] \in Size /\ request[p] \in had[p]

Locked(p) == \A f \in File : lock[f] = p <=> fd[p] = f /\ pc[p] \in Holding

(* An open file that has a name is the file of the id it was opened for. *)
Named(p) == \A i \in Id : fd[p] # 0 /\ dir[i] = fd[p] => i = lastkey[p]

Truncated(p) == pc[p] = "write" /\ Shrinks(p)

Known(p, i) ==
  /\ saved[i] \subseteq had[p]
  /\ file[fd[p]].size \in {0, st_size[p]}
  /\ Truncated(p) => file[fd[p]].size = 0

Knows(p) ==
  \A i \in Id \ spoiled :
    fd[p] # 0 /\ dir[i] = fd[p] /\ pc[p] \in Informed => Known(p, i)

Own(p) == Prepared(p) /\ Locked(p) /\ Named(p) /\ Knows(p)

Distinct == \A i, j \in Id : dir[i] # 0 /\ dir[i] = dir[j] => i = j
Empties == \A f \in File : file[f].size = 0 => file[f].changes = {}

Stored(i) ==
  /\ dir[i] = 0 => saved[i] = {}
  /\ dir[i] # 0 => /\ file[dir[i]].whole
                   /\ \/ saved[i] \subseteq file[dir[i]].changes
                      \/ \E p \in Process : lock[dir[i]] = p /\ Truncated(p)

Disk == Distinct /\ Empties /\ \A i \in Id \ spoiled : Stored(i)

Safe == TypeOK /\ (\A p \in Process : Own(p)) /\ Disk

-----------------------------------------------------------------------------
(* A file for a new name: there is one more file, with the number 0 for no   *)
(* file, than ids and processes.                                             *)
LEMMA FreeFile ==
  ASSUME TypeOK, NEW i \in Id, dir[i] = 0
  PROVE  \E f \in File : f \notin {dir[j] : j \in Id} \cup {fd[q] : q \in Process}
<1> DEFINE A == {dir[j] : j \in Id}
           B == {fd[q] : q \in Process}
           n == Cardinality(Id) + Cardinality(Process)
<1>1. /\ IsFiniteSet(Id) /\ IsFiniteSet(Process)
      /\ Cardinality(Id) \in Nat /\ Cardinality(Process) \in Nat
  BY SessionAssumption, FS_CardinalityType
<1>2. IsFiniteSet(A) /\ Cardinality(A) <= Cardinality(Id)
  <2>1. dir \in Surjection(Id, A)
    BY DEF TypeOK, Surjection
  <2>2. QED BY <2>1, <1>1, FS_Surjection
<1>3. IsFiniteSet(B) /\ Cardinality(B) <= Cardinality(Process)
  <2>1. fd \in Surjection(Process, B)
    BY DEF TypeOK, Surjection
  <2>2. QED BY <2>1, <1>1, FS_Surjection
<1>4. /\ IsFiniteSet(A \cup B)
      /\ Cardinality(A \cup B) = Cardinality(A) + Cardinality(B) - Cardinality(A \cap B)
  BY <1>2, <1>3, FS_Union
<1>5. /\ Cardinality(A) \in Nat /\ Cardinality(B) \in Nat /\ Cardinality(A \cap B) \in Nat
  <2>1. IsFiniteSet(A \cap B)
    BY <1>2, FS_Subset
  <2>2. QED BY <2>1, <1>2, <1>3, FS_CardinalityType
<1>6. Cardinality(A \cup B) \in Nat /\ Cardinality(A \cup B) <= n
  <2>1. Cardinality(A \cup B) \in Nat
    BY <1>4, FS_CardinalityType
  <2> HIDE DEF A, B
  <2>2. QED BY <2>1, <1>1, <1>2, <1>3, <1>4, <1>5
<1>7. SUFFICES ASSUME \A f \in File : f \in A \cup B PROVE FALSE
  OBVIOUS
<1>8. 0..n \subseteq A \cup B
  <2>1. 0 \in A
    BY DEF TypeOK
  <2>2. \A f \in 0..n : f = 0 \/ f \in 1..n
    BY <1>1
  <2>3. QED BY <2>1, <2>2, <1>7 DEF File
<1>9. Cardinality(0..n) = n + 1
  <2>1. 0 \in Int /\ n \in Int /\ ~(0 > n)
    BY <1>1
  <2>2. Cardinality(0..n) = IF 0 > n THEN 0 ELSE n - 0 + 1
    BY <2>1, FS_Interval, Zenon
  <2>3. QED BY <2>1, <2>2
<1>10. Cardinality(0..n) <= Cardinality(A \cup B)
  BY <1>4, <1>8, FS_Subset
<1>11. QED BY <1>1, <1>6, <1>9, <1>10

(* The file of a session that is opened for the first time. *)
LEMMA NewFile ==
  ASSUME TypeOK, NEW p \in Process, NEW i \in Id, Open(p, i), dir[i] = 0
  PROVE  \E f \in File :
           /\ \A j \in Id : dir[j] # f
           /\ \A q \in Process : fd[q] # f
           /\ fd' = [fd EXCEPT ![p] = f] /\ dir' = [dir EXCEPT ![i] = f]
           /\ file' = [file EXCEPT ![f] = EmptyFile]
           /\ saved' = [saved EXCEPT ![i] = {}] /\ spoiled' = spoiled \ {i}
<1> DEFINE inUse == {dir[j] : j \in Id} \cup {fd[q] : q \in Process}
           g == CHOOSE f \in File : f \notin inUse
<1>1. /\ fd' = [fd EXCEPT ![p] = g] /\ dir' = [dir EXCEPT ![i] = g]
      /\ file' = [file EXCEPT ![g] = EmptyFile]
      /\ saved' = [saved EXCEPT ![i] = {}] /\ spoiled' = spoiled \ {i}
  BY Zenon DEF Open
<1>2. \E f \in File : f \notin inUse
  BY FreeFile, Zenon
<1>3. g \in File /\ g \notin inUse
  BY <1>2, Zenon
<1>4. /\ \A j \in Id : dir[j] # g
      /\ \A q \in Process : fd[q] # g
  BY <1>3
<1> HIDE DEF g
<1>5. QED BY <1>1, <1>3, <1>4, Zenon

-----------------------------------------------------------------------------
(* Types.                                                                    *)
LEMMA OverTyped ==
  ASSUME TypeOK, NEW p \in Process, Over(p)
  PROVE  /\ fd' \in [Process -> {0} \cup File] /\ lock' \in [File -> Process \cup {NoProcess}]
         /\ pc' \in [Process -> {"idle", "exists", "open", "lock", "read", "gc", "unlink",
                  "active", "reopen", "relock", "trunc", "write", "close", "destroy"}]
         /\ id' \in [Process -> Id \cup {NoId}] /\ lastkey' \in [Process -> Id \cup {NoId}]
         /\ st_size' \in [Process -> {0} \cup Size] /\ vallen' \in [Process -> {0} \cup Size]
         /\ had' \in [Process -> SUBSET Request] /\ request' \in [Process -> {0} \cup Request]
         /\ doomed' \in [Process -> Id \cup {NoId}]
  BY DEF TypeOK, Over, Close, Unlocked, Go

LEMMA OpenTyped ==
  ASSUME TypeOK, NEW p \in Process, NEW i \in Id, Open(p, i)
  PROVE  /\ dir' \in [Id -> {0} \cup File]
         /\ file' \in [File -> [size : {0} \cup Size, changes : SUBSET Request,
                               whole : BOOLEAN, old : BOOLEAN]]
         /\ fd' \in [Process -> {0} \cup File] /\ lastkey' \in [Process -> Id \cup {NoId}]
         /\ spoiled' \subseteq Id /\ saved' \in [Id -> SUBSET Request]
<1>1. lastkey' \in [Process -> Id \cup {NoId}]
  BY DEF TypeOK, Open
<1>2. CASE dir[i] # 0
  BY <1>1, <1>2 DEF TypeOK, Open, disk
<1>3. CASE dir[i] = 0
  <2>1. PICK f \in File :
           /\ \A j \in Id : dir[j] # f
           /\ \A q \in Process : fd[q] # f
           /\ fd' = [fd EXCEPT ![p] = f] /\ dir' = [dir EXCEPT ![i] = f]
           /\ file' = [file EXCEPT ![f] = EmptyFile]
           /\ saved' = [saved EXCEPT ![i] = {}] /\ spoiled' = spoiled \ {i}
    BY <1>3, NewFile, Zenon
  <2>2. EmptyFile \in [size : {0} \cup Size, changes : SUBSET Request,
                       whole : BOOLEAN, old : BOOLEAN]
    BY DEF EmptyFile
  <2>3. QED BY <1>1, <2>1, <2>2 DEF TypeOK
<1>4. QED BY <1>2, <1>3

LEMMA TypeStep ==
  ASSUME TypeOK, \A p \in Process : Prepared(p), [Next]_vars
  PROVE  TypeOK'
<1> USE SessionAssumption DEF Go, disk, session, script, bounds, history
<1>1. CASE UNCHANGED vars
  BY <1>1 DEF TypeOK, vars
<1>2. ASSUME NEW i \in Id, Expire(i) PROVE TypeOK'
  <2>1. UNCHANGED <<dir, lock, pc, session, script, doomed, bounds, history>>
    BY <1>2 DEF Expire
  <2>2. file' = [file EXCEPT ![dir[i]].old = TRUE]
    BY <1>2 DEF Expire
  <2>3. QED BY <2>1, <2>2 DEF TypeOK
<1>3. ASSUME NEW p \in Process, NEW i \in Id, SessionStart(p, i) PROVE TypeOK'
  <2>1. request' \in [Process -> {0} \cup Request] /\ requests' \in 0..MaxRequests
    BY <1>3 DEF SessionStart, TypeOK, Request
  <2>2. QED BY <1>3, <2>1 DEF SessionStart, TypeOK
<1>4. ASSUME NEW p \in Process, KeyExists(p) PROVE TypeOK'
  BY <1>4, OverTyped DEF KeyExists, TypeOK
<1>5. ASSUME NEW p \in Process, OpenToRead(p) PROVE TypeOK'
  BY <1>5, OpenTyped DEF OpenToRead, TypeOK, Prepared
<1>6. ASSUME NEW p \in Process, LockToRead(p) PROVE TypeOK'
  BY <1>6 DEF LockToRead, Lock, TypeOK
<1>7. ASSUME NEW p \in Process, Read(p) PROVE TypeOK'
  <2>1. fd[p] \in File
    BY <1>7 DEF Read, TypeOK, Prepared, Holding, Informed
  <2>2. QED BY <1>7, <2>1 DEF Read, TypeOK
<1>8. ASSUME NEW p \in Process, NEW i \in Id, GcStat(p, i) PROVE TypeOK'
  BY <1>8 DEF GcStat, TypeOK
<1>9. ASSUME NEW p \in Process, GcUnlink(p) PROVE TypeOK'
  BY <1>9 DEF GcUnlink, Unlink, TypeOK, Prepared
<1>10. ASSUME NEW p \in Process, GcEnd(p) PROVE TypeOK'
  BY <1>10 DEF GcEnd, TypeOK
<1>11. ASSUME NEW p \in Process, NEW i \in Id, ChangeId(p, i) PROVE TypeOK'
  BY <1>11 DEF ChangeId, TypeOK
<1>12. ASSUME NEW p \in Process, Destroy(p) PROVE TypeOK'
  BY <1>12 DEF Destroy, Close, Unlocked, TypeOK
<1>13. ASSUME NEW p \in Process, DestroyUnlink(p) PROVE TypeOK'
  BY <1>13, OverTyped DEF DestroyUnlink, Unlink, TypeOK
<1>14. ASSUME NEW p \in Process, DestroyNothing(p) PROVE TypeOK'
  BY <1>14, OverTyped DEF DestroyNothing, TypeOK
<1>15. ASSUME NEW p \in Process, NEW n \in Size, WriteBegin(p, n) PROVE TypeOK'
  <2>1. had' \in [Process -> SUBSET Request]
    BY <1>15 DEF WriteBegin, TypeOK, Prepared
  <2>2. fd' \in [Process -> {0} \cup File] /\ lock' \in [File -> Process \cup {NoProcess}]
    BY <1>15 DEF WriteBegin, Close, Unlocked, TypeOK
  <2>3. QED BY <1>15, <2>1, <2>2 DEF WriteBegin, TypeOK
<1>16. ASSUME NEW p \in Process, OpenToWrite(p) PROVE TypeOK'
  BY <1>16, OpenTyped DEF OpenToWrite, TypeOK, Prepared
<1>17. ASSUME NEW p \in Process, LockToWrite(p) PROVE TypeOK'
  BY <1>17 DEF LockToWrite, Lock, TypeOK, Prepared
<1>18. ASSUME NEW p \in Process, Truncate(p) PROVE TypeOK'
  BY <1>18 DEF Truncate, TypeOK, EmptyFile
<1>19. ASSUME NEW p \in Process, Write(p) PROVE TypeOK'
  <2>1. fd[p] \in File /\ vallen[p] \in Size /\ had[p] \subseteq Request /\ request[p] \in Request
    BY <1>19 DEF Write, TypeOK, Prepared, Holding, Informed
  <2>2. NewSize(p, file[fd[p]].size) \in {0} \cup Size
    BY <2>1 DEF NewSize, TypeOK
  <2>3. (vallen[p] >= file[fd[p]].size) \in BOOLEAN
    OBVIOUS
  <2>4. file' \in [File -> [size : {0} \cup Size, changes : SUBSET Request,
                          whole : BOOLEAN, old : BOOLEAN]]
    BY <1>19, <2>1, <2>2, <2>3 DEF Write, TypeOK
  <2>5. saved' \in [Id -> SUBSET Request]
    BY <1>19, <2>1 DEF Write, TypeOK
  <2>6. QED BY <1>19, <2>4, <2>5 DEF Write, TypeOK
<1>20. ASSUME NEW p \in Process, WriteFails(p) PROVE TypeOK'
  BY <1>20 DEF WriteFails, Spoil, TypeOK, Prepared
<1>21. ASSUME NEW p \in Process, SessionClose(p) PROVE TypeOK'
  BY <1>21, OverTyped DEF SessionClose, TypeOK
<1>22. ASSUME NEW p \in Process, Die(p) PROVE TypeOK'
  BY <1>22, OverTyped DEF Die, Spoil, TypeOK, Prepared
<1>23. QED
  BY <1>1, <1>2, <1>3, <1>4, <1>5, <1>6, <1>7, <1>8, <1>9, <1>10, <1>11, <1>12, <1>13, <1>14,
     <1>15, <1>16, <1>17, <1>18, <1>19, <1>20, <1>21, <1>22
  DEF Next, Start, Gc, Script, End

-----------------------------------------------------------------------------
(* A step of one process leaves what another one has, and its lock; and what *)
(* it does to the files is not seen by another one that uses its own.        *)
OthersKept(p) ==
  \A q \in Process \ {p} :
    /\ pc'[q] = pc[q] /\ id'[q] = id[q] /\ fd'[q] = fd[q] /\ lastkey'[q] = lastkey[q]
    /\ st_size'[q] = st_size[q] /\ had'[q] = had[q] /\ request'[q] = request[q]
    /\ vallen'[q] = vallen[q] /\ doomed'[q] = doomed[q]
    /\ \A f \in File : lock'[f] = q <=> lock[f] = q

DiskKept(p) ==
  \A q \in Process \ {p}, i \in Id :
    fd[q] # 0 /\ dir'[i] = fd[q] =>
      /\ dir[i] = fd[q]
      /\ i \notin spoiled' /\ pc[q] \in Informed =>
           i \notin spoiled /\ saved'[i] \subseteq saved[i] /\ file'[fd[q]].size = file[fd[q]].size

LEMMA Others ==
  ASSUME NEW p \in Process, OthersKept(p), DiskKept(p), NEW q \in Process \ {p}, Own(q)
  PROVE  Own(q)'
<1>1. /\ pc'[q] = pc[q] /\ id'[q] = id[q] /\ fd'[q] = fd[q] /\ lastkey'[q] = lastkey[q]
      /\ st_size'[q] = st_size[q] /\ had'[q] = had[q] /\ request'[q] = request[q]
      /\ vallen'[q] = vallen[q] /\ doomed'[q] = doomed[q]
      /\ \A f \in File : lock'[f] = q <=> lock[f] = q
  BY DEF OthersKept
<1>2. Prepared(q)'
  BY <1>1 DEF Own, Prepared
<1>3. Locked(q)'
  BY <1>1 DEF Own, Locked
<1>4. Named(q)'
  BY <1>1 DEF Own, Named, DiskKept
<1>5. Knows(q)'
  <2> SUFFICES ASSUME NEW i \in Id \ spoiled', fd'[q] # 0, dir'[i] = fd'[q], pc'[q] \in Informed
               PROVE  Known(q, i)'
    BY DEF Knows
  <2>1. /\ dir[i] = fd[q] /\ i \notin spoiled /\ saved'[i] \subseteq saved[i]
        /\ file'[fd[q]].size = file[fd[q]].size
    BY <1>1 DEF DiskKept
  <2>2. Known(q, i)
    BY <1>1, <2>1 DEF Own, Knows
  <2>3. QED BY <1>1, <2>1, <2>2 DEF Known, Truncated, Shrinks
<1>6. QED BY <1>2, <1>3, <1>4, <1>5 DEF Own

(* A step that writes nothing and unlinks nothing, and after which a process *)
(* that has emptied a file still is about to write it, or the file counts as *)
(* spoiled.                                                                  *)
LEMMA Harmless ==
  ASSUME TypeOK, Disk, NEW p \in Process, OthersKept(p), UNCHANGED <<dir, file, saved>>,
         spoiled \subseteq spoiled',
         \A i \in Id \ spoiled' :
           dir[i] \in File /\ lock[dir[i]] = p /\ Truncated(p) =>
             lock'[dir[i]] = p /\ Truncated(p)'
  PROVE  Disk' /\ DiskKept(p)
<1>1. DiskKept(p)
  BY DEF DiskKept
<1>2. Distinct' /\ Empties'
  BY DEF Disk, Distinct, Empties
<1>3. ASSUME NEW i \in Id \ spoiled' PROVE Stored(i)'
  <2>1. Stored(i)
    BY DEF Disk
  <2>2. ASSUME dir[i] # 0, NEW q \in Process, lock[dir[i]] = q, Truncated(q), dir[i] \in File
        PROVE  lock'[dir[i]] = q /\ Truncated(q)'
    <3>1. CASE q = p
      BY <2>2, <3>1
    <3>2. CASE q # p
      BY <2>2, <3>2 DEF OthersKept, Truncated, Shrinks
    <3>3. QED BY <3>1, <3>2
  <2>3. dir[i] # 0 => dir[i] \in File
    BY DEF TypeOK
  <2>4. QED BY <2>1, <2>2, <2>3 DEF Stored
<1>4. QED BY <1>1, <1>2, <1>3 DEF Disk

(* The end of a request, and the death of a process. *)
LEMMA OverStep ==
  ASSUME TypeOK, NEW p \in Process, Over(p)
  PROVE  OthersKept(p) /\ Own(p)'
<1>1. /\ pc'[p] = "idle" /\ fd'[p] = 0 /\ \A f \in File : lock'[f] # p
  BY SessionAssumption DEF Over, Close, Unlocked, Go, TypeOK
<1>2. OthersKept(p)
  BY SessionAssumption DEF OthersKept, Over, Close, Unlocked, Go, TypeOK
<1>3. Own(p)'
  BY <1>1 DEF Own, Prepared, Locked, Named, Knows, Detached, Waiting, Holding, Informed
<1>4. QED BY <1>2, <1>3

LEMMA Finish ==
  ASSUME Safe, TypeOK', NEW p \in Process, OthersKept(p), DiskKept(p), Own(p)', Disk'
  PROVE  Safe'
<1>1. ASSUME NEW q \in Process PROVE Own(q)'
  <2>1. CASE q = p
    BY <2>1
  <2>2. CASE q # p
    <3>1. q \in Process \ {p} /\ Own(q)
      BY <2>2 DEF Safe
    <3>2. QED BY <3>1, Others, Zenon
  <2>3. QED BY <2>1, <2>2
<1>2. QED BY <1>1 DEF Safe

(* open(): the file has the name of the id, and no other one.                *)
LEMMA OpenStep ==
  ASSUME Safe, NEW p \in Process, NEW i \in Id, Open(p, i), OthersKept(p),
         pc[p] \in {"open", "reopen"}, lock' = lock
  PROVE  /\ DiskKept(p) /\ Disk' /\ Named(p)'
         /\ fd'[p] \in File /\ fd'[p] # 0 /\ lastkey'[p] = i /\ lock'[fd'[p]] # p
<1>0. TypeOK /\ Disk /\ ~Truncated(p) /\ fd[p] = 0 /\ \A f \in File : lock[f] # p /\ f # 0
  BY DEF Safe, Own, Prepared, Locked, Detached, Holding, Informed, Truncated, File
<1>1. lastkey'[p] = i
  BY <1>0 DEF Open, TypeOK
<1>2. CASE dir[i] # 0
  <2>1. fd' = [fd EXCEPT ![p] = dir[i]] /\ UNCHANGED <<dir, file, saved, spoiled>>
    BY <1>2 DEF Open, disk
  <2>2. DiskKept(p) /\ Disk'
    <3>1. spoiled \subseteq spoiled' /\ UNCHANGED <<dir, file, saved>>
      BY <2>1
    <3>2. QED BY <1>0, <3>1, Harmless
  <2>3. fd'[p] = dir[i] /\ dir[i] \in File
    BY <1>0, <1>2, <2>1 DEF TypeOK
  <2>4. Named(p)'
    BY <1>0, <1>1, <2>1, <2>3 DEF Named, Disk, Distinct
  <2>5. QED BY <1>0, <1>1, <2>2, <2>3, <2>4
<1>3. CASE dir[i] = 0
  <2>1. PICK f \in File :
           /\ \A j \in Id : dir[j] # f
           /\ \A q \in Process : fd[q] # f
           /\ fd' = [fd EXCEPT ![p] = f] /\ dir' = [dir EXCEPT ![i] = f]
           /\ file' = [file EXCEPT ![f] = EmptyFile]
           /\ saved' = [saved EXCEPT ![i] = {}] /\ spoiled' = spoiled \ {i}
    BY <1>0, <1>3, NewFile, Zenon
  <2>2. /\ fd'[p] = f /\ dir'[i] = f /\ saved'[i] = {}
        /\ file'[f].size = 0 /\ file'[f].changes = {} /\ file'[f].whole
        /\ \A g \in File : g # f => file'[g] = file[g]
        /\ \A j \in Id : j # i => dir'[j] = dir[j] /\ saved'[j] = saved[j]
    BY <1>0, <2>1 DEF TypeOK, EmptyFile
  <2>3. DiskKept(p)
    <3> SUFFICES ASSUME NEW q \in Process \ {p}, NEW j \in Id, fd[q] # 0, dir'[j] = fd[q]
                 PROVE  /\ dir[j] = fd[q]
                        /\ j \notin spoiled' => j \notin spoiled
                        /\ saved'[j] \subseteq saved[j] /\ file'[fd[q]].size = file[fd[q]].size
      BY DEF DiskKept
    <3>1. fd[q] \in File /\ fd[q] # f /\ j # i
      BY <1>0, <2>1, <2>2 DEF TypeOK
    <3>2. QED BY <2>1, <2>2, <3>1
  <2>4. Distinct'
    BY <1>0, <2>1, <2>2 DEF Disk, Distinct
  <2>5. Empties'
    BY <1>0, <2>2 DEF Disk, Empties
  <2>6. ASSUME NEW j \in Id \ spoiled' PROVE Stored(j)'
    <3>1. CASE j = i
      BY <1>0, <2>1, <2>2, <3>1 DEF Stored
    <3>2. CASE j # i
      <4>1. Stored(j) /\ dir'[j] = dir[j] /\ saved'[j] = saved[j]
        BY <1>0, <2>1, <2>2, <3>2 DEF Disk
      <4>2. dir[j] # 0 => dir[j] \in File /\ file'[dir[j]] = file[dir[j]]
        BY <1>0, <2>1, <2>2 DEF TypeOK
      <4>3. \A q \in Process : Truncated(q) => Truncated(q)'
        BY <1>0 DEF OthersKept, Truncated, Shrinks
      <4>4. QED BY <4>1, <4>2, <4>3 DEF Stored
    <3>3. QED BY <3>1, <3>2
  <2>7. Named(p)'
    BY <1>0, <1>1, <2>1, <2>2 DEF Named
  <2>8. QED BY <1>0, <1>1, <2>1, <2>2, <2>3, <2>4, <2>5, <2>6, <2>7 DEF Disk
<1>4. QED BY <1>2, <1>3

-----------------------------------------------------------------------------
(* session_start().                                                          *)
LEMMA StartStep ==
  ASSUME Safe, TypeOK', NEW p \in Process, Start(p) \/ \E i \in Id : SessionStart(p, i)
  PROVE  Safe'
<1> USE SessionAssumption
<1>0. TypeOK /\ Disk /\ Own(p) /\ Prepared(p) /\ Locked(p) /\ Named(p) /\ 0 \notin File
  BY DEF Safe, Own, File
<1> USE DEF Detached, Waiting, Holding, Informed
<1>1. ASSUME NEW i \in Id, SessionStart(p, i) PROVE Safe'
  <2>1. /\ UNCHANGED <<dir, file, lock, fd, saved, spoiled>>
        /\ pc[p] = "idle" /\ pc'[p] \in {"exists", "open"} /\ id'[p] = i /\ request'[p] \in Request
    BY <1>0, <1>1 DEF SessionStart, Go, TypeOK, Request, disk
  <2>2. OthersKept(p)
    BY <1>0, <1>1 DEF SessionStart, Go, TypeOK, OthersKept
  <2>3. Own(p)'
    BY <1>0, <2>1 DEF Own, Prepared, Locked, Named, Knows
  <2>4. DiskKept(p) /\ Disk'
    BY <1>0, <2>1, <2>2, Harmless DEF Truncated
  <2>5. QED BY <2>2, <2>3, <2>4, Finish
<1>2. CASE KeyExists(p)
  <2>1. /\ UNCHANGED <<dir, file, saved, spoiled>> /\ pc[p] = "exists"
        /\ \/ Over(p)
           \/ /\ UNCHANGED <<lock, fd, lastkey, st_size, had, request, vallen, doomed>>
              /\ pc' = [pc EXCEPT ![p] = "open"]
              /\ id' = id \/ \E i \in Id : id' = [id EXCEPT ![p] = i]
    BY <1>2 DEF KeyExists, Go, disk, session, script
  <2>2. CASE Over(p)
    <3>1. OthersKept(p) /\ Own(p)'
      BY <1>0, <2>2, OverStep
    <3>2. DiskKept(p) /\ Disk'
      BY <1>0, <2>1, <3>1, Harmless DEF Truncated
    <3>3. QED BY <3>1, <3>2, Finish
  <2>3. CASE /\ UNCHANGED <<lock, fd, lastkey, st_size, had, request, vallen, doomed>>
             /\ pc' = [pc EXCEPT ![p] = "open"]
             /\ id' = id \/ \E i \in Id : id' = [id EXCEPT ![p] = i]
    <3>1. OthersKept(p)
      BY <1>0, <2>3 DEF TypeOK, OthersKept
    <3>2. pc'[p] = "open" /\ id'[p] \in Id
      BY <1>0, <2>1, <2>3 DEF TypeOK, Prepared
    <3>3. Own(p)'
      BY <1>0, <2>1, <2>3, <3>2 DEF Own, Prepared, Locked, Named, Knows
    <3>4. DiskKept(p) /\ Disk'
      BY <1>0, <2>1, <3>1, Harmless DEF Truncated
    <3>5. QED BY <3>1, <3>3, <3>4, Finish
  <2>4. QED BY <2>1, <2>2, <2>3
<1>3. CASE OpenToRead(p)
  <2>1. /\ UNCHANGED <<lock, id, st_size, had, request, vallen, doomed>>
        /\ pc[p] = "open" /\ pc' = [pc EXCEPT ![p] = "lock"] /\ Open(p, id[p]) /\ id[p] \in Id
    BY <1>0, <1>3 DEF OpenToRead, Go, script, Prepared
  <2>2. fd' = [fd EXCEPT ![p] = fd'[p]] /\ lastkey' = [lastkey EXCEPT ![p] = id[p]]
    BY <1>0, <2>1 DEF Open, TypeOK
  <2>3. OthersKept(p)
    BY <1>0, <2>1, <2>2 DEF TypeOK, OthersKept
  <2>4. /\ DiskKept(p) /\ Disk' /\ Named(p)'
        /\ fd'[p] \in File /\ fd'[p] # 0 /\ lastkey'[p] = id[p] /\ lock'[fd'[p]] # p
    BY <2>1, <2>3, OpenStep
  <2>5. pc'[p] = "lock"
    BY <1>0, <2>1 DEF TypeOK
  <2>6. Own(p)'
    BY <1>0, <2>1, <2>4, <2>5 DEF Own, Prepared, Locked, Knows
  <2>7. QED BY <2>3, <2>4, <2>6, Finish
<1>4. CASE LockToRead(p)
  <2>1. /\ UNCHANGED <<dir, file, id, fd, lastkey, st_size, had, request, vallen, doomed, saved, spoiled>>
        /\ pc[p] = "lock" /\ pc' = [pc EXCEPT ![p] = "read"]
        /\ lock[fd[p]] = NoProcess /\ lock' = [lock EXCEPT ![fd[p]] = p]
    BY <1>4 DEF LockToRead, Lock, Granted, Go, disk, session, script, history
  <2>2. fd[p] \in File /\ pc'[p] = "read" /\ \A f \in File : lock'[f] = p <=> fd[p] = f
    BY <1>0, <2>1 DEF TypeOK, Prepared, Locked
  <2>3. OthersKept(p)
    BY <1>0, <2>1, <2>2 DEF TypeOK, OthersKept
  <2>4. Own(p)'
    BY <1>0, <2>1, <2>2 DEF Own, Prepared, Locked, Named, Knows
  <2>5. DiskKept(p) /\ Disk'
    BY <1>0, <2>1, <2>3, Harmless DEF Truncated
  <2>6. QED BY <2>3, <2>4, <2>5, Finish
<1>5. CASE Read(p)
  <2>1. /\ UNCHANGED <<dir, file, lock, id, fd, lastkey, request, vallen, doomed, saved, spoiled>>
        /\ pc[p] = "read" /\ pc' = [pc EXCEPT ![p] = "gc"]
        /\ st_size' = [st_size EXCEPT ![p] = file[fd[p]].size]
        /\ had' = [had EXCEPT ![p] = file[fd[p]].changes]
    BY <1>5 DEF Read, Go, disk, bounds, history
  <2>2. /\ fd[p] \in File /\ pc'[p] = "gc" /\ lock[fd[p]] = p
        /\ st_size'[p] = file[fd[p]].size /\ had'[p] = file[fd[p]].changes
    BY <1>0, <2>1 DEF TypeOK, Prepared, Locked
  <2>3. OthersKept(p)
    BY <1>0, <2>1, <2>2 DEF TypeOK, OthersKept
  <2>4. ASSUME NEW i \in Id \ spoiled, dir[i] = fd[p] PROVE saved[i] \subseteq file[fd[p]].changes
    <3>1. Stored(i)
      BY <1>0 DEF Disk
    <3>2. ~Truncated(p)
      BY <2>1 DEF Truncated
    <3>3. QED BY <1>0, <2>2, <2>4, <3>1, <3>2 DEF Stored
  <2>5. Own(p)'
    BY <1>0, <2>1, <2>2, <2>4 DEF Own, Prepared, Locked, Named, Knows, Known, Truncated
  <2>6. DiskKept(p) /\ Disk'
    BY <1>0, <2>1, <2>3, Harmless DEF Truncated
  <2>7. QED BY <2>3, <2>5, <2>6, Finish
<1>6. QED BY <1>1, <1>2, <1>3, <1>4, <1>5 DEF Start

-----------------------------------------------------------------------------
(* unlink(): nothing is stored for the id any more, or it is spoiled.        *)
LEMMA UnlinkStep ==
  ASSUME TypeOK, Disk, NEW p \in Process, OthersKept(p), ~Truncated(p), NEW d \in Id,
         dir' = [dir EXCEPT ![d] = 0], file' = file,
         \A i \in Id : i # d => saved'[i] = saved[i],
         spoiled \subseteq spoiled', d \in spoiled' \/ saved'[d] = {}
  PROVE  DiskKept(p) /\ Disk'
<1>1. dir'[d] = 0 /\ \A i \in Id : i # d => dir'[i] = dir[i]
  BY DEF TypeOK
<1>2. DiskKept(p)
  BY <1>1 DEF DiskKept
<1>3. Distinct' /\ Empties'
  BY <1>1 DEF Disk, Distinct, Empties
<1>4. ASSUME NEW i \in Id \ spoiled' PROVE Stored(i)'
  <2>1. CASE i = d
    BY <1>1, <2>1 DEF Stored
  <2>2. CASE i # d
    <3>1. Stored(i) /\ dir'[i] = dir[i] /\ saved'[i] = saved[i] /\ (dir[i] # 0 => dir[i] \in File)
      BY <1>1, <2>2 DEF Disk, TypeOK
    <3>2. ASSUME NEW q \in Process, NEW f \in File, lock[f] = q, Truncated(q)
          PROVE  lock'[f] = q /\ Truncated(q)'
      BY <3>2 DEF OthersKept, Truncated, Shrinks
    <3>3. QED BY <3>1, <3>2 DEF Stored
  <2>3. QED BY <2>1, <2>2
<1>5. QED BY <1>2, <1>3, <1>4 DEF Disk

(* The collection of old files.                                              *)
LEMMA GcStep ==
  ASSUME Safe, TypeOK', NEW p \in Process, Gc(p)
  PROVE  Safe'
<1> USE SessionAssumption
<1>0. TypeOK /\ Disk /\ Own(p) /\ Prepared(p) /\ Locked(p) /\ Named(p) /\ Knows(p)
  BY DEF Safe, Own
<1> USE DEF Detached, Waiting, Holding, Informed
<1>1. ASSUME NEW i \in Id, GcStat(p, i) PROVE Safe'
  <2>1. /\ UNCHANGED <<dir, file, lock, id, fd, lastkey, st_size, had, request, vallen, saved, spoiled>>
        /\ pc[p] = "gc" /\ pc' = [pc EXCEPT ![p] = "unlink"] /\ doomed' = [doomed EXCEPT ![p] = i]
    BY <1>1 DEF GcStat, Go, disk, session, script, history
  <2>2. pc'[p] = "unlink" /\ doomed'[p] = i
    BY <1>0, <2>1 DEF TypeOK
  <2>3. OthersKept(p)
    BY <1>0, <2>1 DEF TypeOK, OthersKept
  <2>4. Own(p)'
    BY <1>0, <2>1, <2>2 DEF Own, Prepared, Locked, Named, Knows, Known, Truncated
  <2>5. DiskKept(p) /\ Disk'
    BY <1>0, <2>1, <2>3, Harmless DEF Truncated
  <2>6. QED BY <2>3, <2>4, <2>5, Finish
<1>2. CASE GcUnlink(p)
  <2>1. /\ UNCHANGED <<file, lock, id, fd, lastkey, st_size, had, request, vallen>>
        /\ pc[p] = "unlink" /\ pc' = [pc EXCEPT ![p] = "gc"] /\ doomed' = [doomed EXCEPT ![p] = NoId]
        /\ doomed[p] \in Id /\ dir' = [dir EXCEPT ![doomed[p]] = 0]
    BY <1>0, <1>2 DEF GcUnlink, Unlink, Go, session, script, Prepared
  <2>2. /\ \A i \in Id : i # doomed[p] => saved'[i] = saved[i]
        /\ spoiled \subseteq spoiled' /\ (doomed[p] \in spoiled' \/ saved'[doomed[p]] = {})
    BY <1>0, <1>2, <2>1 DEF GcUnlink, TypeOK
  <2>3. OthersKept(p)
    BY <1>0, <2>1 DEF TypeOK, OthersKept
  <2>4. /\ pc'[p] = "gc"
        /\ \A i \in Id : fd[p] # 0 /\ dir'[i] = fd[p] => dir[i] = fd[p] /\ saved'[i] = saved[i]
    BY <1>0, <2>1, <2>2 DEF TypeOK
  <2>5. Own(p)'
    BY <1>0, <2>1, <2>2, <2>4 DEF Own, Prepared, Locked, Named, Knows, Known, Truncated
  <2>6. DiskKept(p) /\ Disk'
    BY <1>0, <2>1, <2>2, <2>3, UnlinkStep DEF Truncated
  <2>7. QED BY <2>3, <2>5, <2>6, Finish
<1>3. CASE GcEnd(p)
  <2>1. /\ UNCHANGED <<dir, file, lock, id, fd, lastkey, st_size, had, request, vallen, doomed,
                       saved, spoiled>>
        /\ pc[p] = "gc" /\ pc' = [pc EXCEPT ![p] = "active"]
    BY <1>3 DEF GcEnd, Go, disk, session, script, history
  <2>2. pc'[p] = "active"
    BY <1>0, <2>1 DEF TypeOK
  <2>3. OthersKept(p)
    BY <1>0, <2>1 DEF TypeOK, OthersKept
  <2>4. Own(p)'
    BY <1>0, <2>1, <2>2 DEF Own, Prepared, Locked, Named, Knows, Known, Truncated
  <2>5. DiskKept(p) /\ Disk'
    BY <1>0, <2>1, <2>3, Harmless DEF Truncated
  <2>6. QED BY <2>3, <2>4, <2>5, Finish
<1>4. QED BY <1>1, <1>2, <1>3 DEF Gc

-----------------------------------------------------------------------------
(* The script.                                                               *)
LEMMA CloseStep ==
  ASSUME TypeOK, NEW p \in Process, Close(p)
  PROVE  /\ fd' = [fd EXCEPT ![p] = 0] /\ fd'[p] = 0 /\ \A f \in File : lock'[f] # p
         /\ \A q \in Process \ {p}, f \in File : lock'[f] = q <=> lock[f] = q
  BY SessionAssumption DEF Close, Unlocked, TypeOK

LEMMA ScriptStep ==
  ASSUME Safe, TypeOK', NEW p \in Process, Script(p)
  PROVE  Safe'
<1> USE SessionAssumption
<1>0. TypeOK /\ Disk /\ Own(p) /\ Prepared(p) /\ Locked(p) /\ Named(p) /\ Knows(p) /\ 0 \notin File
  BY DEF Safe, Own, File
<1> USE DEF Detached, Waiting, Holding, Informed
<1>1. ASSUME NEW i \in Id, ChangeId(p, i) PROVE Safe'
  <2>1. /\ UNCHANGED <<dir, file, lock, pc, fd, lastkey, st_size, had, request, vallen, doomed,
                       saved, spoiled>>
        /\ pc[p] = "active" /\ id' = [id EXCEPT ![p] = i]
    BY <1>1 DEF ChangeId, disk, script
  <2>2. id'[p] = i
    BY <1>0, <2>1 DEF TypeOK
  <2>3. OthersKept(p)
    BY <1>0, <2>1 DEF TypeOK, OthersKept
  <2>4. Own(p)'
    BY <1>0, <2>1, <2>2 DEF Own, Prepared, Locked, Named, Knows, Known, Truncated
  <2>5. DiskKept(p) /\ Disk'
    BY <1>0, <2>1, <2>3, Harmless DEF Truncated
  <2>6. QED BY <2>3, <2>4, <2>5, Finish
<1>2. CASE Destroy(p)
  <2>1. /\ UNCHANGED <<dir, file, id, lastkey, st_size, had, request, vallen, doomed, saved, spoiled>>
        /\ pc[p] = "active" /\ pc' = [pc EXCEPT ![p] = "destroy"] /\ Close(p)
    BY <1>2 DEF Destroy, Go, disk, script, history
  <2>2. /\ fd' = [fd EXCEPT ![p] = 0] /\ fd'[p] = 0 /\ \A f \in File : lock'[f] # p
        /\ \A q \in Process \ {p}, f \in File : lock'[f] = q <=> lock[f] = q
    BY <1>0, <2>1, CloseStep
  <2>3. pc'[p] = "destroy"
    BY <1>0, <2>1 DEF TypeOK
  <2>4. OthersKept(p)
    BY <1>0, <2>1, <2>2 DEF TypeOK, OthersKept
  <2>5. Own(p)'
    BY <1>0, <2>1, <2>2, <2>3 DEF Own, Prepared, Locked, Named, Knows
  <2>6. DiskKept(p) /\ Disk'
    BY <1>0, <2>1, <2>4, Harmless DEF Truncated
  <2>7. QED BY <2>4, <2>5, <2>6, Finish
<1>3. CASE DestroyUnlink(p)
  <2>1. /\ UNCHANGED <<file, spoiled>> /\ pc[p] = "destroy" /\ id[p] \in Id
        /\ dir' = [dir EXCEPT ![id[p]] = 0] /\ saved' = [saved EXCEPT ![id[p]] = {}]
        /\ \/ Over(p)
           \/ /\ UNCHANGED <<lock, fd, lastkey, st_size, had, request, vallen, doomed>>
              /\ pc' = [pc EXCEPT ![p] = "active"] /\ \E i \in Id : id' = [id EXCEPT ![p] = i]
    BY <1>0, <1>3 DEF DestroyUnlink, Unlink, Go, script, Prepared
  <2>2. /\ \A i \in Id : i # id[p] => saved'[i] = saved[i]
        /\ spoiled \subseteq spoiled' /\ saved'[id[p]] = {} /\ ~Truncated(p) /\ fd[p] = 0
    BY <1>0, <2>1 DEF TypeOK, Truncated, Prepared
  <2>3. CASE Over(p)
    <3>1. OthersKept(p) /\ Own(p)'
      BY <1>0, <2>3, OverStep
    <3>2. DiskKept(p) /\ Disk'
      BY <1>0, <2>1, <2>2, <3>1, UnlinkStep
    <3>3. QED BY <3>1, <3>2, Finish
  <2>4. CASE /\ UNCHANGED <<lock, fd, lastkey, st_size, had, request, vallen, doomed>>
             /\ pc' = [pc EXCEPT ![p] = "active"] /\ \E i \in Id : id' = [id EXCEPT ![p] = i]
    <3>1. OthersKept(p)
      BY <1>0, <2>4 DEF TypeOK, OthersKept
    <3>2. pc'[p] = "active" /\ id'[p] \in Id
      BY <1>0, <2>4 DEF TypeOK
    <3>3. Own(p)'
      BY <1>0, <2>1, <2>2, <2>4, <3>2 DEF Own, Prepared, Locked, Named, Knows
    <3>4. DiskKept(p) /\ Disk'
      BY <1>0, <2>1, <2>2, <3>1, UnlinkStep
    <3>5. QED BY <3>1, <3>3, <3>4, Finish
  <2>5. QED BY <2>1, <2>3, <2>4
<1>4. CASE DestroyNothing(p)
  <2>1. UNCHANGED <<dir, file, saved, spoiled>> /\ ~Truncated(p) /\ Over(p)
    BY <1>4 DEF DestroyNothing, disk, history, Truncated
  <2>2. OthersKept(p) /\ Own(p)'
    BY <1>0, <2>1, OverStep
  <2>3. DiskKept(p) /\ Disk'
    BY <1>0, <2>1, <2>2, Harmless
  <2>4. QED BY <2>2, <2>3, Finish
<1>5. ASSUME NEW n \in Size, WriteBegin(p, n) PROVE Safe'
  <2>1. /\ UNCHANGED <<dir, file, id, lastkey, st_size, request, doomed, saved, spoiled>>
        /\ pc[p] = "active" /\ vallen' = [vallen EXCEPT ![p] = n]
        /\ had' = [had EXCEPT ![p] = @ \cup {request[p]}]
        /\ \/ /\ fd[p] # 0 /\ lastkey[p] = id[p] /\ UNCHANGED <<fd, lock>>
              /\ pc' = [pc EXCEPT ![p] = "trunc"]
           \/ /\ Close(p) /\ pc' = [pc EXCEPT ![p] = "reopen"]
    BY <1>5 DEF WriteBegin, SameFile, Go, disk, history
  <2>2. vallen'[p] \in Size /\ request'[p] \in had'[p] /\ had[p] \subseteq had'[p] /\ ~Truncated(p)
    BY <1>0, <2>1 DEF TypeOK, Truncated
  <2>3. CASE /\ fd[p] # 0 /\ lastkey[p] = id[p] /\ UNCHANGED <<fd, lock>>
             /\ pc' = [pc EXCEPT ![p] = "trunc"]
    <3>1. pc'[p] = "trunc"
      BY <1>0, <2>3 DEF TypeOK
    <3>2. OthersKept(p)
      BY <1>0, <2>1, <2>3 DEF TypeOK, OthersKept
    <3>3. Own(p)'
      BY <1>0, <2>1, <2>2, <2>3, <3>1 DEF Own, Prepared, Locked, Named, Knows, Known, Truncated
    <3>4. DiskKept(p) /\ Disk'
      BY <1>0, <2>1, <2>2, <3>2, Harmless
    <3>5. QED BY <3>2, <3>3, <3>4, Finish
  <2>4. CASE Close(p) /\ pc' = [pc EXCEPT ![p] = "reopen"]
    <3>1. /\ fd' = [fd EXCEPT ![p] = 0] /\ fd'[p] = 0 /\ \A f \in File : lock'[f] # p
          /\ \A q \in Process \ {p}, f \in File : lock'[f] = q <=> lock[f] = q
      BY <1>0, <2>4, CloseStep
    <3>2. pc'[p] = "reopen"
      BY <1>0, <2>4 DEF TypeOK
    <3>3. OthersKept(p)
      BY <1>0, <2>1, <2>4, <3>1 DEF TypeOK, OthersKept
    <3>4. Own(p)'
      BY <1>0, <2>1, <2>2, <3>1, <3>2 DEF Own, Prepared, Locked, Named, Knows
    <3>5. DiskKept(p) /\ Disk'
      BY <1>0, <2>1, <2>2, <3>3, Harmless
    <3>6. QED BY <3>3, <3>4, <3>5, Finish
  <2>5. QED BY <2>1, <2>3, <2>4
<1>6. QED BY <1>1, <1>2, <1>3, <1>4, <1>5 DEF Script

-----------------------------------------------------------------------------
(* The end of the request.                                                   *)
LEMMA OpenToWriteStep ==
  ASSUME Safe, TypeOK', NEW p \in Process, OpenToWrite(p) \/ LockToWrite(p)
  PROVE  Safe'
<1> USE SessionAssumption
<1>0. TypeOK /\ Disk /\ Own(p) /\ Prepared(p) /\ Locked(p) /\ Named(p) /\ Knows(p) /\ 0 \notin File
  BY DEF Safe, Own, File
<1> USE DEF Detached, Waiting, Holding, Informed
<1>1. CASE OpenToWrite(p)
  <2>1. /\ UNCHANGED <<lock, id, st_size, had, request, vallen, doomed>>
        /\ pc[p] = "reopen" /\ pc' = [pc EXCEPT ![p] = "relock"] /\ Open(p, id[p]) /\ id[p] \in Id
    BY <1>0, <1>1 DEF OpenToWrite, Go, script, Prepared
  <2>2. fd' = [fd EXCEPT ![p] = fd'[p]] /\ lastkey' = [lastkey EXCEPT ![p] = id[p]]
    BY <1>0, <2>1 DEF Open, TypeOK
  <2>3. OthersKept(p)
    BY <1>0, <2>1, <2>2 DEF TypeOK, OthersKept
  <2>4. /\ DiskKept(p) /\ Disk' /\ Named(p)'
        /\ fd'[p] \in File /\ fd'[p] # 0 /\ lastkey'[p] = id[p] /\ lock'[fd'[p]] # p
    BY <2>1, <2>3, OpenStep
  <2>5. pc'[p] = "relock"
    BY <1>0, <2>1 DEF TypeOK
  <2>6. Own(p)'
    BY <1>0, <2>1, <2>4, <2>5 DEF Own, Prepared, Locked, Knows
  <2>7. QED BY <2>3, <2>4, <2>6, Finish
<1>2. CASE LockToWrite(p)
  <2>1. /\ UNCHANGED <<dir, file, id, fd, lastkey, st_size, had, request, vallen, doomed, saved>>
        /\ pc[p] = "relock" /\ pc' = [pc EXCEPT ![p] = "trunc"]
        /\ lock[fd[p]] = NoProcess /\ lock' = [lock EXCEPT ![fd[p]] = p]
        /\ spoiled \subseteq spoiled'
        /\ dir[id[p]] = fd[p] /\ file[fd[p]].size # 0 => id[p] \in spoiled'
    BY <1>2 DEF LockToWrite, Lock, Granted, Go, disk, session, script
  <2>2. /\ fd[p] \in File /\ pc'[p] = "trunc" /\ lastkey[p] = id[p]
        /\ \A f \in File : lock'[f] = p <=> fd[p] = f
    BY <1>0, <2>1 DEF TypeOK, Prepared, Locked
  <2>3. OthersKept(p)
    BY <1>0, <2>1, <2>2 DEF TypeOK, OthersKept
  <2>4. ASSUME NEW i \in Id \ spoiled', dir[i] = fd[p]
        PROVE  file[fd[p]].size = 0 /\ saved[i] = {}
    <3>1. i = id[p] /\ i \notin spoiled
      BY <1>0, <2>1, <2>2, <2>4 DEF Named
    <3>2. file[fd[p]].size = 0 /\ file[fd[p]].changes = {}
      BY <1>0, <2>1, <2>2, <2>4, <3>1 DEF Disk, Empties
    <3>3. Stored(i)
      BY <1>0, <3>1 DEF Disk
    <3>4. QED BY <1>0, <2>1, <2>2, <2>4, <3>2, <3>3 DEF Stored
  <2>5. Own(p)'
    BY <1>0, <2>1, <2>2, <2>4 DEF Own, Prepared, Locked, Named, Knows, Known, Truncated
  <2>6. DiskKept(p) /\ Disk'
    BY <1>0, <2>1, <2>3, Harmless DEF Truncated
  <2>7. QED BY <2>3, <2>5, <2>6, Finish
<1>3. QED BY <1>1, <1>2

(* Nobody else sees a file change that a process has locked.                 *)
LEMMA LockedFile ==
  ASSUME Safe, NEW p \in Process, pc[p] \in {"trunc", "write"}, OthersKept(p),
         UNCHANGED <<dir, spoiled>>,
         \A f \in File : f # fd[p] => file'[f] = file[f],
         \A i \in Id : dir[i] # fd[p] => saved'[i] = saved[i]
  PROVE  DiskKept(p)
<1> SUFFICES ASSUME NEW q \in Process \ {p}, NEW i \in Id, fd[q] # 0, dir'[i] = fd[q],
                    pc[q] \in Informed
             PROVE  saved'[i] \subseteq saved[i] /\ file'[fd[q]].size = file[fd[q]].size
  BY DEF DiskKept
<1>1. fd[q] \in File /\ lock[fd[q]] = q
  BY DEF Safe, TypeOK, Own, Locked, Holding
<1>2. fd[q] # fd[p]
  BY <1>1 DEF Safe, Own, Locked, Holding, Informed
<1>3. QED BY <1>1, <1>2

LEMMA TruncateStep ==
  ASSUME Safe, TypeOK', NEW p \in Process, Truncate(p)
  PROVE  Safe'
<1> USE SessionAssumption
<1>0. TypeOK /\ Disk /\ Own(p) /\ Prepared(p) /\ Locked(p) /\ Named(p) /\ Knows(p) /\ 0 \notin File
  BY DEF Safe, Own, File
<1> USE DEF Detached, Waiting, Holding, Informed
<1>1. /\ UNCHANGED <<dir, lock, id, fd, lastkey, st_size, had, request, vallen, doomed, saved, spoiled>>
      /\ pc[p] = "trunc" /\ pc' = [pc EXCEPT ![p] = "write"]
      /\ file' = IF Shrinks(p) THEN [file EXCEPT ![fd[p]] = EmptyFile] ELSE file
  BY DEF Truncate, Go, session, script, bounds, history
<1>2. fd[p] \in File /\ pc'[p] = "write" /\ lock[fd[p]] = p
  BY <1>0, <1>1 DEF TypeOK, Prepared, Locked
<1>3. /\ Truncated(p)' <=> Shrinks(p)
      /\ Shrinks(p) => file'[fd[p]].size = 0 /\ file'[fd[p]].changes = {} /\ file'[fd[p]].whole
      /\ ~Shrinks(p) => file' = file
      /\ \A f \in File : f # fd[p] => file'[f] = file[f]
  BY <1>0, <1>1, <1>2 DEF Truncated, Shrinks, EmptyFile, TypeOK
<1>4. OthersKept(p)
  BY <1>0, <1>1 DEF TypeOK, OthersKept
<1>5. DiskKept(p)
  BY <1>1, <1>3, <1>4, LockedFile
<1>6. Own(p)'
  BY <1>0, <1>1, <1>2, <1>3 DEF Own, Prepared, Locked, Named, Knows, Known
<1>7. Distinct' /\ Empties'
  BY <1>0, <1>1, <1>2, <1>3 DEF Disk, Distinct, Empties
<1>8. ASSUME NEW i \in Id \ spoiled' PROVE Stored(i)'
  <2>1. Stored(i) /\ (dir[i] # 0 => dir[i] \in File)
    BY <1>0, <1>1 DEF Disk, TypeOK
  <2>2. CASE dir[i] = fd[p] /\ Shrinks(p)
    BY <1>0, <1>1, <1>2, <1>3, <2>2 DEF Stored
  <2>3. CASE ~(dir[i] = fd[p] /\ Shrinks(p))
    <3>1. dir[i] # 0 => file'[dir[i]] = file[dir[i]]
      BY <1>3, <2>1, <2>3
    <3>2. \A q \in Process : Truncated(q) => Truncated(q)'
      BY <1>1, <1>4 DEF Truncated, Shrinks, OthersKept
    <3>3. QED BY <1>1, <2>1, <3>1, <3>2 DEF Stored
  <2>4. QED BY <2>2, <2>3
<1>9. QED BY <1>4, <1>5, <1>6, <1>7, <1>8, Finish DEF Disk

LEMMA WriteStep ==
  ASSUME Safe, TypeOK', NEW p \in Process, Write(p)
  PROVE  Safe'
<1> USE SessionAssumption
<1>0. TypeOK /\ Disk /\ Own(p) /\ Prepared(p) /\ Locked(p) /\ Named(p) /\ Knows(p) /\ 0 \notin File
  BY DEF Safe, Own, File
<1> USE DEF Detached, Waiting, Holding, Informed
<1>1. /\ UNCHANGED <<dir, lock, id, fd, lastkey, st_size, had, request, vallen, doomed, spoiled>>
      /\ pc[p] = "write" /\ pc' = [pc EXCEPT ![p] = "close"]
      /\ file' = [file EXCEPT ![fd[p]] =
                    [size |-> NewSize(p, @.size),
                     changes |-> had[p], whole |-> vallen[p] >= @.size, old |-> FALSE]]
      /\ saved' = IF dir[id[p]] = fd[p] THEN [saved EXCEPT ![id[p]] = @ \cup {request[p]}] ELSE saved
  BY DEF Write, Go, session, script, bounds
<1>2. /\ fd[p] \in File /\ pc'[p] = "close" /\ lock[fd[p]] = p /\ lastkey[p] = id[p] /\ id[p] \in Id
      /\ vallen[p] \in Size /\ request[p] \in had[p] /\ file[fd[p]].size \in {0} \cup Size
      /\ st_size[p] \in {0} \cup Size
  BY <1>0, <1>1 DEF TypeOK, Prepared, Locked
<1>s. Size \subseteq Nat \ {0} /\ {0} \cup Size \subseteq Nat
  OBVIOUS
<1>n. vallen[p] \in Nat \ {0} /\ file[fd[p]].size \in Nat /\ st_size[p] \in Nat
  BY <1>2, <1>s, Zenon
<1>3. /\ file'[fd[p]].changes = had[p] /\ (file'[fd[p]].whole <=> vallen[p] >= file[fd[p]].size)
      /\ file'[fd[p]].size = NewSize(p, file[fd[p]].size)
      /\ \A f \in File : f # fd[p] => file'[f] = file[f]
  BY <1>0, <1>1, <1>2 DEF TypeOK
<1>4. \A i \in Id : dir[i] = fd[p] => i = id[p]
  BY <1>0, <1>2 DEF Named
<1>5. /\ \A i \in Id : dir[i] # fd[p] => saved'[i] = saved[i]
      /\ \A i \in Id : dir[i] = fd[p] => saved'[i] = saved[i] \cup {request[p]}
  BY <1>0, <1>1, <1>2, <1>4 DEF TypeOK
<1>6. OthersKept(p)
  BY <1>0, <1>1 DEF TypeOK, OthersKept
<1>7. DiskKept(p)
  BY <1>1, <1>3, <1>5, <1>6, LockedFile
<1>8. Own(p)'
  BY <1>0, <1>1, <1>2 DEF Own, Prepared, Locked, Named, Knows
<1>9. NewSize(p, file[fd[p]].size) # 0
  <2>1. CASE vallen[p] >= file[fd[p]].size
    BY <1>n, <2>1 DEF NewSize
  <2>2. CASE ~(vallen[p] >= file[fd[p]].size)
    BY <1>n, <2>2 DEF NewSize
  <2>3. QED BY <2>1, <2>2
<1>10. Distinct' /\ Empties'
  BY <1>0, <1>1, <1>2, <1>3, <1>9 DEF Disk, Distinct, Empties
<1>11. ASSUME NEW i \in Id \ spoiled' PROVE Stored(i)'
  <2>1. Stored(i) /\ (dir[i] # 0 => dir[i] \in File)
    BY <1>0, <1>1 DEF Disk, TypeOK
  <2>2. CASE dir[i] = fd[p]
    <3>1. Known(p, i)
      BY <1>0, <1>1, <1>2, <2>2 DEF Knows
    <3>2. vallen[p] >= file[fd[p]].size
      <4>1. /\ file[fd[p]].size \in {0, st_size[p]}
            /\ vallen[p] < st_size[p] => file[fd[p]].size = 0
        BY <1>1, <3>1 DEF Known, Truncated, Shrinks
      <4>2. QED BY <1>n, <4>1
    <3>3. saved'[i] \subseteq had[p]
      BY <1>2, <1>5, <2>2, <3>1 DEF Known
    <3>4. QED BY <1>0, <1>1, <1>2, <1>3, <2>2, <3>2, <3>3 DEF Stored
  <2>3. CASE dir[i] # fd[p]
    <3>1. (dir[i] # 0 => file'[dir[i]] = file[dir[i]]) /\ saved'[i] = saved[i]
      BY <1>3, <1>5, <2>1, <2>3
    <3>2. \A q \in Process, f \in File :
            f # fd[p] /\ lock[f] = q /\ Truncated(q) => Truncated(q)'
      BY <1>0, <1>6 DEF Truncated, Shrinks, OthersKept, Locked
    <3>3. QED BY <1>1, <2>1, <2>3, <3>1, <3>2 DEF Stored
  <2>4. QED BY <2>2, <2>3
<1>12. QED BY <1>6, <1>7, <1>8, <1>10, <1>11, Finish DEF Disk

(* A file that has been emptied counts as spoiled when its writer fails.     *)
LEMMA SpoilStep ==
  ASSUME Safe, NEW p \in Process, OthersKept(p), UNCHANGED <<dir, file, saved>>, Spoil(p)
  PROVE  Disk' /\ DiskKept(p)
<1>0. TypeOK /\ Disk /\ Prepared(p) /\ Locked(p) /\ Named(p) /\ 0 \notin File
  BY DEF Safe, Own, File
<1>1. spoiled \subseteq spoiled'
  BY DEF Spoil
<1>2. ASSUME NEW i \in Id \ spoiled', dir[i] \in File, lock[dir[i]] = p, Truncated(p) PROVE FALSE
  <2>1. fd[p] = dir[i] /\ fd[p] # 0
    BY <1>0, <1>2 DEF Locked
  <2>2. i = id[p]
    BY <1>0, <1>2, <2>1 DEF Named, Prepared, Truncated
  <2>3. QED BY <1>2, <2>1, <2>2 DEF Spoil, Emptied, Truncated
<1>3. QED BY <1>0, <1>1, <1>2, Harmless

LEMMA LeaveStep ==
  ASSUME Safe, TypeOK', NEW p \in Process, WriteFails(p) \/ SessionClose(p) \/ Die(p)
  PROVE  Safe'
<1> USE SessionAssumption
<1>0. TypeOK /\ Disk /\ Own(p) /\ Prepared(p) /\ Locked(p) /\ Named(p)
  BY DEF Safe, Own
<1>1. CASE WriteFails(p)
  <2>1. /\ UNCHANGED <<dir, file, lock, id, fd, lastkey, st_size, had, request, vallen, doomed, saved>>
        /\ pc[p] = "write" /\ pc' = [pc EXCEPT ![p] = "close"] /\ Spoil(p)
    BY <1>1 DEF WriteFails, Go, disk, session, script
  <2>2. pc'[p] = "close"
    BY <1>0, <2>1 DEF TypeOK
  <2>3. OthersKept(p)
    BY <1>0, <2>1 DEF TypeOK, OthersKept
  <2>4. Own(p)'
    BY <1>0, <2>1, <2>2
    DEF Own, Prepared, Locked, Named, Knows, Detached, Waiting, Holding, Informed
  <2>5. DiskKept(p) /\ Disk'
    BY <2>1, <2>3, SpoilStep
  <2>6. QED BY <2>3, <2>4, <2>5, Finish
<1>2. CASE SessionClose(p)
  <2>1. UNCHANGED <<dir, file, saved, spoiled>> /\ ~Truncated(p) /\ Over(p)
    BY <1>2 DEF SessionClose, disk, history, Truncated
  <2>2. OthersKept(p) /\ Own(p)'
    BY <1>0, <2>1, OverStep
  <2>3. DiskKept(p) /\ Disk'
    BY <1>0, <2>1, <2>2, Harmless
  <2>4. QED BY <2>2, <2>3, Finish
<1>3. CASE Die(p)
  <2>1. UNCHANGED <<dir, file, saved>> /\ Spoil(p) /\ Over(p)
    BY <1>3 DEF Die, disk
  <2>2. OthersKept(p) /\ Own(p)'
    BY <1>0, <2>1, OverStep
  <2>3. DiskKept(p) /\ Disk'
    BY <2>1, <2>2, SpoilStep
  <2>4. QED BY <2>2, <2>3, Finish
<1>4. QED BY <1>1, <1>2, <1>3

-----------------------------------------------------------------------------
(* Time passes, or nothing happens.                                          *)
LEMMA OldFiles ==
  ASSUME Safe, TypeOK',
         UNCHANGED <<dir, lock, pc, id, fd, lastkey, st_size, had, request, vallen, doomed,
                     saved, spoiled>>,
         \A f \in File : /\ file'[f].size = file[f].size /\ file'[f].changes = file[f].changes
                         /\ file'[f].whole = file[f].whole
  PROVE  Safe'
<1>1. ASSUME NEW p \in Process PROVE Own(p)'
  <2>1. Own(p) /\ (fd[p] # 0 => fd[p] \in File)
    BY DEF Safe, TypeOK
  <2>2. Prepared(p)' /\ Locked(p)' /\ Named(p)'
    BY <2>1 DEF Own, Prepared, Locked, Named
  <2>3. Knows(p)'
    BY <2>1 DEF Own, Knows, Known, Truncated, Shrinks
  <2>4. QED BY <2>2, <2>3 DEF Own
<1>2. Distinct' /\ Empties'
  BY DEF Safe, Disk, Distinct, Empties
<1>3. ASSUME NEW i \in Id \ spoiled' PROVE Stored(i)'
  <2>1. Stored(i) /\ (dir[i] # 0 => dir[i] \in File)
    BY DEF Safe, Disk, TypeOK
  <2>2. \A p \in Process : Truncated(p)' <=> Truncated(p)
    BY DEF Truncated, Shrinks
  <2>3. QED BY <2>1, <2>2 DEF Stored
<1>4. QED BY <1>1, <1>2, <1>3 DEF Safe, Disk

LEMMA SafeInit ==
  ASSUME Init PROVE Safe
<1> USE SessionAssumption
<1>1. TypeOK
  BY DEF Init, TypeOK, EmptyFile
<1>2. ASSUME NEW p \in Process PROVE Own(p)
  BY DEF Init, Own, Prepared, Locked, Named, Knows, Detached, Waiting, Holding, Informed
<1>3. Disk
  BY DEF Init, Disk, Distinct, Empties, Stored, EmptyFile
<1>4. QED BY <1>1, <1>2, <1>3 DEF Safe

LEMMA SafeStep ==
  ASSUME Safe, [Next]_vars PROVE Safe'
<1>1. TypeOK'
  BY TypeStep DEF Safe, Own
<1>2. CASE UNCHANGED vars
  BY <1>1, <1>2, OldFiles DEF vars, disk, session, script, history
<1>3. ASSUME NEW i \in Id, Expire(i) PROVE Safe'
  <2>1. /\ UNCHANGED <<dir, lock, pc, id, fd, lastkey, st_size, had, request, vallen, doomed,
                       saved, spoiled>>
        /\ file' = [file EXCEPT ![dir[i]].old = TRUE]
    BY <1>3 DEF Expire, session, script, history
  <2>2. \A f \in File : /\ file'[f].size = file[f].size /\ file'[f].changes = file[f].changes
                        /\ file'[f].whole = file[f].whole
    BY <2>1 DEF Safe, TypeOK
  <2>3. QED BY <1>1, <2>1, <2>2, OldFiles
<1>4. ASSUME NEW p \in Process,
             \/ \E i \in Id : SessionStart(p, i)
             \/ Start(p) \/ Gc(p) \/ Script(p) \/ End(p) \/ Die(p)
      PROVE  Safe'
  <2>1. CASE Start(p) \/ \E i \in Id : SessionStart(p, i)
    BY <1>1, <2>1, StartStep
  <2>2. CASE Gc(p)
    BY <1>1, <2>2, GcStep
  <2>3. CASE Script(p)
    BY <1>1, <2>3, ScriptStep
  <2>4. CASE End(p) \/ Die(p)
    BY <1>1, <2>4, OpenToWriteStep, TruncateStep, WriteStep, LeaveStep DEF End
  <2>5. QED BY <1>4, <2>1, <2>2, <2>3, <2>4
<1>5. QED BY <1>2, <1>3, <1>4 DEF Next

(* The inductive invariant, with the types, holds in every state.            *)
THEOREM LockedFilesAreKnown == Spec => []Safe
<1>1. Init => Safe
  BY SafeInit
<1>2. Safe /\ [Next]_vars => Safe'
  BY SafeStep
<1>3. QED BY <1>1, <1>2, PTL DEF Spec

(* The variables have their types: no process uses a file it has not opened. *)
THEOREM TypeCorrect == Spec => []TypeOK
<1>1. Safe => TypeOK
  BY DEF Safe
<1>2. QED BY <1>1, LockedFilesAreKnown, PTL

(* Whatever the processes, ids and lengths are: an update that has been      *)
(* stored is lost only if the session was destroyed, or collected when it    *)
(* was old, or if one of the three things has happened that "spoiled" names. *)
THEOREM NoUpdateIsLost == Spec => []UpdatesSurvive
<1>1. Safe => UpdatesSurvive
  BY DEF Safe, Disk, Stored, UpdatesSurvive, Truncated
<1>2. QED BY <1>1, LockedFilesAreKnown, PTL

(* The file of an id that is not spoiled never has the end of older and      *)
(* longer contents.                                                          *)
THEOREM NoMixedContents == Spec => []ContentsAreWhole
<1>1. Safe => ContentsAreWhole
  BY DEF Safe, Disk, Stored, ContentsAreWhole
<1>2. QED BY <1>1, LockedFilesAreKnown, PTL

(* The lock excludes: of the processes that have read a file, or are about   *)
(* to write it, only one at a time has it open.                              *)
OneProcessPerFile ==
  \A p, q \in Process :
    pc[p] \in Holding /\ pc[q] \in Holding /\ fd[p] # 0 /\ fd[p] = fd[q] => p = q

THEOREM LocksExclude == Spec => []OneProcessPerFile
<1>1. ASSUME Safe PROVE OneProcessPerFile
  <2> SUFFICES ASSUME NEW p \in Process, NEW q \in Process,
                      pc[p] \in Holding, pc[q] \in Holding, fd[p] # 0, fd[p] = fd[q]
               PROVE  p = q
    BY DEF OneProcessPerFile
  <2>1. fd[p] \in File /\ Locked(p) /\ Locked(q)
    BY <1>1 DEF Safe, TypeOK, Own
  <2>2. lock[fd[p]] = p /\ lock[fd[p]] = q
    BY <2>1 DEF Locked
  <2>3. QED BY <2>2
<1>2. QED BY <1>1, LockedFilesAreKnown, PTL
=============================================================================
