----------------------------- MODULE SessionFiles -----------------------------
(***************************************************************************)
(* Sessions in files (session/mod_files.c as session/session.c calls it).  *)
(*                                                                         *)
(* A request opens and locks the file of its session, reads it, runs the   *)
(* script, writes the variables back and closes the file, which releases   *)
(* the lock.  Other requests wait for the lock on the file they have       *)
(* opened, which need not be the file of the session any more when they    *)
(* get it.  A system call is a step.  What is stored is abstracted to its  *)
(* length and to the set of requests whose changes it has.                 *)
(***************************************************************************)
EXTENDS Naturals, FiniteSets

CONSTANTS
  Process, NoProcess,
  Id, NoId,            \* session ids
  Size,                \* lengths of what is stored
  MaxRequests,         \* bound: requests, numbered from 1
  MaxCollections,      \* bound: files that are collected
  MaxMishaps           \* bound: processes that die, and writes that fail

ASSUME SessionAssumption ==
  /\ NoProcess \notin Process /\ IsFiniteSet(Process)
  /\ NoId \notin Id /\ IsFiniteSet(Id)
  /\ Size \subseteq Nat \ {0}
  /\ MaxRequests \in Nat /\ MaxCollections \in Nat /\ MaxMishaps \in Nat

VARIABLES
  dir,          \* the file of each session id, 0 if there is none
  file,         \* the contents of the files, and whether they are old
  lock,         \* flock(): who holds the lock of a file
  pc,
  id, fd, lastkey, st_size,   \* PS(id) and the ps_files of a process
  had,          \* $_SESSION: the requests whose changes it has
  request,      \* the number of the request
  vallen,       \* the length of what is being written
  doomed,       \* the id whose file a collection is about to delete
  requests, collections, mishaps,
  saved,        \* history: requests that have stored their changes in the file of an id
  spoiled       \* history: ids to whose file something has happened (see below)

disk == <<dir, file>>
session == <<id, fd, lastkey, st_size>>
script == <<had, request, vallen>>
bounds == <<requests, collections, mishaps>>
history == <<saved, spoiled>>
vars == <<disk, lock, pc, session, script, doomed, bounds, history>>

(* As many files as ids and processes can refer to. *)
File == 1..(Cardinality(Id) + Cardinality(Process))
Request == 1..MaxRequests
EmptyFile == [size |-> 0, changes |-> {}, whole |-> TRUE, old |-> FALSE]

TypeOK ==
  /\ dir \in [Id -> {0} \cup File]
  /\ file \in [File -> [size : {0} \cup Size, changes : SUBSET Request,
                        whole : BOOLEAN, old : BOOLEAN]]
  /\ lock \in [File -> Process \cup {NoProcess}]
  /\ pc \in [Process -> {"idle", "exists", "open", "lock", "read", "gc", "unlink", "active",
                         "reopen", "relock", "trunc", "write", "close", "destroy"}]
  /\ id \in [Process -> Id \cup {NoId}] /\ lastkey \in [Process -> Id \cup {NoId}]
  /\ fd \in [Process -> {0} \cup File]
  /\ st_size \in [Process -> {0} \cup Size] /\ vallen \in [Process -> {0} \cup Size]
  /\ had \in [Process -> SUBSET Request] /\ request \in [Process -> {0} \cup Request]
  /\ doomed \in [Process -> Id \cup {NoId}]
  /\ requests \in 0..MaxRequests /\ collections \in 0..MaxCollections
  /\ mishaps \in 0..MaxMishaps
  /\ spoiled \subseteq Id /\ saved \in [Id -> SUBSET Request]

Init ==
  /\ dir = [i \in Id |-> 0]
  /\ file = [f \in File |-> EmptyFile]
  /\ lock = [f \in File |-> NoProcess]
  /\ pc = [p \in Process |-> "idle"]
  /\ id = [p \in Process |-> NoId] /\ lastkey = [p \in Process |-> NoId]
  /\ fd = [p \in Process |-> 0] /\ st_size = [p \in Process |-> 0]
  /\ had = [p \in Process |-> {}] /\ request = [p \in Process |-> 0]
  /\ vallen = [p \in Process |-> 0] /\ doomed = [p \in Process |-> NoId]
  /\ requests = 0 /\ collections = 0 /\ mishaps = 0
  /\ saved = [i \in Id |-> {}] /\ spoiled = {}

Go(p, to) == pc' = [pc EXCEPT ![p] = to]

-----------------------------------------------------------------------------
(* What the kernel does. *)

(* open(O_CREAT): the file of the session, or a new one. *)
Open(p, i) ==
  /\ IF dir[i] # 0
     THEN fd' = [fd EXCEPT ![p] = dir[i]] /\ UNCHANGED <<disk, saved, spoiled>>
     ELSE LET inUse == {dir[j] : j \in Id} \cup {fd[q] : q \in Process}
              f == CHOOSE f \in File : f \notin inUse
          IN /\ fd' = [fd EXCEPT ![p] = f]
             /\ dir' = [dir EXCEPT ![i] = f]
             /\ file' = [file EXCEPT ![f] = EmptyFile]
             /\ saved' = [saved EXCEPT ![i] = {}]
             /\ spoiled' = spoiled \ {i}
  /\ lastkey' = [lastkey EXCEPT ![p] = i]

(* Mut: flock() fails, which is not noticed. *)
MutGranted(p) == fd[p] # 0
Granted(p) == lock[fd[p]] = NoProcess
Lock(p) ==
  /\ Granted(p)
  /\ lock' = [lock EXCEPT ![fd[p]] = p]

(* Mut: the lock stays with the file. *)
MutUnlocked(p) == lock
Unlocked(p) == [f \in File |-> IF lock[f] = p THEN NoProcess ELSE lock[f]]
Close(p) ==
  /\ fd' = [fd EXCEPT ![p] = 0]
  /\ lock' = Unlocked(p)

Unlink(i) == dir' = [dir EXCEPT ![i] = 0]

(* The request is over, or the process has died: its file is closed. *)
Over(p) ==
  /\ Close(p)
  /\ Go(p, "idle")
  /\ id' = [id EXCEPT ![p] = NoId] /\ lastkey' = [lastkey EXCEPT ![p] = NoId]
  /\ st_size' = [st_size EXCEPT ![p] = 0] /\ had' = [had EXCEPT ![p] = {}]
  /\ request' = [request EXCEPT ![p] = 0] /\ vallen' = [vallen EXCEPT ![p] = 0]
  /\ doomed' = [doomed EXCEPT ![p] = NoId]

-----------------------------------------------------------------------------
(* session_start(): the client sends an id; scripts choose the strict mode. *)
SessionStart(p, i) ==
  /\ pc[p] = "idle" /\ requests < MaxRequests
  /\ requests' = requests + 1
  /\ request' = [request EXCEPT ![p] = requests + 1]
  /\ id' = [id EXCEPT ![p] = i]
  /\ Go(p, "exists") \/ Go(p, "open")
  /\ UNCHANGED <<disk, lock, fd, lastkey, st_size, had, vallen, doomed, collections, mishaps,
                 saved, spoiled>>

(* PS_CREATE_SID_FUNC: an id without a file, and that nobody else uses. *)
Fresh(i) == dir[i] = 0 /\ \A q \in Process : id[q] # i

(* In strict mode only for an existing file, or else under a new id (bound:  *)
(* if there is none, there is no session).                                   *)
KeyExists(p) ==
  /\ pc[p] = "exists"
  /\ \/ /\ dir[id[p]] # 0
        /\ Go(p, "open") /\ UNCHANGED <<lock, session, script, doomed>>
     \/ /\ dir[id[p]] = 0
        /\ \E i \in Id : Fresh(i) /\ id' = [id EXCEPT ![p] = i]
        /\ Go(p, "open") /\ UNCHANGED <<lock, fd, lastkey, st_size, script, doomed>>
     \/ /\ dir[id[p]] = 0 /\ \A i \in Id : ~Fresh(i)
        /\ Over(p)
  /\ UNCHANGED <<disk, bounds, saved, spoiled>>

OpenToRead(p) ==
  /\ pc[p] = "open"
  /\ Open(p, id[p])
  /\ Go(p, "lock")
  /\ UNCHANGED <<lock, id, st_size, script, doomed, bounds>>

LockToRead(p) ==
  /\ pc[p] = "lock"
  /\ Lock(p)
  /\ Go(p, "read")
  /\ UNCHANGED <<disk, session, script, doomed, bounds, history>>

Read(p) ==
  /\ pc[p] = "read"
  /\ st_size' = [st_size EXCEPT ![p] = file[fd[p]].size]
  /\ had' = [had EXCEPT ![p] = file[fd[p]].changes]
  /\ Go(p, "gc")
  /\ UNCHANGED <<disk, lock, id, fd, lastkey, request, vallen, doomed, bounds, history>>

-----------------------------------------------------------------------------
(* ps_files_cleanup_dir, in some requests, after the session has been read: *)
(* stat() of a file, whose modification may be long ago ...                 *)
GcStat(p, i) ==
  /\ pc[p] = "gc" /\ collections < MaxCollections
  /\ dir[i] # 0 /\ file[dir[i]].old
  /\ doomed' = [doomed EXCEPT ![p] = i]
  /\ collections' = collections + 1
  /\ Go(p, "unlink")
  /\ UNCHANGED <<disk, lock, session, script, requests, mishaps, history>>

(* ... and unlink(), of the file that has the name by then. *)
GcUnlink(p) ==
  /\ pc[p] = "unlink"
  /\ LET i == doomed[p]
     IN /\ Unlink(i)
        /\ IF dir[i] # 0 /\ file[dir[i]].old
           THEN saved' = [saved EXCEPT ![i] = {}] /\ UNCHANGED spoiled
           ELSE spoiled' = spoiled \cup {i} /\ UNCHANGED saved
  /\ doomed' = [doomed EXCEPT ![p] = NoId]
  /\ Go(p, "gc")
  /\ UNCHANGED <<file, lock, session, script, bounds>>

GcEnd(p) ==
  /\ pc[p] = "gc"
  /\ Go(p, "active")
  /\ UNCHANGED <<disk, lock, session, script, doomed, bounds, history>>

-----------------------------------------------------------------------------
(* session_regenerate_id(FALSE), and session_id() with the id of another *)
(* session: only PS(id) changes.                                         *)
ChangeId(p, i) ==
  /\ pc[p] = "active" /\ i # id[p]
  /\ id' = [id EXCEPT ![p] = i]
  /\ UNCHANGED <<disk, lock, pc, fd, lastkey, st_size, script, doomed, bounds, saved, spoiled>>

(* session_destroy() and session_regenerate_id(TRUE): the file, if it is    *)
(* open, is closed ...                                                       *)
Destroy(p) ==
  /\ pc[p] = "active" /\ fd[p] # 0
  /\ Close(p)
  /\ Go(p, "destroy")
  /\ UNCHANGED <<disk, id, lastkey, st_size, script, doomed, bounds, history>>

(* ... and then deleted.  The request has no session any more, or goes on    *)
(* with its variables under a new id.                                        *)
DestroyUnlink(p) ==
  /\ pc[p] = "destroy"
  /\ Unlink(id[p])
  /\ saved' = [saved EXCEPT ![id[p]] = {}]
  /\ \/ Over(p)
     \/ /\ \E i \in Id : Fresh(i) /\ id' = [id EXCEPT ![p] = i]
        /\ Go(p, "active")
        /\ UNCHANGED <<lock, fd, lastkey, st_size, script, doomed>>
  /\ UNCHANGED <<file, bounds, spoiled>>

DestroyNothing(p) ==
  /\ pc[p] = "active" /\ fd[p] = 0
  /\ Over(p)
  /\ UNCHANGED <<disk, bounds, history>>

-----------------------------------------------------------------------------
(* php_session_flush, at the end of the request or in session_write_close(): *)
(* the script's variables, with its own changes, are n bytes long.           *)
SameFile(p) == fd[p] # 0 /\ lastkey[p] = id[p]

WriteBegin(p, n) ==
  /\ pc[p] = "active"
  /\ vallen' = [vallen EXCEPT ![p] = n]
  /\ had' = [had EXCEPT ![p] = @ \cup {request[p]}]
  /\ IF SameFile(p)
     THEN Go(p, "trunc") /\ UNCHANGED <<fd, lock>>
     ELSE Go(p, "reopen") /\ Close(p)
  /\ UNCHANGED <<disk, id, lastkey, st_size, request, doomed, bounds, history>>

OpenToWrite(p) ==
  /\ pc[p] = "reopen"
  /\ Open(p, id[p])
  /\ Go(p, "relock")
  /\ UNCHANGED <<lock, id, st_size, script, doomed, bounds>>

(* What somebody else has stored in the file of the new id is not read. *)
LockToWrite(p) ==
  /\ pc[p] = "relock"
  /\ Lock(p)
  /\ spoiled' = IF dir[id[p]] = fd[p] /\ file[fd[p]].size # 0 THEN spoiled \cup {id[p]} ELSE spoiled
  /\ Go(p, "trunc")
  /\ UNCHANGED <<disk, session, script, doomed, bounds, saved>>

(* Mut: the test is the wrong way round. *)
MutShrinks(p) == vallen[p] > st_size[p]
Shrinks(p) == vallen[p] < st_size[p]

(* "Truncate file if the amount of new data is smaller ..." *)
Truncate(p) ==
  /\ pc[p] = "trunc"
  /\ file' = IF Shrinks(p) THEN [file EXCEPT ![fd[p]] = EmptyFile] ELSE file
  /\ Go(p, "write")
  /\ UNCHANGED <<dir, lock, session, script, doomed, bounds, history>>

(* Mut: the data are written after what is there. *)
MutNewSize(p, size) == size + vallen[p]
NewSize(p, size) == IF vallen[p] >= size THEN vallen[p] ELSE size

(* pwrite() at the beginning of the file. *)
Write(p) ==
  /\ pc[p] = "write"
  /\ file' = [file EXCEPT ![fd[p]] =
       [size |-> NewSize(p, @.size),
        changes |-> had[p], whole |-> vallen[p] >= @.size, old |-> FALSE]]
  /\ saved' = IF dir[id[p]] = fd[p] THEN [saved EXCEPT ![id[p]] = @ \cup {request[p]}] ELSE saved
  /\ Go(p, "close")
  /\ UNCHANGED <<dir, lock, session, script, doomed, bounds, spoiled>>

(* Nothing is in the file any more of what had been stored. *)
Emptied(p) == pc[p] = "write" /\ dir[id[p]] = fd[p] /\ Shrinks(p)
Spoil(p) == spoiled' = IF Emptied(p) THEN spoiled \cup {id[p]} ELSE spoiled

(* The disk is full: a warning. *)
WriteFails(p) ==
  /\ pc[p] = "write" /\ mishaps < MaxMishaps /\ mishaps' = mishaps + 1
  /\ Spoil(p)
  /\ Go(p, "close")
  /\ UNCHANGED <<disk, lock, session, script, doomed, requests, collections, saved>>

SessionClose(p) ==
  /\ pc[p] = "close"
  /\ Over(p)
  /\ UNCHANGED <<disk, bounds, history>>

-----------------------------------------------------------------------------
(* The last modification of a file is longer ago than gc_maxlifetime. *)
Expire(i) ==
  /\ dir[i] # 0 /\ ~file[dir[i]].old
  /\ file' = [file EXCEPT ![dir[i]].old = TRUE]
  /\ UNCHANGED <<dir, lock, pc, session, script, doomed, bounds, history>>

(* A process dies, at any moment. *)
Die(p) ==
  /\ pc[p] # "idle" /\ mishaps < MaxMishaps /\ mishaps' = mishaps + 1
  /\ Spoil(p)
  /\ Over(p)
  /\ UNCHANGED <<disk, requests, collections, saved>>

Start(p) == KeyExists(p) \/ OpenToRead(p) \/ LockToRead(p) \/ Read(p)
Gc(p) == GcUnlink(p) \/ GcEnd(p) \/ \E i \in Id : GcStat(p, i)
Script(p) == Destroy(p) \/ DestroyUnlink(p) \/ DestroyNothing(p)
  \/ \E i \in Id : ChangeId(p, i) \/ \E n \in Size : WriteBegin(p, n)
End(p) == OpenToWrite(p) \/ LockToWrite(p) \/ Truncate(p) \/ Write(p) \/ WriteFails(p) \/ SessionClose(p)

Next ==
  \/ \E p \in Process : \/ \E i \in Id : SessionStart(p, i)
                         \/ Start(p) \/ Gc(p) \/ Script(p) \/ End(p) \/ Die(p)
  \/ \E i \in Id : Expire(i)

Spec == Init /\ [][Next]_vars
(* Processes go on, scripts end, and the kernel grants a lock some day if it *)
(* is free again and again.                                                  *)
GoesOn(p) == Start(p) \/ GcUnlink(p) \/ GcEnd(p) \/ DestroyUnlink(p) \/ End(p)
  \/ \E n \in Size : WriteBegin(p, n)
FairSpec == Spec /\ \A p \in Process : SF_vars(GoesOn(p))

-----------------------------------------------------------------------------
(* The history "spoiled" names the ids to whose file one of three things has *)
(* happened: a collection deleted it although it was not old, having looked  *)
(* at the file before; a request stored its variables there without having   *)
(* read the file, having changed its id; or a write failed, or its process   *)
(* died, after the file had been truncated.                                  *)

(* Nothing else loses an update: unless a session has been destroyed, or     *)
(* collected when it was old, what has been stored in its file has the       *)
(* changes of every request that has stored there before, but while it is    *)
(* being replaced under the lock.                                            *)
UpdatesSurvive ==
  \A i \in Id \ spoiled :
    IF dir[i] = 0 THEN saved[i] = {}
    ELSE \/ saved[i] \subseteq file[dir[i]].changes
         \/ \E p \in Process : lock[dir[i]] = p /\ pc[p] = "write"

(* "Truncate file if the amount of new data is smaller than the existing     *)
(* data set": no file has the end of older and longer contents.              *)
ContentsAreWhole == \A i \in Id \ spoiled : dir[i] # 0 => file[dir[i]].whole

(* Whoever waits for a lock gets it, although the file may have been deleted *)
(* and its name given to another one in the meantime.                        *)
RequestsEnd == \A p \in Process : pc[p] # "idle" ~> pc[p] = "idle"
=============================================================================
