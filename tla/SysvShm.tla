------------------------------- MODULE SysvShm -------------------------------
(***************************************************************************)
(* Variables in shared memory (sysvshm/sysvshm.c), on one key of the       *)
(* kernel.  A segment is a header and chunks, one per variable, without    *)
(* gaps; the memory is cut into units, the header is unit 0.  The writes   *)
(* to the header and to the chunks are steps of their own, in the order of *)
(* the code, and a process may die between any two of them.                *)
(*                                                                         *)
(* Nothing in the code excludes two processes from a segment: scripts use  *)
(* it under a semaphore of max_acquire = 1, which is what SysvSem promises *)
(* (one holder; the kernel frees it when the holder dies).                 *)
(***************************************************************************)
EXTENDS Sysv, Integers, FiniteSets, Sequences

CONSTANTS
  Key, Value, NoProcess, NoKey, NoValue,
  units,         \* units of the chunk of a value
  shm_size,      \* the size that all scripts ask for
  MaxSegments,   \* bound: segments at a time, removed ones in use included
  AttachLocked   \* do scripts hold the semaphore when they attach?

ASSUME ShmAssumption ==
  /\ units \in [Value -> Nat \ {0}] /\ shm_size \in Nat \ {0} /\ MaxSegments \in Nat \ {0}
  /\ NoValue \notin Value /\ NoKey \notin Key /\ NoProcess \notin Process
  /\ AttachLocked \in BOOLEAN

VARIABLES
  segment,             \* kernel: the segment of the key, 0 if there is none
  head,                \* sysvshm_chunk_head of a segment
  mem,                 \* the units of a segment
  at,                  \* the segment a process has attached, 0 if none
  holder,              \* the process that has the semaphore
  step, op,            \* what a process does, and to which variable
  torn                 \* history: segments whose writer died between two writes

shm_vars == <<segment, head, mem, at, holder, step, op, torn>>

Segment == 1..MaxSegments
Unit == 1..(shm_size - 1)
Start == 1

(* Unit "part" of a chunk; a part is only a header if it is the first one. *)
Cell == [key : Key \cup {NoKey}, val : Value \cup {NoValue}, part : Nat]
NoCell == [key |-> NoKey, val |-> NoValue, part |-> 0]
NewMem == [u \in Unit |-> NoCell]
NewHead == [magic |-> FALSE, start |-> 0, end |-> 0, free |-> 0, total |-> 0]
NoOp == [key |-> NoKey, val |-> NoValue, pos |-> 0]

Writing == {"free+", "end-", "move", "room", "write", "end+", "free-"}
Attaching == {"attach", "check", "magic", "header"}

ShmTypeOK ==
  /\ segment \in 0..MaxSegments
  /\ head \in [Segment -> [magic : BOOLEAN, start : {0, Start}, end : 0..shm_size,
                           free : 0..shm_size, total : {0, shm_size}]]
  /\ mem \in [Segment -> [Unit -> Cell]]
  /\ at \in [Process -> 0..MaxSegments]
  /\ holder \in Process \cup {NoProcess}
  /\ step \in [Process -> {"idle"} \cup Writing \cup Attaching]
  /\ op \in [Process -> [key : Key \cup {NoKey}, val : Value \cup {NoValue},
                      pos : 0..shm_size \cup Segment]]
  /\ torn \subseteq Segment

ShmInit ==
  /\ segment = 0
  /\ head = [g \in Segment |-> NewHead]
  /\ mem = [g \in Segment |-> NewMem]
  /\ at = [p \in Process |-> 0]
  /\ holder = NoProcess
  /\ step = [p \in Process |-> "idle"]
  /\ op = [p \in Process |-> NoOp]
  /\ torn = {}

Continue(p, to) == step' = [step EXCEPT ![p] = to]

-----------------------------------------------------------------------------
(* sem_acquire() and sem_release() *)
Lock(p) ==
  /\ step[p] = "idle" /\ holder = NoProcess
  /\ holder' = p
  /\ UNCHANGED <<segment, head, mem, at, step, op, torn>>

Unlock(p) ==
  /\ step[p] = "idle" /\ holder = p
  /\ holder' = NoProcess
  /\ UNCHANGED <<segment, head, mem, at, step, op, torn>>

(* A segment is there while it has the key or somebody has it attached. *)
Exists(g) == g = segment \/ \E p \in Process : at[p] = g

(* Segments that neither the key nor a process has any more are freed. *)
Free(half) ==
  LET kept == {g \in Segment : g = segment' \/ \E p \in Process : at'[p] = g}
  IN /\ head' = [g \in Segment |-> IF g \in kept THEN head[g] ELSE NewHead]
     /\ mem' = [g \in Segment |-> IF g \in kept THEN mem[g] ELSE NewMem]
     /\ torn' = half \cap kept

(* shm_attach(): shmget() finds the segment of the key or creates one. *)
ShmGet(p) ==
  /\ step[p] = "idle" /\ at[p] = 0
  /\ AttachLocked => holder = p
  /\ \E g \in Segment :
       /\ IF segment = 0 THEN ~Exists(g) ELSE g = segment
       /\ segment' = g
       /\ op' = [op EXCEPT ![p].pos = g]
  /\ Continue(p, "attach")
  /\ UNCHANGED <<head, mem, at, holder, torn>>

(* shmat() *)
ShmAt(p) ==
  /\ step[p] = "attach"
  /\ IF Exists(op[p].pos)
     THEN at' = [at EXCEPT ![p] = op[p].pos] /\ Continue(p, "check")
     ELSE Continue(p, "idle") /\ UNCHANGED at
  /\ op' = [op EXCEPT ![p] = NoOp]
  /\ UNCHANGED <<segment, head, mem, holder, torn>>

(* "check if shm is already initialized" *)
CheckMagic(p) ==
  /\ step[p] = "check"
  /\ Continue(p, IF head[at[p]].magic THEN "idle" ELSE "magic")
  /\ UNCHANGED <<segment, head, mem, at, holder, op, torn>>

WriteMagic(p) ==
  /\ step[p] = "magic"
  /\ head' = [head EXCEPT ![at[p]].magic = TRUE]
  /\ Continue(p, "header")
  /\ UNCHANGED <<segment, mem, at, holder, op, torn>>

WriteHeader(p) ==
  /\ step[p] = "header"
  /\ head' = [head EXCEPT ![at[p]] =
       [magic |-> TRUE, start |-> Start, end |-> Start, total |-> shm_size,
        free |-> shm_size - Start]]
  /\ Continue(p, "idle")
  /\ UNCHANGED <<segment, mem, at, holder, op, torn>>

(* shm_detach(), and the end of a request *)
ShmDetach(p) ==
  /\ step[p] = "idle" /\ at[p] # 0
  /\ at' = [at EXCEPT ![p] = 0]
  /\ UNCHANGED <<segment, holder, step, op>>
  /\ Free(torn)

(* shm_remove() *)
ShmRemove(p) ==
  /\ step[p] = "idle" /\ at[p] # 0 /\ at[p] = segment /\ holder = p
  /\ segment' = 0
  /\ UNCHANGED <<at, holder, step, op>>
  /\ Free(torn)

-----------------------------------------------------------------------------
(* php_check_shm_data: the positions of the chunks, and that of a key. *)
Chunks(m, start, end) ==
  LET walk[u \in 0..(2 * shm_size)] ==
        IF u \notin Unit \/ u >= end \/ m[u].part # 1 THEN <<>>
        ELSE <<u>> \o walk[u + units[m[u].val]]
  IN walk[start]

(* Mut: the key is not compared. *)
MutAnyKey(m, start, end, k) ==
  LET s == Chunks(m, start, end) IN {s[i] : i \in 1..Len(s)}
Found(m, start, end, k) ==
  LET s == Chunks(m, start, end) IN {s[i] : i \in {j \in 1..Len(s) : m[s[j]].key = k}}
PosOf(g, k) == Found(mem[g], head[g].start, head[g].end, k)

(* A script under the semaphore, with a segment nobody broke: what happens  *)
(* to a torn one is not modelled.                                           *)
Uses(p) == step[p] = "idle" /\ holder = p /\ at[p] # 0 /\ at[p] \notin torn

(* shm_get_var(), which changes nothing: the data of the first chunk with   *)
(* the key, if all units of the chunk are its own.                          *)
Intact(m, u) == \A i \in 0..(units[m[u].val] - 1) :
  u + i \in Unit /\ m[u + i] = [m[u] EXCEPT !.part = i + 1]
ValueIn(m, h, k) ==
  LET us == Found(m, h.start, h.end, k)
  IN IF us = {} THEN NoValue
     ELSE LET u == CHOOSE u \in us : \A w \in us : u <= w
          IN IF Intact(m, u) THEN m[u].val ELSE NoValue

(* php_put_shm_data() starts with the chunk that has the key, if any, and *)
(* shm_remove_var() ends with it.                                         *)
ShmChange(p, k, v) ==
  /\ Uses(p)
  /\ \/ \E u \in PosOf(at[p], k) :
          /\ op' = [op EXCEPT ![p] = [key |-> k, val |-> v, pos |-> u]]
          /\ Continue(p, "free+")
     \/ /\ PosOf(at[p], k) = {} /\ v # NoValue
        /\ op' = [op EXCEPT ![p] = [key |-> k, val |-> v, pos |-> 0]]
        /\ Continue(p, "room")
  /\ UNCHANGED <<segment, head, mem, at, holder, torn>>
ShmPutVar(p, k, v) == ShmChange(p, k, v)
ShmRemoveVar(p, k) == ShmChange(p, k, NoValue)

(* php_remove_shm_data() *)
Next1(p) == units[mem[at[p]][op[p].pos].val]

FreeGrows(p) ==
  /\ step[p] = "free+"
  /\ head' = [head EXCEPT ![at[p]].free = @ + Next1(p)]
  /\ Continue(p, "end-")
  /\ UNCHANGED <<segment, mem, at, holder, op, torn>>

EndShrinks(p) ==
  /\ step[p] = "end-"
  /\ head' = [head EXCEPT ![at[p]].end = @ - Next1(p)]
  /\ Continue(p, "move")
  /\ UNCHANGED <<segment, mem, at, holder, op, torn>>

(* Mut: the length is that of the removed chunk. *)
MutMoved(m, pos, n, end) ==
  [u \in Unit |-> IF u >= pos /\ u < pos + n /\ u + n \in Unit THEN m[u + n] ELSE m[u]]
Moved(m, pos, n, end) ==
  [u \in Unit |-> IF u >= pos /\ u < end THEN m[u + n] ELSE m[u]]

Move(p) ==
  /\ step[p] = "move"
  /\ mem' = [mem EXCEPT ![at[p]] = Moved(@, op[p].pos, Next1(p), head[at[p]].end)]
  /\ IF op[p].val = NoValue
     THEN Continue(p, "idle") /\ op' = [op EXCEPT ![p] = NoOp]
     ELSE Continue(p, "room") /\ op' = [op EXCEPT ![p].pos = 0]
  /\ UNCHANGED <<segment, head, at, holder, torn>>

HasRoom(g, v) == head[g].free >= units[v]

Room(p) ==
  /\ step[p] = "room"
  /\ IF HasRoom(at[p], op[p].val)
     THEN Continue(p, "write") /\ UNCHANGED op
     ELSE Continue(p, "idle") /\ op' = [op EXCEPT ![p] = NoOp]
  /\ UNCHANGED <<segment, head, mem, at, holder, torn>>

WriteChunk(p) ==
  /\ step[p] = "write"
  /\ LET e == head[at[p]].end
     IN mem' = [mem EXCEPT ![at[p]] = [u \in Unit |->
          IF u >= e /\ u < e + units[op[p].val]
          THEN [key |-> op[p].key, val |-> op[p].val, part |-> u - e + 1] ELSE @[u]]]
  /\ Continue(p, "end+")
  /\ UNCHANGED <<segment, head, at, holder, op, torn>>

EndGrows(p) ==
  /\ step[p] = "end+"
  /\ head' = [head EXCEPT ![at[p]].end = @ + units[op[p].val]]
  /\ Continue(p, "free-")
  /\ UNCHANGED <<segment, mem, at, holder, op, torn>>

FreeShrinks(p) ==
  /\ step[p] = "free-"
  /\ head' = [head EXCEPT ![at[p]].free = @ - units[op[p].val]]
  /\ Continue(p, "idle")
  /\ op' = [op EXCEPT ![p] = NoOp]
  /\ UNCHANGED <<segment, mem, at, holder, torn>>

-----------------------------------------------------------------------------
(* A process dies: the kernel detaches the segment and frees the semaphore. *)
(* HalfWritten: a write has been done and the one that goes with it has not. *)
HalfWritten == {"header", "end-", "move", "free-"}

Die(p) ==
  /\ \/ step[p] # "idle" \/ holder = p \/ at[p] # 0
  /\ Continue(p, "idle")
  /\ op' = [op EXCEPT ![p] = NoOp]
  /\ at' = [at EXCEPT ![p] = 0]
  /\ holder' = IF holder = p THEN NoProcess ELSE holder
  /\ UNCHANGED segment
  /\ Free(IF step[p] \in HalfWritten THEN torn \cup {at[p]} ELSE torn)

Attach(p) == ShmGet(p) \/ ShmAt(p) \/ CheckMagic(p) \/ WriteMagic(p) \/ WriteHeader(p)
RemoveData(p) == FreeGrows(p) \/ EndShrinks(p) \/ Move(p)
PutData(p) == Room(p) \/ WriteChunk(p) \/ EndGrows(p) \/ FreeShrinks(p)
Script(p) == Lock(p) \/ Unlock(p) \/ ShmDetach(p) \/ ShmRemove(p)
  \/ \E k \in Key : ShmRemoveVar(p, k) \/ \E v \in Value : ShmPutVar(p, k, v)
ShmNext == \E p \in Process : Script(p) \/ Attach(p) \/ RemoveData(p) \/ PutData(p) \/ Die(p)

ShmSpec == ShmInit /\ [][ShmNext]_shm_vars

-----------------------------------------------------------------------------
Initialized(g) == head[g].start # 0
Written(g) == \E p \in Process : at[p] = g /\ step[p] \in Writing

(* Unless somebody died between two writes, a segment nobody is writing is  *)
(* its header, one whole chunk per variable without gaps, and the free rest *)
(* ("chunk_ptr->total = shm_size; chunk_ptr->free = shm_size-chunk_ptr->end"). *)
SegmentIsTiled ==
  \A g \in Segment \ torn : Initialized(g) /\ ~Written(g) =>
    LET s == Chunks(mem[g], Start, head[g].end)
        last == s[Len(s)]
    IN /\ head[g].end + head[g].free = head[g].total
       /\ head[g].end = IF s = <<>> THEN Start ELSE last + units[mem[g][last].val]
       /\ \A i \in 1..Len(s) : Intact(mem[g], s[i])
       /\ \A i, j \in 1..Len(s) : mem[g][s[i]].key = mem[g][s[j]].key => i = j

(* The segment as a map, with the chunks where they are about to be moved. *)
Contents(g) ==
  LET movers == {p \in Process : at[p] = g /\ step[p] = "move"}
      m == IF movers = {} THEN mem[g]
           ELSE LET p == CHOOSE q \in movers : TRUE
                IN Moved(mem[g], op[p].pos, Next1(p), head[g].end)
  IN [k \in Key |-> ValueIn(m, head[g], k)]

(* To scripts that use it under the semaphore the segment is a map: no      *)
(* change of a variable changes another one, and shm_get_var() returns what *)
(* was put last, whoever died in between except between two writes.         *)
Map == INSTANCE ShmMap WITH contents <- [g \in Segment |-> Contents(g)], broken <- torn
ImplementsMap == Map!Spec
=============================================================================
