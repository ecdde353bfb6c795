-------------------------- MODULE AccelIncludePath --------------------------
(***************************************************************************)
(* The one letter keys of include_path (opcache/ZendAccelerator.c).  The   *)
(* key of a script that is included by a relative name ends with the       *)
(* include_path, or with a letter that stands for it: "O+ tracks changes   *)
(* of include_path directive.  It stores all the requested values in       *)
(* ZCG(include_paths) shared hash table".  The letter of a path is the     *)
(* byte behind its copy in shared memory, to which include_path_key        *)
(* points.  A restart frees all memory allocated since startup and keeps   *)
(* the first path only, and a letter is then given out again.              *)
(*                                                                         *)
(* A cell of memory is what one allocation returns: a path with its letter *)
(* or a script.  Restarts are atomic (AccelRestart has their steps).       *)
(***************************************************************************)
EXTENDS Naturals, Sequences

CONSTANTS
  Worker, Path,
  NoPath,       \* the empty include_path
  NoText,       \* bytes that are not a path
  Default,      \* include_path in php.ini
  MaxPaths,     \* max_num_entries of include_paths
  Cells,        \* bound: the allocations that fit
  MaxRestarts,  \* bound: schedules
  Early         \* may a request that is not counted use the table?

ASSUME IncludePathAssumption ==
  /\ NoPath \notin Path /\ NoText \notin Path \cup {NoPath}
  /\ Default \in Path \cup {NoPath}
  /\ MaxPaths \in Nat \ {0} /\ Cells \in Nat \ {0} /\ MaxRestarts \in Nat
  /\ Early \in BOOLEAN

VARIABLES
  mem, pos,             \* the cells and how many are in use
  include_paths,        \* the entries of the table: cells
  restart_pending, schedules,
  running, counted,     \* in a request; holding the usage lock
  include_path, include_path_key, include_path_check,
  registering,          \* waiting for the lock to enter its path, and for what
  made                  \* history: the letters at the end of keys since the restart

shared == <<mem, pos, include_paths>>
schedule == <<restart_pending, schedules>>
setting == <<include_path, include_path_key, include_path_check>>
vars == <<shared, schedule, running, counted, setting, registering, made>>

Letter == 1..MaxPaths          \* 'A', 'B', ...
Content == [path : Path \cup {NoPath, NoText}, letter : Letter \cup {0}]

TypeOK ==
  /\ mem \in [1..Cells -> Content] /\ pos \in 0..Cells
  /\ include_paths \in Seq(1..Cells) /\ Len(include_paths) <= MaxPaths
  /\ restart_pending \in BOOLEAN /\ schedules \in 0..MaxRestarts
  /\ running \in [Worker -> BOOLEAN] /\ counted \in [Worker -> BOOLEAN]
  /\ include_path \in [Worker -> Path \cup {NoPath}]
  /\ include_path_key \in [Worker -> 0..Cells]
  /\ include_path_check \in [Worker -> BOOLEAN]
  /\ registering \in [Worker -> {"no", "ini", "key"}]
  /\ made \in SUBSET Content

(* shared_memory_state: what accel_startup had allocated. *)
Saved == IF Default = NoPath THEN 0 ELSE 1

Init ==
  /\ mem = [c \in 1..Cells |-> IF c = Saved THEN [path |-> Default, letter |-> 1]
                                             ELSE [path |-> NoText, letter |-> 0]]
  /\ pos = Saved
  /\ include_paths = IF Default = NoPath THEN << >> ELSE << 1 >>
  /\ restart_pending = FALSE /\ schedules = 0
  /\ running = [w \in Worker |-> FALSE] /\ counted = [w \in Worker |-> FALSE]
  /\ include_path = [w \in Worker |-> Default]
  /\ include_path_key = [w \in Worker |-> Saved]
  /\ include_path_check = [w \in Worker |-> FALSE]
  /\ registering = [w \in Worker |-> "no"]
  /\ made = {}

-----------------------------------------------------------------------------
num_entries == Len(include_paths)
Full == num_entries = MaxPaths
(* zend_accel_hash_find compares the bytes behind the entries. *)
Holds(p) == {i \in 1..num_entries : mem[include_paths[i]].path = p}
Find(p) == IF Holds(p) = {} THEN 0 ELSE include_paths[CHOOSE i \in Holds(p) : TRUE]

UsesTable(w) == counted[w] \/ ~restart_pending
Idle(w) == registering[w] = "no"

Setting(w, p, k, check) ==
  /\ include_path' = [include_path EXCEPT ![w] = p]
  /\ include_path_key' = [include_path_key EXCEPT ![w] = k]
  /\ include_path_check' = [include_path_check EXCEPT ![w] = check]

(* accel_include_path_on_modify, up to the lock; inUse: the cache is.       *)
OnModify(w, p, inUse) ==
  \/ /\ p = NoPath
     /\ Setting(w, p, 0, include_path_check[w])
     /\ UNCHANGED registering
  \/ /\ p # NoPath /\ ~inUse
     /\ Setting(w, p, 0, TRUE)
     /\ UNCHANGED registering
  \/ /\ p # NoPath /\ inUse
     /\ Setting(w, p, Find(p), include_path_check[w])
     /\ registering' = IF Find(p) = 0 /\ ~Full THEN [registering EXCEPT ![w] = "ini"]
                                               ELSE registering

(* The script, or the configuration of a directory, sets include_path. *)
SetIncludePath(w, p) ==
  /\ Idle(w)
  /\ IF Early THEN TRUE ELSE running[w] /\ (counted[w] \/ restart_pending)
  /\ p # include_path[w]
  /\ OnModify(w, p, UsesTable(w))
  /\ UNCHANGED <<shared, schedule, running, counted, made>>

(* Mut: the letter of the last entry is given again. *)
MutNextLetter == num_entries
NextLetter == num_entries + 1

(* Mut: the table is not searched again under the lock. *)
MutEntered(p) == 0
(* "check again" under the lock: another process may have entered the path. *)
Entered(p) == Find(p)

Made(w, k) ==
  made' = IF k = 0 THEN made
          ELSE made \cup {[path |-> include_path[w], letter |-> mem'[k].letter]}

(* Under the lock the path is entered, unless the table or memory is full:  *)
(* zend_accel_schedule_restart_if_necessary then decides.                   *)
Register(w) ==
  LET p == include_path[w]
      new == Entered(p) = 0 /\ ~Full /\ pos < Cells
      k == IF new THEN pos + 1 ELSE Entered(p)
  IN
  /\ ~Idle(w)
  /\ include_path_key' = [include_path_key EXCEPT ![w] = k]
  /\ registering' = [registering EXCEPT ![w] = "no"]
  /\ IF new
     THEN /\ mem' = [mem EXCEPT ![k] = [path |-> p, letter |-> NextLetter]]
          /\ pos' = k
          /\ include_paths' = Append(include_paths, k)
     ELSE UNCHANGED shared
  /\ IF k = 0 /\ ~Full /\ ~restart_pending /\ schedules < MaxRestarts
     THEN \/ UNCHANGED schedule
          \/ restart_pending' = TRUE /\ schedules' = schedules + 1
     ELSE UNCHANGED schedule
  /\ IF registering[w] = "key" THEN Made(w, k) ELSE UNCHANGED made
  /\ UNCHANGED <<running, counted, include_path, include_path_check>>

(* accel_make_persistent_key_ex for a relative name: the key ends with the  *)
(* letter, or with the path if there is none.                               *)
MakeKey(w) ==
  LET k == include_path_key[w]
      missing == /\ k = 0 /\ include_path_check[w] /\ UsesTable(w)
                 /\ Find(include_path[w]) = 0 /\ ~Full
  IN
  /\ running[w] /\ Idle(w)
  /\ counted[w] \/ (Early /\ ~restart_pending)
  /\ IF missing
     THEN registering' = [registering EXCEPT ![w] = "key"] /\ UNCHANGED <<mem, made>>
     ELSE UNCHANGED <<mem, registering>> /\ Made(w, k)
  /\ UNCHANGED <<pos, include_paths, schedule, running, counted, setting>>

-----------------------------------------------------------------------------
(* Mut: every path survives a restart, though its memory is freed. *)
MutKept == include_paths
(* "include_paths keeps only the first path" *)
Kept == IF num_entries > 1 THEN << include_paths[1] >> ELSE include_paths

(* accel_activate: the restart, when no other worker is counted. *)
Activate(w) ==
  /\ ~running[w] /\ Idle(w)
  /\ running' = [running EXCEPT ![w] = TRUE]
  /\ include_path_check' = [include_path_check EXCEPT ![w] = include_path_key[w] = 0]
  /\ IF restart_pending /\ \A v \in Worker : ~counted[v]
     THEN /\ pos' = Saved /\ include_paths' = Kept
          /\ restart_pending' = FALSE
          /\ made' = {}
     ELSE UNCHANGED <<pos, include_paths, restart_pending, made>>
  /\ UNCHANGED <<mem, schedules, counted, include_path, include_path_key, registering>>

(* persistent_compile_file: the request uses the cache from here on. *)
Count(w) ==
  /\ running[w] /\ ~counted[w] /\ ~restart_pending /\ Idle(w)
  /\ counted' = [counted EXCEPT ![w] = TRUE]
  /\ UNCHANGED <<shared, schedule, running, setting, registering, made>>

(* A script is stored: whatever its bytes are where a letter was. *)
StoreScript(w) ==
  /\ counted[w] /\ Idle(w) /\ pos < Cells
  /\ pos' = pos + 1
  /\ \E l \in Letter \cup {0} :
       mem' = [mem EXCEPT ![pos + 1] = [path |-> NoText, letter |-> l]]
  /\ UNCHANGED <<include_paths, schedule, running, counted, setting, registering, made>>

Schedule(w) ==
  /\ running[w] /\ Idle(w) /\ ~restart_pending
  /\ schedules < MaxRestarts
  /\ restart_pending' = TRUE /\ schedules' = schedules + 1
  /\ UNCHANGED <<shared, running, counted, setting, registering, made>>

(* accel_deactivate; then the engine restores include_path if it was set.   *)
End(w) ==
  /\ running[w] /\ Idle(w)
  /\ running' = [running EXCEPT ![w] = FALSE]
  /\ counted' = [counted EXCEPT ![w] = FALSE]
  /\ IF include_path[w] = Default
     THEN UNCHANGED <<setting, registering>>
     ELSE OnModify(w, Default, ~restart_pending)
  /\ UNCHANGED <<shared, schedule, made>>

Next == \E w \in Worker :
  \/ Activate(w) \/ Count(w) \/ StoreScript(w) \/ Schedule(w) \/ End(w)
  \/ MakeKey(w) \/ Register(w)
  \/ \E p \in Path \cup {NoPath} : SetIncludePath(w, p)

Spec == Init /\ [][Next]_vars

-----------------------------------------------------------------------------
(* No two include_paths share a letter in the keys of the cache: otherwise  *)
(* an include could find the script of another directory.                   *)
KeysDistinguishPaths ==
  \A a, b \in made : a.letter = b.letter => a.path = b.path

(* "one letter key of current include_path" (ZendAccelerator.h): the letter *)
(* a worker points to is that of its path.                                  *)
LetterOfCurrentPath ==
  \A w \in Worker : include_path_key[w] # 0 =>
    mem[include_path_key[w]].path = include_path[w]

(* No path is entered twice, though two processes may miss it at once: the  *)
(* table has only as many entries as there are letters, for every process.  *)
EachPathOnce ==
  \A i, j \in 1..num_entries :
    i # j => mem[include_paths[i]].path # mem[include_paths[j]].path

-----------------------------------------------------------------------------
(* "include_paths keeps only the first path": it is there after a restart.  *)
FirstPathIsKept ==
  num_entries > 0 => include_paths[1] <= pos /\ mem[include_paths[1]].letter = 1
=============================================================================
