---------------------------- MODULE AccelRestart ----------------------------
(***************************************************************************)
(* The restart protocol of the opcode cache (opcache/ZendAccelerator.c).   *)
(*                                                                         *)
(* Many PHP workers share one cache in shared memory (SHM).  The cache is  *)
(* never freed entry by entry: when it is full of wasted memory, or when a *)
(* script calls opcache_reset(), a restart is scheduled, the cache is      *)
(* disabled, and the first request that begins while nobody reads the      *)
(* cache wipes it.  The workers agree through three byte-range locks of a  *)
(* lock file (fcntl: owned by a process, dropped when the process dies)    *)
(* and through plain flags in SHM, read and written without a lock.        *)
(*                                                                         *)
(* A worker is a thread of a ZTS build or the only thread of its process.  *)
(* What the cache holds is abstracted to its generation "gen": a pointer   *)
(* into SHM is the generation in which it was obtained, so that a pointer  *)
(* is dangling when its generation is not gen.                             *)
(***************************************************************************)
EXTENDS Naturals, Integers, FiniteSets

CONSTANTS
  Worker,            \* the threads that run requests
  Process,           \* the processes they live in
  ProcOf,            \* ProcOf[w] is the process of worker w
  Killable,          \* the processes kill(2) is permitted to signal
  ForceRestart,      \* is opcache.force_restart_timeout other than 0?
  Tries,             \* kill attempts: "int tries = 10"
  NoProc,            \* the owner of a free lock
  NoGen,             \* ZCG(cache_persistent_script) is NULL
  Prompt,            \* the workers whose requests end (fairness)
  Calls,             \* bound: what scripts do, of "resolve", "compile", "save",
                     \* "reset", "api", "missing" and "ini"
  MaxSchedules,      \* bound: how often a restart is scheduled
  MaxCrashes         \* bound: how many processes die of other causes

ASSUME WorkerAssumption ==
  /\ ProcOf \in [Worker -> Process]
  /\ Killable \subseteq Process /\ Prompt \subseteq Worker
  /\ NoProc \notin Process
  /\ NoGen \notin Nat
ASSUME BoundAssumption ==
  /\ ForceRestart \in BOOLEAN
  /\ Tries \in Nat \ {0}
  /\ MaxSchedules \in Nat
  /\ MaxCrashes \in Nat

VARIABLES
  (* ZCSG: flags in shared memory. *)
  restart_pending, accelerator_enabled, cache_status_before_restart,
  restart_in_progress,
  force_restart_time,  \* "none" (0), "waiting" (in the future), "due" (<= now)
  restarts,            \* oom_restarts + hash_restarts + manual_restarts
  gen,                 \* generation of the cache contents
  (* The lock file: one process, a set of processes, one process. *)
  mem_write, mem_usage, restart_lock,
  (* ZCG: globals of a worker. *)
  enabled, counted, locked,
  cache_persistent_script,
  refs,                \* generations of the SHM pointers the request holds
  pc, back, tries,     \* control point, return point, kill budget
  (* History. *)
  early,      \* took the usage lock with no restart pending or running and
              \* no pointer of an earlier look-up
  schedules, crashes,
  mishap      \* a restart was torn by a crash or by a second scheduler

shm == <<restart_pending, accelerator_enabled, cache_status_before_restart,
         restart_in_progress, force_restart_time, restarts, gen>>
lockfile == <<mem_write, mem_usage, restart_lock>>
globals == <<enabled, counted, locked, cache_persistent_script, refs>>
control == <<back, tries>>
history == <<early, schedules, crashes, mishap>>
vars == <<shm, lockfile, globals, pc, control, history>>

(* Control points, grouped.  A worker in Restarting has cleared             *)
(* restart_pending and has not yet restored accelerator_enabled.            *)
Restarting == {"enter", "clean", "reenable"}
RestartSection == {"clean", "reenable", "leave"}
Label == Restarting \cup RestartSection \cup
  {"idle", "lock", "recheck", "kill", "unlock", "run", "probe", "clear",
   "add", "lookup", "savelock", "save", "mark", "disable",
   "apiadd", "apicheck", "apiread", "apiend"}

TypeOK ==
  /\ restart_pending \in BOOLEAN /\ accelerator_enabled \in BOOLEAN
  /\ cache_status_before_restart \in BOOLEAN /\ restart_in_progress \in BOOLEAN
  /\ force_restart_time \in {"none", "waiting", "due"}
  /\ restarts \in Nat /\ gen \in Nat
  /\ mem_write \in Process \cup {NoProc}
  /\ mem_usage \subseteq Process
  /\ restart_lock \in Process \cup {NoProc}
  /\ enabled \in [Worker -> BOOLEAN] /\ counted \in [Worker -> BOOLEAN]
  /\ locked \in [Worker -> BOOLEAN]
  /\ cache_persistent_script \in [Worker -> Nat \cup {NoGen}]
  /\ refs \in [Worker -> SUBSET Nat]
  /\ pc \in [Worker -> Label] /\ back \in [Worker -> {"run", "apiend"}]
  /\ tries \in [Worker -> -1..Tries]
  /\ early \in [Worker -> BOOLEAN]
  /\ schedules \in Nat /\ crashes \in Nat /\ mishap \in BOOLEAN

(* accel_startup: the cache is enabled, nothing is scheduled, no locks. *)
Init ==
  /\ restart_pending = FALSE /\ accelerator_enabled = TRUE
  /\ cache_status_before_restart = FALSE /\ restart_in_progress = FALSE
  /\ force_restart_time = "none" /\ restarts = 0 /\ gen = 0
  /\ mem_write = NoProc /\ mem_usage = {} /\ restart_lock = NoProc
  /\ enabled = [w \in Worker |-> TRUE] /\ counted = [w \in Worker |-> FALSE]
  /\ locked = [w \in Worker |-> FALSE]
  /\ cache_persistent_script = [w \in Worker |-> NoGen]
  /\ refs = [w \in Worker |-> {}]
  /\ pc = [w \in Worker |-> "idle"] /\ back = [w \in Worker |-> "run"]
  /\ tries = [w \in Worker |-> 0]
  /\ early = [w \in Worker |-> FALSE]
  /\ schedules = 0 /\ crashes = 0 /\ mishap = FALSE

-----------------------------------------------------------------------------
(* Locks.  fcntl never makes a process wait for, or report, its own locks.  *)
At(w, l) == pc[w] = l
Goto(w, l) == pc' = [pc EXCEPT ![w] = l]
Free(lock, p) == lock \in {NoProc, p}
Release(lock, p) == IF lock = p THEN NoProc ELSE lock

(* Definitions named Mut... are deliberate errors, each substituted for the *)
(* definition after it to see that a property notices; no action uses them. *)

(* Mut: the lock is tried and not waited for. *)
MutAllocLock(w) ==
  /\ mem_write' = IF Free(mem_write, ProcOf[w]) THEN ProcOf[w] ELSE mem_write
  /\ locked' = [locked EXCEPT ![w] = TRUE]

(* zend_shared_alloc_lock: in a ZTS build a mutex of the process comes      *)
(* first, then byte 0 of the lock file.                                     *)
AllocLock(w) ==
  /\ Free(mem_write, ProcOf[w])
  /\ \A v \in Worker : ProcOf[v] = ProcOf[w] => ~locked[v]
  /\ mem_write' = ProcOf[w]
  /\ locked' = [locked EXCEPT ![w] = TRUE]

(* zend_shared_alloc_unlock *)
AllocUnlock(w) ==
  /\ mem_write' = Release(mem_write, ProcOf[w])
  /\ locked' = [locked EXCEPT ![w] = FALSE]

(* Mut: the locks are left to the next request. *)
MutUnlockAll(w) == UNCHANGED lockfile

(* accel_unlock_all: every byte of the lock file. *)
UnlockAll(w) ==
  /\ mem_usage' = mem_usage \ {ProcOf[w]}
  /\ mem_write' = Release(mem_write, ProcOf[w])
  /\ restart_lock' = Release(restart_lock, ProcOf[w])

Uncount(w) == [counted EXCEPT ![w] = FALSE]

(* Mut: F_GETLK asks for a read lock, which no reader stands in the way of. *)
MutOtherUsers(w) == {}
(* The processes an F_GETLK for a write lock on byte 1 finds. *)
OtherUsers(w) == mem_usage \ {ProcOf[w]}

(* Nothing threatens a reader that takes the usage lock now. *)
Calm == ~restart_pending /\ \A v \in Worker : pc[v] \notin Restarting \cup RestartSection

-----------------------------------------------------------------------------
(* accel_activate: a request begins.                                        *)
ActivateBegin(w) ==
  /\ At(w, "idle")
  /\ cache_persistent_script' = [cache_persistent_script EXCEPT ![w] = NoGen]
  /\ IF counted[w]      \* "Stuck count": accel_unlock_all
     THEN UnlockAll(w) /\ counted' = Uncount(w)
     ELSE UNCHANGED <<lockfile, counted>>
  /\ Goto(w, IF restart_pending THEN "lock" ELSE "run")
  /\ UNCHANGED <<shm, enabled, locked, refs, control, history>>

ActivateLock(w) ==
  /\ At(w, "lock")
  /\ AllocLock(w)
  /\ Goto(w, "recheck")
  /\ UNCHANGED <<shm, mem_usage, restart_lock, enabled, counted,
                 cache_persistent_script, refs, control, history>>

(* Mut: another worker may have done the restart meanwhile. *)
MutStillPending == TRUE
(* "check again, to ensure that the cache wasn't already cleaned by another process" *)
StillPending == restart_pending

(* accel_is_inactive: the lockers have had their time. *)
ForceDue == ForceRestart /\ force_restart_time = "due"

KillBudget == Tries

(* Under the lock: restart, kill the lockers, or leave it to a later request. *)
ActivateRecheck(w) ==
  /\ At(w, "recheck")
  /\ UNCHANGED <<accelerator_enabled, cache_status_before_restart,
                 restart_in_progress, gen, lockfile, globals, back, history>>
  /\ \/ /\ StillPending /\ OtherUsers(w) = {}
        /\ restart_pending' = FALSE
        /\ restarts' = restarts + 1
        /\ Goto(w, "enter")
        /\ UNCHANGED <<force_restart_time, tries>>
     \/ /\ StillPending /\ OtherUsers(w) # {} /\ ForceDue
        /\ force_restart_time' = "none"
        /\ tries' = [tries EXCEPT ![w] = KillBudget]
        /\ Goto(w, "kill")
        /\ UNCHANGED <<restart_pending, restarts>>
     \/ /\ ~StillPending \/ (OtherUsers(w) # {} /\ ~ForceDue)
        /\ Goto(w, "unlock")
        /\ UNCHANGED <<restart_pending, restarts, force_restart_time, tries>>

(* accel_restart_enter: byte 2 (F_SETLK, a failure is only logged). *)
RestartEnter(w) ==
  /\ At(w, "enter")
  /\ restart_lock' = IF Free(restart_lock, ProcOf[w]) THEN ProcOf[w] ELSE restart_lock
  /\ restart_in_progress' = TRUE
  /\ Goto(w, "clean")
  /\ UNCHANGED <<restart_pending, accelerator_enabled, cache_status_before_restart,
                 force_restart_time, restarts, gen, mem_write, mem_usage,
                 globals, control, history>>

(* zend_reset_cache_vars, zend_accel_hash_clean, zend_shared_alloc_restore_state:
   every pointer into SHM handed out so far dangles. *)
RestartClean(w) ==
  /\ At(w, "clean")
  /\ restart_pending' = FALSE
  /\ force_restart_time' = "none"
  /\ gen' = gen + 1
  /\ Goto(w, "reenable")
  /\ UNCHANGED <<accelerator_enabled, cache_status_before_restart,
                 restart_in_progress, restarts, lockfile, globals, control, history>>

(* Mut: the cache stays as the scheduler left it. *)
MutStatusAfter == accelerator_enabled
StatusAfter == cache_status_before_restart

RestartReenable(w) ==
  /\ At(w, "reenable")
  /\ accelerator_enabled' = StatusAfter
  /\ Goto(w, "leave")
  /\ UNCHANGED <<restart_pending, cache_status_before_restart, restart_in_progress,
                 force_restart_time, restarts, gen, lockfile, globals, control, history>>

RestartLeave(w) ==
  /\ At(w, "leave")
  /\ restart_in_progress' = FALSE
  /\ restart_lock' = Release(restart_lock, ProcOf[w])
  /\ Goto(w, "unlock")
  /\ UNCHANGED <<restart_pending, accelerator_enabled, cache_status_before_restart,
                 force_restart_time, restarts, gen, mem_write, mem_usage,
                 globals, control, history>>

Unlock(w) ==
  /\ At(w, "unlock")
  /\ AllocUnlock(w)
  /\ Goto(w, back[w])
  /\ back' = [back EXCEPT ![w] = "run"]
  /\ UNCHANGED <<shm, mem_usage, restart_lock, enabled, counted,
                 cache_persistent_script, refs, tries, history>>

-----------------------------------------------------------------------------
(* A process dies: the kernel drops its locks, the flags in SHM stay as     *)
(* they are, and the server starts a new process in its place.              *)
Dies(p) ==
  LET keep(f, fresh) == [w \in Worker |-> IF ProcOf[w] = p THEN fresh ELSE f[w]]
  IN /\ mem_usage' = mem_usage \ {p}
     /\ mem_write' = Release(mem_write, p)
     /\ restart_lock' = Release(restart_lock, p)
     /\ enabled' = keep(enabled, TRUE) /\ counted' = keep(counted, FALSE)
     /\ locked' = keep(locked, FALSE)
     /\ cache_persistent_script' = keep(cache_persistent_script, NoGen)
     /\ refs' = keep(refs, {}) /\ early' = keep(early, FALSE)
     /\ pc' = keep(pc, "idle") /\ back' = keep(back, "run")
     /\ mishap' = (mishap \/ \E w \in Worker : ProcOf[w] = p /\ pc[w] \in Restarting \cup {"disable"})

(* One round of the loop of kill_all_lockers: at most Tries attempts on the *)
(* process F_GETLK named, with a budget that is not reset from one locker   *)
(* to the next and that wraps below zero ("while (tries--)", "if (!tries)").*)
KillLocker(w, p) ==
  LET left == IF tries[w] >= 0 THEN tries[w] - 1 ELSE -1
  IN /\ At(w, "kill")
     /\ p \in OtherUsers(w)
     /\ tries' = [tries EXCEPT ![w] = left]
     /\ force_restart_time' = IF left = 0 THEN "due" ELSE force_restart_time
     /\ UNCHANGED <<restart_pending, accelerator_enabled, cache_status_before_restart,
                    restart_in_progress, restarts, gen, schedules, crashes>>
     /\ IF p \in Killable /\ tries[w] # 0
        THEN Dies(p)
        ELSE UNCHANGED <<lockfile, globals, pc, back, early, mishap>>

(* No locker is left: accel_is_inactive returns FAILURE all the same. *)
KillDone(w) ==
  /\ At(w, "kill")
  /\ OtherUsers(w) = {}
  /\ Goto(w, "unlock")
  /\ UNCHANGED <<shm, lockfile, globals, control, history>>

Crash(p) ==
  /\ crashes < MaxCrashes
  /\ crashes' = crashes + 1
  /\ Dies(p)
  /\ UNCHANGED <<shm, tries, schedules>>

-----------------------------------------------------------------------------
(* While a request runs.                                                    *)
CacheOn(w) == enabled[w] /\ (counted[w] \/ accelerator_enabled)

(* persistent_zend_resolve_path (and the stream opener that reuses its      *)
(* result) finds the script in SHM without the usage lock, and may add a    *)
(* key for it under byte 0, with the pointer it found before.               *)
ResolvePath(w) ==
  /\ At(w, "run") /\ "resolve" \in Calls
  /\ CacheOn(w) /\ ~restart_in_progress
  /\ cache_persistent_script' = [cache_persistent_script EXCEPT ![w] = gen]
  /\ Goto(w, "run") \/ ("save" \in Calls /\ Goto(w, "savelock"))
  /\ UNCHANGED <<shm, lockfile, enabled, counted, locked, refs, control, history>>

(* persistent_compile_file: the entry condition ... *)
CompileCheck(w) ==
  /\ At(w, "run") /\ "compile" \in Calls
  /\ CacheOn(w)
  /\ Goto(w, IF restart_in_progress THEN "probe"
             ELSE IF counted[w] THEN "lookup" ELSE "add")
  /\ UNCHANGED <<shm, lockfile, globals, control, history>>

(* ... accel_restart_is_active: F_GETLK on byte 2, then the stale flag of a *)
(* restarter that died is cleared ...                                       *)
RestartProbe(w) ==
  /\ At(w, "probe")
  /\ Goto(w, IF Free(restart_lock, ProcOf[w]) THEN "clear" ELSE "run")
  /\ UNCHANGED <<shm, lockfile, globals, control, history>>

RestartClear(w) ==
  /\ At(w, "clear")
  /\ restart_in_progress' = FALSE
  /\ Goto(w, IF counted[w] THEN "lookup" ELSE "add")
  /\ UNCHANGED <<restart_pending, accelerator_enabled, cache_status_before_restart,
                 force_restart_time, restarts, gen, lockfile, globals, control, history>>

(* ... and the usage lock, taken once for the rest of the request, with no
   second look at restart_in_progress. *)
TakeUsage(w) ==
  /\ mem_usage' = mem_usage \cup {ProcOf[w]}
  /\ early' = [early EXCEPT ![w] = early[w] \/
       (Calm /\ cache_persistent_script[w] = NoGen /\ refs[w] = {})]

CompileCount(w) ==
  /\ At(w, "add")
  /\ counted' = [counted EXCEPT ![w] = TRUE]
  /\ TakeUsage(w)
  /\ Goto(w, "lookup")
  /\ UNCHANGED <<shm, mem_write, restart_lock, enabled, locked,
                 cache_persistent_script, refs, control, schedules, crashes, mishap>>

(* The script resolve_path() found is used as it is, otherwise the hash is  *)
(* searched.  The script may have to be stored or invalidated: "savelock".  *)
CompileLookup(w) ==
  /\ At(w, "lookup")
  /\ refs' = [refs EXCEPT ![w] = @ \cup
       {IF cache_persistent_script[w] # NoGen THEN cache_persistent_script[w] ELSE gen}]
  /\ cache_persistent_script' = [cache_persistent_script EXCEPT ![w] = NoGen]
  /\ Goto(w, "run") \/ ("save" \in Calls /\ Goto(w, "savelock"))
  /\ UNCHANGED <<shm, lockfile, enabled, counted, locked, control, history>>

SaveLock(w) ==
  /\ At(w, "savelock")
  /\ AllocLock(w)
  /\ Goto(w, "save")
  /\ UNCHANGED <<shm, mem_usage, restart_lock, enabled, counted,
                 cache_persistent_script, refs, control, history>>

(* Under the lock: zend_accel_schedule_restart_if_necessary, whose threshold *)
(* is left open here, schedules a restart unless one is pending already.    *)
SaveScript(w) ==
  /\ At(w, "save")
  /\ \/ Goto(w, "unlock")
     \/ ~restart_pending /\ schedules < MaxSchedules /\ Goto(w, "mark")
  /\ UNCHANGED <<shm, lockfile, globals, control, history>>

(* opcache_reset(): the same test without any lock. *)
OpcacheReset(w) ==
  /\ At(w, "run") /\ "reset" \in Calls
  /\ enabled[w] /\ accelerator_enabled /\ ~restart_pending
  /\ schedules < MaxSchedules
  /\ Goto(w, "mark")
  /\ UNCHANGED <<shm, lockfile, globals, control, history>>

(* zend_accel_schedule_restart: its test of restart_pending is behind us.   *)
ScheduleMark(w) ==
  /\ At(w, "mark")
  /\ schedules' = schedules + 1
  /\ restart_pending' = TRUE
  /\ Goto(w, "disable")
  /\ UNCHANGED <<accelerator_enabled, cache_status_before_restart, restart_in_progress,
                 force_restart_time, restarts, gen, lockfile, globals, control,
                 early, crashes, mishap>>

(* Mut: saved after accelerator_enabled has been cleared. *)
MutStatusBefore == FALSE
StatusBefore == accelerator_enabled

ScheduleDisable(w) ==
  /\ At(w, "disable")
  /\ cache_status_before_restart' = StatusBefore
  /\ accelerator_enabled' = FALSE
  /\ force_restart_time' = IF ForceRestart THEN "waiting" ELSE "none"
  /\ mishap' = (mishap \/ ~accelerator_enabled \/ ~restart_pending)
  /\ Goto(w, IF locked[w] THEN "unlock" ELSE "run")
  /\ UNCHANGED <<restart_pending, restart_in_progress, restarts, gen, lockfile,
                 globals, control, early, schedules, crashes>>

(* time() reaches force_restart_time. *)
TimePasses ==
  /\ force_restart_time = "waiting"
  /\ force_restart_time' = "due"
  /\ UNCHANGED <<restart_pending, accelerator_enabled, cache_status_before_restart,
                 restart_in_progress, restarts, gen, lockfile, globals, pc, control, history>>

-----------------------------------------------------------------------------
(* opcache_invalidate() and opcache_get_status(): accelerator_shm_read_lock *)
(* around the access to SHM.                                                *)
ApiBegin(w) ==
  /\ At(w, "run") /\ "api" \in Calls
  /\ enabled[w] /\ accelerator_enabled
  /\ Goto(w, IF counted[w] THEN "apiread" ELSE "apiadd")
  /\ UNCHANGED <<shm, lockfile, globals, control, history>>

ApiAdd(w) ==
  /\ At(w, "apiadd")
  /\ TakeUsage(w)
  /\ Goto(w, "apicheck")
  /\ UNCHANGED <<shm, mem_write, restart_lock, globals, control, schedules, crashes, mishap>>

ApiCheck(w) ==
  /\ At(w, "apicheck")
  /\ IF restart_in_progress
     THEN /\ mem_usage' = mem_usage \ {ProcOf[w]}
          /\ early' = [early EXCEPT ![w] = FALSE]
          /\ Goto(w, "run")
     ELSE Goto(w, "apiread") /\ UNCHANGED <<mem_usage, early>>
  /\ UNCHANGED <<shm, mem_write, restart_lock, globals, control, schedules, crashes, mishap>>

(* The script is looked up; opcache_invalidate() marks it under the lock. *)
ApiRead(w) ==
  /\ At(w, "apiread")
  /\ refs' = [refs EXCEPT ![w] = @ \cup {gen}]
  /\ \/ Goto(w, "apiend") /\ UNCHANGED back
     \/ "save" \in Calls /\ Goto(w, "savelock") /\ back' = [back EXCEPT ![w] = "apiend"]
  /\ UNCHANGED <<shm, lockfile, enabled, counted, locked, cache_persistent_script, tries, history>>

KeepsLock(w) == counted[w]

(* accelerator_shm_read_unlock: "counted is 0 - meaning we had to readlock  *)
(* manually, release readlock now".                                         *)
ApiEnd(w) ==
  /\ At(w, "apiend")
  /\ IF KeepsLock(w)
     THEN UNCHANGED <<mem_usage, refs, early>>
     ELSE /\ mem_usage' = mem_usage \ {ProcOf[w]}
          /\ refs' = [refs EXCEPT ![w] = {}]
          /\ early' = [early EXCEPT ![w] = FALSE]
  /\ Goto(w, "run")
  /\ UNCHANGED <<shm, mem_write, restart_lock, enabled, counted, locked,
                 cache_persistent_script, control, schedules, crashes, mishap>>

(* zend_accel_invalidate of a path that does not exist returns between the  *)
(* read lock and its release.                                               *)
InvalidateMissing(w) ==
  /\ At(w, "apiread") /\ "missing" \in Calls
  /\ Goto(w, "run")
  /\ UNCHANGED <<shm, lockfile, globals, control, history>>

(* ini_set('opcache.enable', 0): OnEnable. *)
IniDisable(w) ==
  /\ At(w, "run") /\ "ini" \in Calls
  /\ enabled' = [enabled EXCEPT ![w] = FALSE]
  /\ UNCHANGED <<shm, lockfile, counted, locked, cache_persistent_script, refs,
                 pc, control, history>>

(* accel_deactivate, at the end of the request or after a fatal error in it *)
(* ("be sure we didn't leave cache locked"); the engine then frees what the *)
(* request used and restores the ini settings.                              *)
Deactivate(w) ==
  /\ pc[w] \in {"run", "lookup", "save", "apiread"}
  /\ IF enabled[w]
     THEN /\ UnlockAll(w)
          /\ counted' = Uncount(w)
          /\ locked' = [locked EXCEPT ![w] = FALSE]
     ELSE UNCHANGED <<lockfile, counted, locked>>
  /\ enabled' = [enabled EXCEPT ![w] = TRUE]
  /\ refs' = [refs EXCEPT ![w] = {}]
  /\ early' = [early EXCEPT ![w] = FALSE]
  /\ back' = [back EXCEPT ![w] = "run"]
  /\ Goto(w, "idle")
  /\ UNCHANGED <<shm, cache_persistent_script, tries, schedules, crashes, mishap>>

-----------------------------------------------------------------------------
Restart(w) == \/ RestartEnter(w) \/ RestartClean(w) \/ RestartReenable(w) \/ RestartLeave(w)
Kill(w) == (\E p \in Process : KillLocker(w, p)) \/ KillDone(w)
Activate(w) == ActivateLock(w) \/ ActivateRecheck(w)
Compile(w) == \/ RestartProbe(w) \/ RestartClear(w) \/ CompileCount(w) \/ CompileLookup(w)
              \/ SaveLock(w) \/ SaveScript(w)
Api(w) == \/ ApiAdd(w) \/ ApiCheck(w) \/ ApiRead(w) \/ ApiEnd(w) \/ InvalidateMissing(w)
Schedule(w) == ScheduleMark(w) \/ ScheduleDisable(w)

(* What a worker does once it has started an operation, and what the script *)
(* it runs may ask for.                                                     *)
Continue(w) == \/ Activate(w) \/ Restart(w) \/ Kill(w) \/ Unlock(w)
               \/ Compile(w) \/ Schedule(w) \/ Api(w)
Script(w) == \/ ResolvePath(w) \/ CompileCheck(w) \/ OpcacheReset(w)
             \/ ApiBegin(w) \/ IniDisable(w)

Next ==
  \/ \E w \in Worker : ActivateBegin(w) \/ Continue(w) \/ Script(w) \/ Deactivate(w)
  \/ \E p \in Process : Crash(p)
  \/ TimePasses

Spec == Init /\ [][Next]_vars

(* Scheduling: a worker goes on with an operation it has started, a lock    *)
(* that is free again and again is obtained, requests keep coming and the   *)
(* clock moves.  The requests of a prompt worker end, others may hang.      *)
StepFairness ==
  /\ \A w \in Worker : WF_vars(Continue(w)) /\ SF_vars(ActivateLock(w) \/ SaveLock(w))
                       /\ WF_vars(ActivateBegin(w))
  /\ WF_vars(TimePasses)
EndFairness == \A w \in Prompt : SF_vars(Deactivate(w) /\ At(w, "run"))

FairSpec == Spec /\ StepFairness /\ EndFairness

-----------------------------------------------------------------------------
(* Safety.                                                                  *)

(* A worker that took the usage lock before a restart was scheduled, with   *)
(* no pointer of an earlier look-up, never sees the cache wiped under the   *)
(* scripts it executes: accel_is_inactive sees its lock.                    *)
EarlyReadersAreSafe == \A w \in Worker : early[w] => refs[w] \subseteq {gen}

(* Restarts are not repeated: every one that is counted answers a schedule  *)
(* of its own, and a pending one has not been answered (the second test of  *)
(* restart_pending in accel_activate, under the lock).                      *)
OneRestartPerSchedule == restarts + (IF restart_pending THEN 1 ELSE 0) <= schedules

(* The cache is disabled only on account of a restart that is going to      *)
(* enable it again, unless a crash or a second scheduler tore one.          *)
DisabledForARestart ==
  accelerator_enabled \/ restart_pending \/ mishap
  \/ \E w \in Worker : pc[w] \in Restarting \cup {"disable"}

(* Only the worker that holds byte 0 and byte 2 wipes the cache, alone (in  *)
(* a non-ZTS build).                                                        *)
RestartIsExclusive ==
  \A w \in Worker : pc[w] \in RestartSection =>
    /\ mem_write = ProcOf[w] /\ restart_lock = ProcOf[w]
    /\ \A v \in Worker : v # w => ~locked[v]

(* counted means that the worker holds the usage lock (true in a non-ZTS
   build; it is what accelerator_shm_read_lock relies on). *)
CountedHoldsLock == \A w \in Worker : counted[w] => ProcOf[w] \in mem_usage

(* Liveness.                                                                *)

(* A scheduled restart happens, whoever dies in between, unless a crash or  *)
(* a second scheduler tore it: one whose scheduler died before it disabled  *)
(* the cache may be put off for ever by ever new readers.                   *)
RestartHappens == restart_pending ~> (~restart_pending \/ mishap)

(* A disabled cache comes back, unless a restart was torn. *)
CacheComesBack == ~accelerator_enabled ~> (accelerator_enabled \/ mishap)

-----------------------------------------------------------------------------
(* What comments and the README say, and the code does not do.              *)

(* "Now if we weren't inside restart, restart would not begin until we      *)
(* remove usage lock" (accelerator_shm_read_lock): no restart is under way  *)
(* while an API call reads SHM.                                             *)
ReadLockHoldsOffRestart ==
  \A w \in Worker : At(w, "apiread") => \A v \in Worker : pc[v] \notin RestartSection

(* "don't schedule twice" (zend_accel_schedule_restart). *)
NeverScheduledTwice == schedules <= restarts + 1

(* "MUST call accelerator_shm_read_unlock after done lock operations": a    *)
(* request that is not counted holds no usage lock between API calls.       *)
ReadLockReleased ==
  \A w \in Worker : At(w, "run") /\ ~counted[w] => ProcOf[w] \notin mem_usage

(* "Can't kill %d after 20 tries!": kill_all_lockers gives up. *)
KillGivesUp == \A w \in Worker : At(w, "kill") ~> ~At(w, "kill")
=============================================================================
