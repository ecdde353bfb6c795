------------------------ MODULE AccelRestart_proofs ------------------------
(***************************************************************************)
(* Theorems about the restart protocol, for any number of workers and      *)
(* processes.  The history variables carry the argument: "early" says when *)
(* the usage lock was obtained, "mishap" that a restart was torn.          *)
(***************************************************************************)
EXTENDS AccelRestart, TLAPS

USE DEF At, Goto, Free, Release, Label, Restarting, RestartSection,
        shm, lockfile, globals, control, history,
        UnlockAll, Uncount, StillPending, ForceDue, KillBudget, StatusAfter, StatusBefore, KeepsLock

(* Next, one disjunct per action: the case split of every proof below. *)
ActionOf(w) ==
  \/ ActivateBegin(w)
  \/ ActivateLock(w)
  \/ ActivateRecheck(w)
  \/ RestartEnter(w)
  \/ RestartClean(w)
  \/ RestartReenable(w)
  \/ RestartLeave(w)
  \/ KillDone(w)
  \/ Unlock(w)
  \/ RestartProbe(w)
  \/ RestartClear(w)
  \/ CompileCount(w)
  \/ CompileLookup(w)
  \/ SaveLock(w)
  \/ SaveScript(w)
  \/ ScheduleMark(w)
  \/ ScheduleDisable(w)
  \/ ApiAdd(w)
  \/ ApiCheck(w)
  \/ ApiRead(w)
  \/ ApiEnd(w)
  \/ InvalidateMissing(w)
  \/ ResolvePath(w)
  \/ CompileCheck(w)
  \/ OpcacheReset(w)
  \/ ApiBegin(w)
  \/ IniDisable(w)
  \/ Deactivate(w)

LEMMA NextCases ==
  Next <=> \/ \E w \in Worker : ActionOf(w) \/ \E p \in Process : KillLocker(w, p)
           \/ \E p \in Process : Crash(p)
           \/ TimePasses
BY DEF Next, Continue, Script, Activate, Restart, Kill, Compile, Api, Schedule, ActionOf

-----------------------------------------------------------------------------
(* Type correctness: the variables stay in their types whatever scripts do. *)
LEMMA DiesType ==
  ASSUME TypeOK, NEW p \in Process, Dies(p)
  PROVE  /\ mem_usage' \subseteq Process
         /\ mem_write' \in Process \cup {NoProc} /\ restart_lock' \in Process \cup {NoProc}
         /\ enabled' \in [Worker -> BOOLEAN] /\ counted' \in [Worker -> BOOLEAN]
         /\ locked' \in [Worker -> BOOLEAN]
         /\ cache_persistent_script' \in [Worker -> Nat \cup {NoGen}]
         /\ refs' \in [Worker -> SUBSET Nat] /\ early' \in [Worker -> BOOLEAN]
         /\ pc' \in [Worker -> Label] /\ back' \in [Worker -> {"run", "apiend"}]
         /\ mishap' \in BOOLEAN
BY DEF TypeOK, Dies

LEMMA TypeInit == Init => TypeOK
<1> SUFFICES ASSUME Init PROVE TypeOK
  OBVIOUS
<1> USE DEF Init
<1>1. tries \in [Worker -> -1..Tries]
  BY BoundAssumption
<1>2. refs \in [Worker -> SUBSET Nat]
  OBVIOUS
<1>3. pc \in [Worker -> Label]
  OBVIOUS
<1>4. back \in [Worker -> {"run", "apiend"}]
  OBVIOUS
<1>5. cache_persistent_script \in [Worker -> Nat \cup {NoGen}]
  OBVIOUS
<1>6. QED BY <1>1, <1>2, <1>3, <1>4, <1>5 DEF TypeOK

THEOREM TypeCorrect == Spec => []TypeOK
<1>1. Init => TypeOK
  BY TypeInit
<1>2. TypeOK /\ [Next]_vars => TypeOK'
  <2> SUFFICES ASSUME TypeOK, [Next]_vars PROVE TypeOK'
    OBVIOUS
  <2> USE WorkerAssumption, BoundAssumption DEF TypeOK
  <2>1. ASSUME NEW w \in Worker, ActivateBegin(w) PROVE TypeOK'
    BY <2>1 DEF ActivateBegin
  <2>2. ASSUME NEW w \in Worker, ActivateLock(w) PROVE TypeOK'
    BY <2>2 DEF ActivateLock, AllocLock
  <2>3. ASSUME NEW w \in Worker, ActivateRecheck(w) PROVE TypeOK'
    <3>1. restarts' \in {restarts, restarts + 1} /\ restart_pending' \in {restart_pending, FALSE}
      BY <2>3, Zenon DEF ActivateRecheck
    <3>2. restarts' \in Nat
      BY <3>1
    <3>3. restart_pending' \in BOOLEAN
      BY <3>1
    <3>4. tries' \in [Worker -> -1..Tries] /\ force_restart_time' \in {"none", "waiting", "due"}
      BY <2>3 DEF ActivateRecheck
    <3>5. pc' \in [Worker -> Label]
      BY <2>3 DEF ActivateRecheck
    <3>6. QED BY <2>3, <3>2, <3>3, <3>4, <3>5 DEF ActivateRecheck
  <2>4. ASSUME NEW w \in Worker, RestartEnter(w) PROVE TypeOK'
    BY <2>4 DEF RestartEnter
  <2>5. ASSUME NEW w \in Worker, RestartClean(w) PROVE TypeOK'
    <3>1. gen' \in Nat
      BY <2>5 DEF RestartClean
    <3>2. QED BY <2>5, <3>1 DEF RestartClean
  <2>6. ASSUME NEW w \in Worker, RestartReenable(w) PROVE TypeOK'
    BY <2>6 DEF RestartReenable
  <2>7. ASSUME NEW w \in Worker, RestartLeave(w) PROVE TypeOK'
    BY <2>7 DEF RestartLeave
  <2>8. ASSUME NEW w \in Worker, KillDone(w) PROVE TypeOK'
    BY <2>8 DEF KillDone
  <2>9. ASSUME NEW w \in Worker, Unlock(w) PROVE TypeOK'
    BY <2>9 DEF Unlock, AllocUnlock
  <2>10. ASSUME NEW w \in Worker, RestartProbe(w) PROVE TypeOK'
    BY <2>10 DEF RestartProbe
  <2>11. ASSUME NEW w \in Worker, RestartClear(w) PROVE TypeOK'
    BY <2>11 DEF RestartClear
  <2>12. ASSUME NEW w \in Worker, CompileCount(w) PROVE TypeOK'
    BY <2>12 DEF CompileCount, TakeUsage
  <2>13. ASSUME NEW w \in Worker, CompileLookup(w) PROVE TypeOK'
    BY <2>13 DEF CompileLookup
  <2>14. ASSUME NEW w \in Worker, SaveLock(w) PROVE TypeOK'
    BY <2>14 DEF SaveLock, AllocLock
  <2>15. ASSUME NEW w \in Worker, SaveScript(w) PROVE TypeOK'
    BY <2>15 DEF SaveScript
  <2>16. ASSUME NEW w \in Worker, ScheduleMark(w) PROVE TypeOK'
    BY <2>16 DEF ScheduleMark
  <2>17. ASSUME NEW w \in Worker, ScheduleDisable(w) PROVE TypeOK'
    BY <2>17 DEF ScheduleDisable
  <2>18. ASSUME NEW w \in Worker, ApiAdd(w) PROVE TypeOK'
    BY <2>18 DEF ApiAdd, TakeUsage
  <2>19. ASSUME NEW w \in Worker, ApiCheck(w) PROVE TypeOK'
    BY <2>19 DEF ApiCheck
  <2>20. ASSUME NEW w \in Worker, ApiRead(w) PROVE TypeOK'
    BY <2>20 DEF ApiRead
  <2>21. ASSUME NEW w \in Worker, ApiEnd(w) PROVE TypeOK'
    BY <2>21 DEF ApiEnd
  <2>22. ASSUME NEW w \in Worker, InvalidateMissing(w) PROVE TypeOK'
    BY <2>22 DEF InvalidateMissing
  <2>23. ASSUME NEW w \in Worker, ResolvePath(w) PROVE TypeOK'
    BY <2>23 DEF ResolvePath
  <2>24. ASSUME NEW w \in Worker, CompileCheck(w) PROVE TypeOK'
    BY <2>24 DEF CompileCheck
  <2>25. ASSUME NEW w \in Worker, OpcacheReset(w) PROVE TypeOK'
    BY <2>25 DEF OpcacheReset
  <2>26. ASSUME NEW w \in Worker, ApiBegin(w) PROVE TypeOK'
    BY <2>26 DEF ApiBegin
  <2>27. ASSUME NEW w \in Worker, IniDisable(w) PROVE TypeOK'
    BY <2>27 DEF IniDisable
  <2>28. ASSUME NEW w \in Worker, Deactivate(w) PROVE TypeOK'
    BY <2>28 DEF Deactivate
  <2>29. ASSUME NEW w \in Worker, NEW p \in Process, KillLocker(w, p) PROVE TypeOK'
    <3>1. tries' \in [Worker -> -1..Tries]
      BY <2>29 DEF KillLocker
    <3>2. CASE Dies(p)
      BY <2>29, <3>1, <3>2, DiesType DEF KillLocker
    <3>3. CASE UNCHANGED <<lockfile, globals, pc, back, early, mishap>>
      BY <2>29, <3>1, <3>3 DEF KillLocker
    <3>4. QED BY <2>29, <3>2, <3>3 DEF KillLocker
  <2>30. ASSUME NEW p \in Process, Crash(p) PROVE TypeOK'
    BY <2>30, DiesType DEF Crash
  <2>31. CASE TimePasses
    BY <2>31 DEF TimePasses
  <2>32. CASE UNCHANGED vars
    BY <2>32 DEF vars
  <2>33. QED
    BY <2>1, <2>2, <2>3, <2>4, <2>5, <2>6, <2>7, <2>8, <2>9, <2>10, <2>11, <2>12, <2>13, <2>14, <2>15, <2>16, <2>17, <2>18, <2>19, <2>20, <2>21, <2>22, <2>23, <2>24, <2>25, <2>26, <2>27, <2>28, <2>29, <2>30, <2>31, <2>32, NextCases DEF ActionOf
<1>3. QED
  BY <1>1, <1>2, PTL DEF Spec

-----------------------------------------------------------------------------
(* Restarts are not repeated: the counted restarts and the pending one are  *)
(* together no more than the schedules.  Only three actions touch the three *)
(* numbers; the invariant is inductive together with TypeOK.                *)
THEOREM RestartsAnswerSchedules == Spec => []OneRestartPerSchedule
<1>1. Init => OneRestartPerSchedule
  BY DEF Init, OneRestartPerSchedule
<1>2. TypeOK /\ OneRestartPerSchedule /\ [Next]_vars => OneRestartPerSchedule'
  <2> SUFFICES ASSUME TypeOK, OneRestartPerSchedule, [Next]_vars
               PROVE  OneRestartPerSchedule'
    OBVIOUS
  <2>0. restarts \in Nat /\ schedules \in Nat /\ restart_pending \in BOOLEAN
    BY DEF TypeOK
  <2>1. CASE UNCHANGED <<restarts, schedules, restart_pending>>
    BY <2>1 DEF OneRestartPerSchedule
  <2>2. ASSUME NEW w \in Worker, ActivateRecheck(w) PROVE OneRestartPerSchedule'
    <3>1. \/ UNCHANGED <<restarts, schedules, restart_pending>>
          \/ restart_pending /\ restart_pending' = FALSE /\ restarts' = restarts + 1 /\ schedules' = schedules
      BY <2>2 DEF ActivateRecheck
    <3>2. QED BY <3>1, <2>0, <2>1 DEF OneRestartPerSchedule
  <2>3. ASSUME NEW w \in Worker, RestartClean(w) PROVE OneRestartPerSchedule'
    BY <2>0, <2>3 DEF RestartClean, OneRestartPerSchedule
  <2>4. ASSUME NEW w \in Worker, ScheduleMark(w) PROVE OneRestartPerSchedule'
    <3>1. restart_pending' = TRUE /\ restarts' = restarts /\ schedules' = schedules + 1
      BY <2>4 DEF ScheduleMark
    <3>2. restarts <= schedules
      BY <2>0 DEF OneRestartPerSchedule
    <3>3. QED BY <2>0, <3>1, <3>2 DEF OneRestartPerSchedule
  <2>5. ASSUME NEW w \in Worker, ActionOf(w),
               ~ActivateRecheck(w), ~RestartClean(w), ~ScheduleMark(w)
        PROVE  UNCHANGED <<restarts, schedules, restart_pending>>
    BY <2>5 DEF ActionOf, ActivateBegin, ActivateLock, RestartEnter, RestartReenable, RestartLeave, KillDone, Unlock, RestartProbe, RestartClear, CompileCount, CompileLookup, SaveLock, SaveScript, ScheduleDisable, ApiAdd, ApiCheck, ApiRead, ApiEnd, InvalidateMissing, ResolvePath, CompileCheck, OpcacheReset, ApiBegin, IniDisable, Deactivate
  <2>6. ASSUME NEW w \in Worker, NEW p \in Process, KillLocker(w, p)
        PROVE  UNCHANGED <<restarts, schedules, restart_pending>>
    BY <2>6 DEF KillLocker
  <2>7. ASSUME NEW p \in Process, Crash(p)
        PROVE  UNCHANGED <<restarts, schedules, restart_pending>>
    BY <2>7 DEF Crash
  <2>8. CASE TimePasses
    BY <2>1, <2>8 DEF TimePasses
  <2>9. CASE UNCHANGED vars
    BY <2>1, <2>9 DEF vars
  <2>10. QED
    BY <2>1, <2>2, <2>3, <2>4, <2>5, <2>6, <2>7, <2>8, <2>9, NextCases
<1>3. QED
  BY <1>1, <1>2, TypeCorrect, PTL DEF Spec

-----------------------------------------------------------------------------
(* The cache is not left disabled.  DisabledForARestart is not inductive:   *)
(* accelerator_enabled gets its value from cache_status_before_restart, so  *)
(* that the saved status must be right whenever a restart will read it.     *)
Reviving == \E w \in Worker : pc[w] \in Restarting
Disabling == \E w \in Worker : pc[w] = "disable"
StatusSaved == restart_pending \/ Reviving => cache_status_before_restart \/ mishap \/ Disabling
EnabledInv == TypeOK /\ StatusSaved /\ (accelerator_enabled \/ restart_pending \/ mishap \/ Reviving \/ Disabling)

LEMMA EnabledInvImplies == EnabledInv => DisabledForARestart
BY DEF EnabledInv, Reviving, Disabling, DisabledForARestart

(* Most actions move no worker into or out of the control points that the   *)
(* invariant looks at, and touch none of its flags.                         *)
LEMMA QuietStep ==
  ASSUME EnabledInv, TypeOK',
         UNCHANGED <<restart_pending, cache_status_before_restart, accelerator_enabled, mishap>>,
         \A v \in Worker : pc[v] \in Restarting <=> pc'[v] \in Restarting,
         \A v \in Worker : pc[v] = "disable" <=> pc'[v] = "disable"
  PROVE  EnabledInv'
<1>1. Reviving' <=> Reviving
  BY Zenon DEF Reviving
<1>2. Disabling' <=> Disabling
  BY Zenon DEF Disabling
<1>3. QED
  BY <1>1, <1>2 DEF EnabledInv, StatusSaved

THEOREM CacheIsNotLeftDisabled == Spec => []DisabledForARestart
<1>1. Init => EnabledInv
  <2>1. Init => TypeOK
    BY TypeInit
  <2>2. QED BY <2>1 DEF Init, EnabledInv, StatusSaved, Reviving
<1>2. TypeOK' /\ EnabledInv /\ [Next]_vars => EnabledInv'
  <2> SUFFICES ASSUME TypeOK', EnabledInv, [Next]_vars PROVE EnabledInv'
    OBVIOUS
  <2>0. TypeOK
    BY DEF EnabledInv
  <2>1. ASSUME NEW w \in Worker, ActivateRecheck(w) PROVE EnabledInv'
    <3>1. CASE UNCHANGED restart_pending
      BY <2>1, <2>0, <3>1, QuietStep DEF ActivateRecheck, TypeOK
    <3>2. CASE restart_pending /\ pc' = [pc EXCEPT ![w] = "enter"]
      <4>1. pc'[w] \in Restarting
        BY <2>0, <3>2 DEF TypeOK
      <4>2. Reviving'
        BY <4>1 DEF Reviving
      <4>3. Disabling => Disabling'
        BY <2>0, <2>1, <3>2 DEF Disabling, TypeOK, ActivateRecheck
      <4>4. UNCHANGED <<cache_status_before_restart, mishap, accelerator_enabled>>
        BY <2>1 DEF ActivateRecheck
      <4>5. QED BY <3>2, <4>2, <4>3, <4>4 DEF EnabledInv, StatusSaved
    <3>3. QED BY <2>1, <3>1, <3>2 DEF ActivateRecheck
  <2>2. ASSUME NEW w \in Worker, RestartClean(w) PROVE EnabledInv'
    <3>1. pc[w] \in Restarting /\ pc'[w] \in Restarting
      BY <2>0, <2>2 DEF RestartClean, TypeOK
    <3>2. Reviving /\ Reviving'
      BY <3>1 DEF Reviving
    <3>3. Disabling => Disabling'
      BY <2>0, <2>2 DEF Disabling, TypeOK, RestartClean
    <3>4. UNCHANGED <<cache_status_before_restart, mishap, accelerator_enabled>>
      BY <2>2 DEF RestartClean
    <3>5. QED BY <3>2, <3>3, <3>4 DEF EnabledInv, StatusSaved
  <2>3. ASSUME NEW w \in Worker, RestartReenable(w) PROVE EnabledInv'
    <3>1. Reviving
      BY <2>3 DEF RestartReenable, Reviving
    <3>2. cache_status_before_restart \/ mishap \/ Disabling
      BY <3>1 DEF EnabledInv, StatusSaved
    <3>3. Disabling => Disabling'
      BY <2>0, <2>3 DEF Disabling, TypeOK, RestartReenable
    <3>4. accelerator_enabled' = cache_status_before_restart
          /\ UNCHANGED <<cache_status_before_restart, mishap>>
      BY <2>3 DEF RestartReenable
    <3>5. QED BY <3>2, <3>3, <3>4 DEF EnabledInv, StatusSaved
  <2>4. ASSUME NEW w \in Worker, ScheduleMark(w) PROVE EnabledInv'
    <3>1. pc'[w] = "disable"
      BY <2>0, <2>4 DEF ScheduleMark, TypeOK
    <3>2. Disabling'
      BY <3>1 DEF Disabling
    <3>3. QED BY <3>2 DEF EnabledInv, StatusSaved
  <2>5. ASSUME NEW w \in Worker, ScheduleDisable(w) PROVE EnabledInv'
    <3>1. \/ mishap'
          \/ cache_status_before_restart' /\ restart_pending'
      BY <2>0, <2>5 DEF ScheduleDisable, TypeOK
    <3>2. QED BY <3>1 DEF EnabledInv, StatusSaved
  <2>6. ASSUME NEW p \in Process, Dies(p),
               UNCHANGED <<restart_pending, cache_status_before_restart, accelerator_enabled>>
        PROVE  EnabledInv'
    <3>1. CASE mishap'
      BY <3>1 DEF EnabledInv, StatusSaved
    <3>2. CASE ~mishap'
      <4>1. \A v \in Worker : ProcOf[v] = p => pc[v] \notin Restarting \cup {"disable"}
        BY <2>6, <3>2 DEF Dies
      <4>2. \A v \in Worker : pc'[v] = IF ProcOf[v] = p THEN "idle" ELSE pc[v]
        BY <2>6 DEF Dies
      <4>3. \A v \in Worker : pc[v] \in Restarting <=> pc'[v] \in Restarting
        BY <4>1, <4>2
      <4>4. \A v \in Worker : pc[v] = "disable" <=> pc'[v] = "disable"
        BY <4>1, <4>2
      <4>5. UNCHANGED mishap
        BY <2>6, <2>0, <3>2 DEF Dies, TypeOK
      <4>6. QED BY <2>6, <4>3, <4>4, <4>5, QuietStep
    <3>3. QED BY <3>1, <3>2
  <2>7. ASSUME NEW w \in Worker, NEW p \in Process, KillLocker(w, p) PROVE EnabledInv'
    <3>1. UNCHANGED <<restart_pending, cache_status_before_restart, accelerator_enabled>>
      BY <2>7 DEF KillLocker
    <3>2. CASE Dies(p)
      BY <2>6, <3>1, <3>2
    <3>3. CASE UNCHANGED <<pc, mishap>>
      BY <3>1, <3>3, QuietStep
    <3>4. QED BY <2>7, <3>2, <3>3 DEF KillLocker
  <2>8. ASSUME NEW p \in Process, Crash(p) PROVE EnabledInv'
    BY <2>6, <2>8 DEF Crash
  <2>9. ASSUME NEW w \in Worker, RestartEnter(w) PROVE EnabledInv'
    BY <2>0, <2>9, QuietStep DEF RestartEnter, TypeOK
  <2>10. ASSUME NEW w \in Worker, ActivateBegin(w) PROVE EnabledInv'
    BY <2>0, <2>10, QuietStep DEF ActivateBegin, TypeOK
  <2>11. ASSUME NEW w \in Worker, ActivateLock(w) PROVE EnabledInv'
    BY <2>0, <2>11, QuietStep DEF ActivateLock, TypeOK
  <2>12. ASSUME NEW w \in Worker, RestartLeave(w) PROVE EnabledInv'
    BY <2>0, <2>12, QuietStep DEF RestartLeave, TypeOK
  <2>13. ASSUME NEW w \in Worker, KillDone(w) PROVE EnabledInv'
    BY <2>0, <2>13, QuietStep DEF KillDone, TypeOK
  <2>14. ASSUME NEW w \in Worker, Unlock(w) PROVE EnabledInv'
    BY <2>0, <2>14, QuietStep DEF Unlock, TypeOK
  <2>15. ASSUME NEW w \in Worker, RestartProbe(w) PROVE EnabledInv'
    BY <2>0, <2>15, QuietStep DEF RestartProbe, TypeOK
  <2>16. ASSUME NEW w \in Worker, RestartClear(w) PROVE EnabledInv'
    BY <2>0, <2>16, QuietStep DEF RestartClear, TypeOK
  <2>17. ASSUME NEW w \in Worker, CompileCount(w) PROVE EnabledInv'
    BY <2>0, <2>17, QuietStep DEF CompileCount, TypeOK
  <2>18. ASSUME NEW w \in Worker, CompileLookup(w) PROVE EnabledInv'
    BY <2>0, <2>18, QuietStep DEF CompileLookup, TypeOK
  <2>19. ASSUME NEW w \in Worker, SaveLock(w) PROVE EnabledInv'
    BY <2>0, <2>19, QuietStep DEF SaveLock, TypeOK
  <2>20. ASSUME NEW w \in Worker, SaveScript(w) PROVE EnabledInv'
    BY <2>0, <2>20, QuietStep DEF SaveScript, TypeOK
  <2>21. ASSUME NEW w \in Worker, ApiAdd(w) PROVE EnabledInv'
    BY <2>0, <2>21, QuietStep DEF ApiAdd, TypeOK
  <2>22. ASSUME NEW w \in Worker, ApiCheck(w) PROVE EnabledInv'
    BY <2>0, <2>22, QuietStep DEF ApiCheck, TypeOK
  <2>23. ASSUME NEW w \in Worker, ApiRead(w) PROVE EnabledInv'
    BY <2>0, <2>23, QuietStep DEF ApiRead, TypeOK
  <2>24. ASSUME NEW w \in Worker, ApiEnd(w) PROVE EnabledInv'
    BY <2>0, <2>24, QuietStep DEF ApiEnd, TypeOK
  <2>25. ASSUME NEW w \in Worker, InvalidateMissing(w) PROVE EnabledInv'
    BY <2>0, <2>25, QuietStep DEF InvalidateMissing, TypeOK
  <2>26. ASSUME NEW w \in Worker, ResolvePath(w) PROVE EnabledInv'
    BY <2>0, <2>26, QuietStep DEF ResolvePath, TypeOK
  <2>27. ASSUME NEW w \in Worker, CompileCheck(w) PROVE EnabledInv'
    BY <2>0, <2>27, QuietStep DEF CompileCheck, TypeOK
  <2>28. ASSUME NEW w \in Worker, OpcacheReset(w) PROVE EnabledInv'
    BY <2>0, <2>28, QuietStep DEF OpcacheReset, TypeOK
  <2>29. ASSUME NEW w \in Worker, ApiBegin(w) PROVE EnabledInv'
    BY <2>0, <2>29, QuietStep DEF ApiBegin, TypeOK
  <2>30. ASSUME NEW w \in Worker, IniDisable(w) PROVE EnabledInv'
    BY <2>0, <2>30, QuietStep DEF IniDisable, TypeOK
  <2>31. ASSUME NEW w \in Worker, Deactivate(w) PROVE EnabledInv'
    BY <2>0, <2>31, QuietStep DEF Deactivate, TypeOK
  <2>32. CASE TimePasses
    BY <2>32, QuietStep DEF TimePasses
  <2>33. CASE UNCHANGED vars
    BY <2>33, QuietStep DEF vars
  <2>34. QED
    BY <2>1, <2>2, <2>3, <2>4, <2>5, <2>7, <2>8, <2>9, <2>10, <2>11, <2>12, <2>13, <2>14, <2>15, <2>16, <2>17, <2>18, <2>19, <2>20, <2>21, <2>22, <2>23, <2>24, <2>25, <2>26, <2>27, <2>28, <2>29, <2>30, <2>31, <2>32, <2>33, NextCases DEF ActionOf
<1>3. QED
  BY <1>1, <1>2, TypeCorrect, EnabledInvImplies, PTL DEF Spec

-----------------------------------------------------------------------------
(* The usage lock protects.  In a non-ZTS build every worker has a process  *)
(* of its own, so that no other worker can drop its locks.                  *)
NonZTS == \A v, w \in Worker : ProcOf[v] = ProcOf[w] => v = w

(* A worker that was early enough still holds the lock, has not begun       *)
(* another request, and no restarter is past the point of no return: the    *)
(* test of accel_is_inactive would have seen the lock.                      *)
Outside == {"idle", "lock", "recheck", "kill", "leave"} \cup Restarting
Protected(w) ==
  /\ ProcOf[w] \in mem_usage
  /\ refs[w] \subseteq {gen}
  /\ cache_persistent_script[w] \in {NoGen, gen}
  /\ pc[w] \notin Outside
  /\ \A v \in Worker : pc[v] \notin {"enter", "clean"}
ReaderInv == \A w \in Worker : early[w] => Protected(w)

THEOREM UsageLockProtects == ASSUME NonZTS PROVE Spec => []EarlyReadersAreSafe
<1>1. Init => ReaderInv
  BY DEF Init, ReaderInv
<1>2. TypeOK /\ ReaderInv /\ [Next]_vars => ReaderInv'
  <2> SUFFICES ASSUME TypeOK, ReaderInv, [Next]_vars, NEW w \in Worker, early'[w]
               PROVE  Protected(w)'
    BY DEF ReaderInv
  <2>0. early[w] => Protected(w)
    BY DEF ReaderInv
  <2> USE WorkerAssumption DEF TypeOK, NonZTS, Protected, Outside
  <2>1. ASSUME NEW v \in Worker, ActivateBegin(v) PROVE Protected(w)'
    BY <2>0, <2>1 DEF ActivateBegin
  <2>2. ASSUME NEW v \in Worker, ActivateLock(v) PROVE Protected(w)'
    BY <2>0, <2>2 DEF ActivateLock, AllocLock
  <2>3. ASSUME NEW v \in Worker, ActivateRecheck(v) PROVE Protected(w)'
    BY <2>0, <2>3 DEF ActivateRecheck, OtherUsers
  <2>4. ASSUME NEW v \in Worker, RestartEnter(v) PROVE Protected(w)'
    BY <2>0, <2>4 DEF RestartEnter
  <2>5. ASSUME NEW v \in Worker, RestartClean(v) PROVE Protected(w)'
    BY <2>0, <2>5 DEF RestartClean
  <2>6. ASSUME NEW v \in Worker, RestartReenable(v) PROVE Protected(w)'
    BY <2>0, <2>6 DEF RestartReenable
  <2>7. ASSUME NEW v \in Worker, RestartLeave(v) PROVE Protected(w)'
    BY <2>0, <2>7 DEF RestartLeave
  <2>8. ASSUME NEW v \in Worker, KillDone(v) PROVE Protected(w)'
    BY <2>0, <2>8 DEF KillDone
  <2>9. ASSUME NEW v \in Worker, Unlock(v) PROVE Protected(w)'
    BY <2>0, <2>9 DEF Unlock, AllocUnlock
  <2>10. ASSUME NEW v \in Worker, RestartProbe(v) PROVE Protected(w)'
    BY <2>0, <2>10 DEF RestartProbe
  <2>11. ASSUME NEW v \in Worker, RestartClear(v) PROVE Protected(w)'
    BY <2>0, <2>11 DEF RestartClear
  <2>12. ASSUME NEW v \in Worker, CompileCount(v) PROVE Protected(w)'
    <3>1. CASE early[w]
      BY <2>0, <2>12, <3>1 DEF CompileCount, TakeUsage
    <3>2. CASE ~early[w]
      BY <2>12, <3>2 DEF CompileCount, TakeUsage, Calm
    <3>3. QED BY <3>1, <3>2
  <2>13. ASSUME NEW v \in Worker, CompileLookup(v) PROVE Protected(w)'
    BY <2>0, <2>13 DEF CompileLookup
  <2>14. ASSUME NEW v \in Worker, SaveLock(v) PROVE Protected(w)'
    BY <2>0, <2>14 DEF SaveLock, AllocLock
  <2>15. ASSUME NEW v \in Worker, SaveScript(v) PROVE Protected(w)'
    BY <2>0, <2>15 DEF SaveScript
  <2>16. ASSUME NEW v \in Worker, ScheduleMark(v) PROVE Protected(w)'
    BY <2>0, <2>16 DEF ScheduleMark
  <2>17. ASSUME NEW v \in Worker, ScheduleDisable(v) PROVE Protected(w)'
    BY <2>0, <2>17 DEF ScheduleDisable
  <2>18. ASSUME NEW v \in Worker, ApiAdd(v) PROVE Protected(w)'
    <3>1. CASE early[w]
      BY <2>0, <2>18, <3>1 DEF ApiAdd, TakeUsage
    <3>2. CASE ~early[w]
      BY <2>18, <3>2 DEF ApiAdd, TakeUsage, Calm
    <3>3. QED BY <3>1, <3>2
  <2>19. ASSUME NEW v \in Worker, ApiCheck(v) PROVE Protected(w)'
    BY <2>0, <2>19 DEF ApiCheck
  <2>20. ASSUME NEW v \in Worker, ApiRead(v) PROVE Protected(w)'
    BY <2>0, <2>20 DEF ApiRead
  <2>21. ASSUME NEW v \in Worker, ApiEnd(v) PROVE Protected(w)'
    BY <2>0, <2>21 DEF ApiEnd
  <2>22. ASSUME NEW v \in Worker, InvalidateMissing(v) PROVE Protected(w)'
    BY <2>0, <2>22 DEF InvalidateMissing
  <2>23. ASSUME NEW v \in Worker, ResolvePath(v) PROVE Protected(w)'
    BY <2>0, <2>23 DEF ResolvePath
  <2>24. ASSUME NEW v \in Worker, CompileCheck(v) PROVE Protected(w)'
    BY <2>0, <2>24 DEF CompileCheck
  <2>25. ASSUME NEW v \in Worker, OpcacheReset(v) PROVE Protected(w)'
    BY <2>0, <2>25 DEF OpcacheReset
  <2>26. ASSUME NEW v \in Worker, ApiBegin(v) PROVE Protected(w)'
    BY <2>0, <2>26 DEF ApiBegin
  <2>27. ASSUME NEW v \in Worker, IniDisable(v) PROVE Protected(w)'
    BY <2>0, <2>27 DEF IniDisable
  <2>28. ASSUME NEW v \in Worker, Deactivate(v) PROVE Protected(w)'
    BY <2>0, <2>28 DEF Deactivate
  <2>29. ASSUME NEW p \in Process, Dies(p), UNCHANGED gen PROVE Protected(w)'
    BY <2>0, <2>29 DEF Dies
  <2>30. ASSUME NEW v \in Worker, NEW p \in Process, KillLocker(v, p) PROVE Protected(w)'
    BY <2>0, <2>29, <2>30 DEF KillLocker
  <2>31. ASSUME NEW p \in Process, Crash(p) PROVE Protected(w)'
    BY <2>29, <2>31 DEF Crash
  <2>32. CASE TimePasses
    BY <2>0, <2>32 DEF TimePasses
  <2>33. CASE UNCHANGED vars
    BY <2>0, <2>33 DEF vars
  <2>34. QED
    BY <2>1, <2>2, <2>3, <2>4, <2>5, <2>6, <2>7, <2>8, <2>9, <2>10, <2>11, <2>12, <2>13, <2>14, <2>15, <2>16, <2>17, <2>18, <2>19, <2>20, <2>21, <2>22, <2>23, <2>24, <2>25, <2>26, <2>27, <2>28, <2>29, <2>30, <2>31, <2>32, <2>33, NextCases DEF ActionOf
<1>3. ReaderInv => EarlyReadersAreSafe
  BY DEF ReaderInv, EarlyReadersAreSafe, Protected
<1>4. QED
  BY <1>1, <1>2, <1>3, TypeCorrect, PTL DEF Spec

-----------------------------------------------------------------------------
(* What accelerator_shm_read_lock relies on.  The API drops the usage lock  *)
(* only where it took it itself, which it does in uncounted requests.       *)
CountInv == \A w \in Worker :
  /\ counted[w] => ProcOf[w] \in mem_usage
  /\ pc[w] \in {"apiadd", "apicheck"} => ~counted[w]

THEOREM CountedMeansLocked == ASSUME NonZTS PROVE Spec => []CountedHoldsLock
<1>1. Init => CountInv
  BY DEF Init, CountInv
<1>2. TypeOK /\ CountInv /\ [Next]_vars => CountInv'
  <2> SUFFICES ASSUME TypeOK, CountInv, [Next]_vars PROVE CountInv'
    OBVIOUS
  <2> USE WorkerAssumption DEF TypeOK, NonZTS, CountInv
  <2>1. ASSUME NEW v \in Worker, ActivateBegin(v) PROVE CountInv'
    BY <2>1 DEF ActivateBegin
  <2>2. ASSUME NEW v \in Worker, ActivateLock(v) PROVE CountInv'
    BY <2>2 DEF ActivateLock, AllocLock
  <2>3. ASSUME NEW v \in Worker, ActivateRecheck(v) PROVE CountInv'
    BY <2>3 DEF ActivateRecheck
  <2>4. ASSUME NEW v \in Worker, RestartEnter(v) PROVE CountInv'
    BY <2>4 DEF RestartEnter
  <2>5. ASSUME NEW v \in Worker, RestartClean(v) PROVE CountInv'
    BY <2>5 DEF RestartClean
  <2>6. ASSUME NEW v \in Worker, RestartReenable(v) PROVE CountInv'
    BY <2>6 DEF RestartReenable
  <2>7. ASSUME NEW v \in Worker, RestartLeave(v) PROVE CountInv'
    BY <2>7 DEF RestartLeave
  <2>8. ASSUME NEW v \in Worker, KillDone(v) PROVE CountInv'
    BY <2>8 DEF KillDone
  <2>9. ASSUME NEW v \in Worker, Unlock(v) PROVE CountInv'
    BY <2>9 DEF Unlock, AllocUnlock
  <2>10. ASSUME NEW v \in Worker, RestartProbe(v) PROVE CountInv'
    BY <2>10 DEF RestartProbe
  <2>11. ASSUME NEW v \in Worker, RestartClear(v) PROVE CountInv'
    BY <2>11 DEF RestartClear
  <2>12. ASSUME NEW v \in Worker, CompileCount(v) PROVE CountInv'
    BY <2>12 DEF CompileCount, TakeUsage
  <2>13. ASSUME NEW v \in Worker, CompileLookup(v) PROVE CountInv'
    BY <2>13 DEF CompileLookup
  <2>14. ASSUME NEW v \in Worker, SaveLock(v) PROVE CountInv'
    BY <2>14 DEF SaveLock, AllocLock
  <2>15. ASSUME NEW v \in Worker, SaveScript(v) PROVE CountInv'
    BY <2>15 DEF SaveScript
  <2>16. ASSUME NEW v \in Worker, ScheduleMark(v) PROVE CountInv'
    BY <2>16 DEF ScheduleMark
  <2>17. ASSUME NEW v \in Worker, ScheduleDisable(v) PROVE CountInv'
    BY <2>17 DEF ScheduleDisable
  <2>18. ASSUME NEW v \in Worker, ApiAdd(v) PROVE CountInv'
    BY <2>18 DEF ApiAdd, TakeUsage
  <2>19. ASSUME NEW v \in Worker, ApiCheck(v) PROVE CountInv'
    BY <2>19 DEF ApiCheck
  <2>20. ASSUME NEW v \in Worker, ApiRead(v) PROVE CountInv'
    BY <2>20 DEF ApiRead
  <2>21. ASSUME NEW v \in Worker, ApiEnd(v) PROVE CountInv'
    BY <2>21 DEF ApiEnd
  <2>22. ASSUME NEW v \in Worker, InvalidateMissing(v) PROVE CountInv'
    BY <2>22 DEF InvalidateMissing
  <2>23. ASSUME NEW v \in Worker, ResolvePath(v) PROVE CountInv'
    BY <2>23 DEF ResolvePath
  <2>24. ASSUME NEW v \in Worker, CompileCheck(v) PROVE CountInv'
    BY <2>24 DEF CompileCheck
  <2>25. ASSUME NEW v \in Worker, OpcacheReset(v) PROVE CountInv'
    BY <2>25 DEF OpcacheReset
  <2>26. ASSUME NEW v \in Worker, ApiBegin(v) PROVE CountInv'
    BY <2>26 DEF ApiBegin
  <2>27. ASSUME NEW v \in Worker, IniDisable(v) PROVE CountInv'
    BY <2>27 DEF IniDisable
  <2>28. ASSUME NEW v \in Worker, Deactivate(v) PROVE CountInv'
    BY <2>28 DEF Deactivate
  <2>29. ASSUME NEW p \in Process, Dies(p) PROVE CountInv'
    BY <2>29 DEF Dies
  <2>30. ASSUME NEW v \in Worker, NEW p \in Process, KillLocker(v, p) PROVE CountInv'
    BY <2>29, <2>30 DEF KillLocker
  <2>31. ASSUME NEW p \in Process, Crash(p) PROVE CountInv'
    BY <2>29, <2>31 DEF Crash
  <2>32. CASE TimePasses
    BY <2>32 DEF TimePasses
  <2>33. CASE UNCHANGED vars
    BY <2>33 DEF vars
  <2>34. QED
    BY <2>1, <2>2, <2>3, <2>4, <2>5, <2>6, <2>7, <2>8, <2>9, <2>10, <2>11, <2>12, <2>13, <2>14, <2>15, <2>16, <2>17, <2>18, <2>19, <2>20, <2>21, <2>22, <2>23, <2>24, <2>25, <2>26, <2>27, <2>28, <2>29, <2>30, <2>31, <2>32, <2>33, NextCases DEF ActionOf
<1>3. CountInv => CountedHoldsLock
  BY DEF CountInv, CountedHoldsLock
<1>4. QED
  BY <1>1, <1>2, <1>3, TypeCorrect, PTL DEF Spec

-----------------------------------------------------------------------------
(* Only one worker restarts the cache, and nobody stores a script           *)
(* meanwhile.  The worker at a control point under byte 0 holds it and has  *)
(* "locked"; byte 2 belongs to the one in the restart section.  A request   *)
(* that ends with opcache.enable switched off would keep byte 0, but it     *)
(* has not asked for it: beyond "run" the worker is enabled.                *)
MustLock == {"recheck", "enter", "clean", "reenable", "leave", "kill", "unlock", "save"}
LockRules(w) ==
  /\ locked[w] => mem_write = ProcOf[w] /\ pc[w] \in MustLock \cup {"mark", "disable"}
  /\ pc[w] \in MustLock => locked[w]
  /\ pc[w] \in RestartSection => restart_lock = ProcOf[w]
  /\ pc[w] # "run" => enabled[w]
RestartLockUsed ==
  restart_lock # NoProc =>
    \E v \in Worker : restart_lock = ProcOf[v] /\ pc[v] \in RestartSection
LockInv == RestartLockUsed /\ \A w \in Worker : LockRules(w)

(* Byte 2 changes hands only in three actions.                              *)
LEMMA RestartLockKept ==
  ASSUME TypeOK, RestartLockUsed, UNCHANGED restart_lock,
         \A v \in Worker : pc[v] \in RestartSection => pc'[v] \in RestartSection
  PROVE  RestartLockUsed'
BY DEF RestartLockUsed

(* In a non-ZTS build the worker that wipes the cache holds bytes 0 and 2   *)
(* and no other worker is between zend_shared_alloc_lock and unlock.        *)
THEOREM RestartsExclude == ASSUME NonZTS PROVE Spec => []RestartIsExclusive
<1>1. Init => LockInv
  BY DEF Init, LockInv, LockRules, RestartLockUsed, MustLock
<1>2. TypeOK /\ LockInv /\ [Next]_vars => LockInv'
  <2> SUFFICES ASSUME TypeOK, LockInv, [Next]_vars PROVE LockInv'
    OBVIOUS
  <2> USE WorkerAssumption DEF TypeOK, NonZTS, MustLock
  <2>0. RestartLockUsed /\ \A w \in Worker : LockRules(w)
    BY DEF LockInv
  <2>1. ASSUME NEW v \in Worker, ActivateBegin(v) PROVE LockInv'
    <3>1. RestartLockUsed'
      BY <2>0, <2>1 DEF ActivateBegin, RestartLockUsed, LockRules
    <3>2. \A w \in Worker : LockRules(w)'
      BY <2>0, <2>1 DEF ActivateBegin, LockRules
    <3> QED BY <3>1, <3>2 DEF LockInv
  <2>2. ASSUME NEW v \in Worker, ActivateLock(v) PROVE LockInv'
    <3>1. RestartLockUsed'
      BY <2>0, <2>2, RestartLockKept DEF ActivateLock, AllocLock
    <3>2. \A w \in Worker : LockRules(w)'
      BY <2>0, <2>2 DEF ActivateLock, AllocLock, LockRules
    <3> QED BY <3>1, <3>2 DEF LockInv
  <2>3. ASSUME NEW v \in Worker, ActivateRecheck(v) PROVE LockInv'
    <3>1. RestartLockUsed'
      BY <2>0, <2>3, RestartLockKept DEF ActivateRecheck
    <3>2. \A w \in Worker : LockRules(w)'
      BY <2>0, <2>3 DEF ActivateRecheck, LockRules
    <3> QED BY <3>1, <3>2 DEF LockInv
  <2>4. ASSUME NEW v \in Worker, RestartEnter(v) PROVE LockInv'
    <3>1. locked[v] /\ pc[v] = "enter" /\ mem_write = ProcOf[v]
      BY <2>0, <2>4 DEF RestartEnter, LockRules
    <3>2. Free(restart_lock, ProcOf[v])
      BY <2>0, <3>1 DEF RestartLockUsed, LockRules
    <3>3. restart_lock' = ProcOf[v] /\ pc' = [pc EXCEPT ![v] = "clean"]
      BY <2>4, <3>2 DEF RestartEnter
    <3>4. RestartLockUsed'
      BY <3>3 DEF RestartLockUsed
    <3>5. \A w \in Worker : LockRules(w)'
      BY <2>0, <2>4, <3>1, <3>3 DEF RestartEnter, LockRules
    <3> QED BY <3>4, <3>5 DEF LockInv
  <2>5. ASSUME NEW v \in Worker, RestartClean(v) PROVE LockInv'
    <3>1. RestartLockUsed'
      BY <2>0, <2>5, RestartLockKept DEF RestartClean
    <3>2. \A w \in Worker : LockRules(w)'
      BY <2>0, <2>5 DEF RestartClean, LockRules
    <3> QED BY <3>1, <3>2 DEF LockInv
  <2>6. ASSUME NEW v \in Worker, RestartReenable(v) PROVE LockInv'
    <3>1. RestartLockUsed'
      BY <2>0, <2>6, RestartLockKept DEF RestartReenable
    <3>2. \A w \in Worker : LockRules(w)'
      BY <2>0, <2>6 DEF RestartReenable, LockRules
    <3> QED BY <3>1, <3>2 DEF LockInv
  <2>7. ASSUME NEW v \in Worker, RestartLeave(v) PROVE LockInv'
    <3>1. RestartLockUsed'
      BY <2>0, <2>7 DEF RestartLeave, RestartLockUsed, LockRules
    <3>2. \A w \in Worker : LockRules(w)'
      BY <2>0, <2>7 DEF RestartLeave, LockRules
    <3> QED BY <3>1, <3>2 DEF LockInv
  <2>8. ASSUME NEW v \in Worker, KillDone(v) PROVE LockInv'
    <3>1. RestartLockUsed'
      BY <2>0, <2>8, RestartLockKept DEF KillDone
    <3>2. \A w \in Worker : LockRules(w)'
      BY <2>0, <2>8 DEF KillDone, LockRules
    <3> QED BY <3>1, <3>2 DEF LockInv
  <2>9. ASSUME NEW v \in Worker, Unlock(v) PROVE LockInv'
    <3>1. RestartLockUsed'
      BY <2>0, <2>9, RestartLockKept DEF Unlock, AllocUnlock
    <3>2. \A w \in Worker : LockRules(w)'
      BY <2>0, <2>9 DEF Unlock, AllocUnlock, LockRules
    <3> QED BY <3>1, <3>2 DEF LockInv
  <2>10. ASSUME NEW v \in Worker, RestartProbe(v) PROVE LockInv'
    <3>1. RestartLockUsed'
      BY <2>0, <2>10, RestartLockKept DEF RestartProbe
    <3>2. \A w \in Worker : LockRules(w)'
      BY <2>0, <2>10 DEF RestartProbe, LockRules
    <3> QED BY <3>1, <3>2 DEF LockInv
  <2>11. ASSUME NEW v \in Worker, RestartClear(v) PROVE LockInv'
    <3>1. RestartLockUsed'
      BY <2>0, <2>11, RestartLockKept DEF RestartClear
    <3>2. \A w \in Worker : LockRules(w)'
      BY <2>0, <2>11 DEF RestartClear, LockRules
    <3> QED BY <3>1, <3>2 DEF LockInv
  <2>12. ASSUME NEW v \in Worker, CompileCount(v) PROVE LockInv'
    <3>1. RestartLockUsed'
      BY <2>0, <2>12, RestartLockKept DEF CompileCount, TakeUsage
    <3>2. \A w \in Worker : LockRules(w)'
      BY <2>0, <2>12 DEF CompileCount, TakeUsage, LockRules
    <3> QED BY <3>1, <3>2 DEF LockInv
  <2>13. ASSUME NEW v \in Worker, CompileLookup(v) PROVE LockInv'
    <3>1. RestartLockUsed'
      BY <2>0, <2>13, RestartLockKept DEF CompileLookup
    <3>2. \A w \in Worker : LockRules(w)'
      BY <2>0, <2>13 DEF CompileLookup, LockRules
    <3> QED BY <3>1, <3>2 DEF LockInv
  <2>14. ASSUME NEW v \in Worker, SaveLock(v) PROVE LockInv'
    <3>1. RestartLockUsed'
      BY <2>0, <2>14, RestartLockKept DEF SaveLock, AllocLock
    <3>2. \A w \in Worker : LockRules(w)'
      BY <2>0, <2>14 DEF SaveLock, AllocLock, LockRules
    <3> QED BY <3>1, <3>2 DEF LockInv
  <2>15. ASSUME NEW v \in Worker, SaveScript(v) PROVE LockInv'
    <3>1. RestartLockUsed'
      BY <2>0, <2>15, RestartLockKept DEF SaveScript
    <3>2. \A w \in Worker : LockRules(w)'
      BY <2>0, <2>15 DEF SaveScript, LockRules
    <3> QED BY <3>1, <3>2 DEF LockInv
  <2>16. ASSUME NEW v \in Worker, ScheduleMark(v) PROVE LockInv'
    <3>1. RestartLockUsed'
      BY <2>0, <2>16, RestartLockKept DEF ScheduleMark
    <3>2. \A w \in Worker : LockRules(w)'
      BY <2>0, <2>16 DEF ScheduleMark, LockRules
    <3> QED BY <3>1, <3>2 DEF LockInv
  <2>17. ASSUME NEW v \in Worker, ScheduleDisable(v) PROVE LockInv'
    <3>1. RestartLockUsed'
      BY <2>0, <2>17, RestartLockKept DEF ScheduleDisable
    <3>2. \A w \in Worker : LockRules(w)'
      BY <2>0, <2>17 DEF ScheduleDisable, LockRules
    <3> QED BY <3>1, <3>2 DEF LockInv
  <2>18. ASSUME NEW v \in Worker, ApiAdd(v) PROVE LockInv'
    <3>1. RestartLockUsed'
      BY <2>0, <2>18, RestartLockKept DEF ApiAdd, TakeUsage
    <3>2. \A w \in Worker : LockRules(w)'
      BY <2>0, <2>18 DEF ApiAdd, TakeUsage, LockRules
    <3> QED BY <3>1, <3>2 DEF LockInv
  <2>19. ASSUME NEW v \in Worker, ApiCheck(v) PROVE LockInv'
    <3>1. RestartLockUsed'
      BY <2>0, <2>19, RestartLockKept DEF ApiCheck
    <3>2. \A w \in Worker : LockRules(w)'
      BY <2>0, <2>19 DEF ApiCheck, LockRules
    <3> QED BY <3>1, <3>2 DEF LockInv
  <2>20. ASSUME NEW v \in Worker, ApiRead(v) PROVE LockInv'
    <3>1. RestartLockUsed'
      BY <2>0, <2>20, RestartLockKept DEF ApiRead
    <3>2. \A w \in Worker : LockRules(w)'
      BY <2>0, <2>20 DEF ApiRead, LockRules
    <3> QED BY <3>1, <3>2 DEF LockInv
  <2>21. ASSUME NEW v \in Worker, ApiEnd(v) PROVE LockInv'
    <3>1. RestartLockUsed'
      BY <2>0, <2>21, RestartLockKept DEF ApiEnd
    <3>2. \A w \in Worker : LockRules(w)'
      BY <2>0, <2>21 DEF ApiEnd, LockRules
    <3> QED BY <3>1, <3>2 DEF LockInv
  <2>22. ASSUME NEW v \in Worker, InvalidateMissing(v) PROVE LockInv'
    <3>1. RestartLockUsed'
      BY <2>0, <2>22, RestartLockKept DEF InvalidateMissing
    <3>2. \A w \in Worker : LockRules(w)'
      BY <2>0, <2>22 DEF InvalidateMissing, LockRules
    <3> QED BY <3>1, <3>2 DEF LockInv
  <2>23. ASSUME NEW v \in Worker, ResolvePath(v) PROVE LockInv'
    <3>1. RestartLockUsed'
      BY <2>0, <2>23, RestartLockKept DEF ResolvePath, CacheOn
    <3>2. \A w \in Worker : LockRules(w)'
      BY <2>0, <2>23 DEF ResolvePath, CacheOn, LockRules
    <3> QED BY <3>1, <3>2 DEF LockInv
  <2>24. ASSUME NEW v \in Worker, CompileCheck(v) PROVE LockInv'
    <3>1. RestartLockUsed'
      BY <2>0, <2>24, RestartLockKept DEF CompileCheck, CacheOn
    <3>2. \A w \in Worker : LockRules(w)'
      BY <2>0, <2>24 DEF CompileCheck, CacheOn, LockRules
    <3> QED BY <3>1, <3>2 DEF LockInv
  <2>25. ASSUME NEW v \in Worker, OpcacheReset(v) PROVE LockInv'
    <3>1. RestartLockUsed'
      BY <2>0, <2>25, RestartLockKept DEF OpcacheReset
    <3>2. \A w \in Worker : LockRules(w)'
      BY <2>0, <2>25 DEF OpcacheReset, LockRules
    <3> QED BY <3>1, <3>2 DEF LockInv
  <2>26. ASSUME NEW v \in Worker, ApiBegin(v) PROVE LockInv'
    <3>1. RestartLockUsed'
      BY <2>0, <2>26, RestartLockKept DEF ApiBegin
    <3>2. \A w \in Worker : LockRules(w)'
      BY <2>0, <2>26 DEF ApiBegin, LockRules
    <3> QED BY <3>1, <3>2 DEF LockInv
  <2>27. ASSUME NEW v \in Worker, IniDisable(v) PROVE LockInv'
    <3>1. RestartLockUsed'
      BY <2>0, <2>27, RestartLockKept DEF IniDisable
    <3>2. \A w \in Worker : LockRules(w)'
      BY <2>0, <2>27 DEF IniDisable, LockRules
    <3> QED BY <3>1, <3>2 DEF LockInv
  <2>28. ASSUME NEW v \in Worker, Deactivate(v) PROVE LockInv'
    <3>1. RestartLockUsed'
      BY <2>0, <2>28 DEF Deactivate, RestartLockUsed, LockRules
    <3>2. \A w \in Worker : LockRules(w)'
      BY <2>0, <2>28 DEF Deactivate, LockRules
    <3> QED BY <3>1, <3>2 DEF LockInv
  <2>29. ASSUME NEW p \in Process, Dies(p) PROVE LockInv'
    <3>1. RestartLockUsed'
      BY <2>0, <2>29 DEF Dies, RestartLockUsed
    <3>2. \A w \in Worker : LockRules(w)'
      BY <2>0, <2>29 DEF Dies, LockRules
    <3> QED BY <3>1, <3>2 DEF LockInv
  <2>30. CASE UNCHANGED <<lockfile, globals, pc>>
    BY <2>0, <2>30 DEF LockInv, LockRules, RestartLockUsed
  <2>31. ASSUME NEW v \in Worker, NEW p \in Process, KillLocker(v, p) PROVE LockInv'
    BY <2>29, <2>30, <2>31 DEF KillLocker
  <2>32. ASSUME NEW p \in Process, Crash(p) PROVE LockInv'
    BY <2>29, <2>32 DEF Crash
  <2>33. CASE TimePasses
    BY <2>30, <2>33 DEF TimePasses
  <2>34. CASE UNCHANGED vars
    BY <2>30, <2>34 DEF vars
  <2>35. QED
    BY <2>1, <2>2, <2>3, <2>4, <2>5, <2>6, <2>7, <2>8, <2>9, <2>10, <2>11, <2>12, <2>13, <2>14, <2>15, <2>16, <2>17, <2>18, <2>19, <2>20, <2>21, <2>22, <2>23, <2>24, <2>25, <2>26, <2>27, <2>28, <2>29, <2>31, <2>32, <2>33, <2>34, NextCases DEF ActionOf
<1>3. LockInv => RestartIsExclusive
  BY WorkerAssumption DEF LockInv, LockRules, RestartIsExclusive, MustLock, NonZTS
<1>4. QED
  BY <1>1, <1>2, <1>3, TypeCorrect, PTL DEF Spec
=============================================================================
