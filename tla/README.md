# A verification project for buzzExt

The repository is the `ext/` tree of PHP 5 with a few extensions of its author
(`sample`, `sample4`, `sample5`, `varstream`). Most of it binds C libraries to PHP
or implements formats and algorithms that run alone. Hard to get right are the
parts that several actors share: **opcache**, a cache of compiled scripts in shared
memory that every PHP worker of a machine uses, mostly without locks; the System V
**semaphores** and **shared memory** of scripts, with processes that die; **session**
files, which requests lock and a collector deletes; **pcntl**, whose signal handler
interrupts its own dispatcher; and the cache of compiled expressions of **pcre**,
which callbacks re-enter. This project models them in TLA+, checks the models with
TLC and proves some of their properties with TLAPS.

To check a run: `tlc -config <run>.cfg <module>.tla` (section 3 names both).
To check the proofs: `tlapm <module>_proofs.tla` (section 4).

## 1. Inventory

| Component | State | Operations | Hard behaviour |
|---|---|---|---|
| opcache: restart protocol (`ZendAccelerator.c`, `zend_shared_alloc.c`) | flags in shared memory (`restart_pending`, `restart_in_progress`, `accelerator_enabled`, `force_restart_time`), three bytes of a lock file, `counted`/`enabled` per worker | `accel_activate`, `accel_deactivate`, `zend_accel_schedule_restart`, `accel_restart_enter/leave`, `accel_is_inactive`, `kill_all_lockers`, `accelerator_shm_read_lock/unlock` | flags tested without locks; fcntl locks owned by processes, vanishing when they die; killing of processes that block; crashes in the middle |
| opcache: hash table (`zend_accelerator_hash.c`) | buckets, chains, a pool of entries; entries that are other names of entries | `update`, `find`, `find_entry`, `clean` | look-ups run without a lock beside an update; an updater may die |
| opcache: script cache (`ZendAccelerator.c`) | scripts with time stamp, `corrupted`, `revalidate`; free and wasted memory; `memory_exhausted` | `persistent_compile_file`, `persistent_zend_resolve_path`, `compile_and_cache_file`, `cache_script_in_shared_memory`, `zend_accel_invalidate`, `opcache_is_script_cached` | files change at any time, seconds of time stamps, two processes storing one file, limits |
| opcache: include_path keys (`ZendAccelerator.c`) | table `include_paths` in shared memory, `include_path_key` per worker | `accel_include_path_on_modify`, `accel_make_persistent_key_ex`, startup, restart | pointers into memory that a restart reuses; double-checked insertion |
| opcache: interned strings (`ZendAccelerator.c`) | chains, a list and a bump allocator in shared memory, a saved state | `accel_new_interned_string`, save, restore | what a restart restores and what it forgets; a death while a string is linked |
| opcache: persisting (`zend_persist*.c`), optimizer, blacklist, back ends | none that is shared and changes | one pass over a compiled script; startup | sequential; sizes computed twice must agree |
| sysvsem | three semaphores of the kernel per set, what the kernel undoes per process, a counter per resource | `sem_get`, `sem_acquire`, `sem_release`, `sem_remove`, the end of a resource | two initializers; deaths; an undo that is not atomic; removal under a waiter |
| sysvshm | a header and chunks in shared memory | `shm_attach`, `shm_put_var`, `shm_get_var`, `shm_has_var`, `shm_remove_var`, `shm_detach`, `shm_remove` | writes of several words; a death between two of them; two that attach a new segment |
| session (`session.c`, `mod_files.c`) | files and their locks; id, descriptor and size of a request | start, write, close, destroy, change of id, garbage collection | requests waiting for a file that loses its name; the collector deletes by name what it judged by age |
| pcntl | two lists of records, two flags, masks | the handler, `pcntl_signal_dispatch`, `pcntl_signal`, `pcntl_sigprocmask`, `pcntl_sigwaitinfo`, fork, end of request | the handler interrupts everything |
| pcre (`php_pcre.c`, `spl_iterators.c`) | a hash table of compiled expressions with use counts | the preg functions, `RegexIterator`, locales, cleaning | callbacks re-enter the cache; exit() in a callback; keys in memory that opcache takes back |
| mysqlnd | state of a connection and of its result | query, store/use result, next result | commands out of order, partial failures |
| sysvmsg, shmop | kernel objects | one system call each | the kernel's |
| Everything else | per-request values | bindings, formats, containers | sequential |

How they interact. In opcache a request begins with `accel_activate`, which performs
a pending restart if no process holds the *usage* byte of the lock file. Its first
include makes the worker `counted`: it takes the usage byte (shared) and keeps it
until `accel_deactivate`. Look-ups read the hash table and the scripts without
another lock; storing a script (which interns its strings), adding a key, entering an
include_path and marking a script as outdated hold byte 0 exclusively. Running out of
memory or of table entries schedules a restart, which disables the cache for workers
that are not counted and waits until nobody is. The cache of expressions is local to
a thread and outlives requests, hence also restarts; it copies interned
strings for its keys.
Scripts put `shm_*` calls between `sem_acquire` and `sem_release`; nothing in
sysvshm itself excludes two writers. The other extensions meet only in the script.

What makes each component correct:

* restart: nobody who legitimately reads the cache sees it wiped; one restart per
  schedule; the cache does not stay disabled; a scheduled restart happens;
* hash table: a look-up returns data once stored under its key, chains stay sound
  whatever the moment of a crash, everything terminates; it is a map;
* script cache: what runs is what the file contained recently; a file is cached
  once; memory is accounted for; exhaustion is answered by a restart;
* include_path: a letter in a key stands for one path;
* interned strings: equal strings are one pointer, and a pointer stays good for as long
  as somebody may use it;
* semaphores: units are neither lost nor made; one initializer; nobody waits for ever
  for a process that is gone;
* shared memory: the chunks tile the segment, which is a map from keys to values;
* sessions: no update is lost, no file has the end of older contents, requests end;
* signals: each recorded signal is played once, in order, and it is played;
* expressions: what is in use is not freed, and what is not can be.

PROJECT.json lists every component with its status, and under "hazards" what is
hard to test at the line where it bites.

## 2. Modules

| Module | Models |
|---|---|
| `AccelRestart`, `AccelRestart_proofs` | the restart protocol: workers (threads of processes), the three locks, flags, crashes, forced restarts; its theorems |
| `AccelAlias` | abstract specification of the hash table: an atomic map in which keys share cells |
| `AccelHash`, `AccelHash_proofs` | the hash table store by store and load by load; implements `AccelAlias`; its theorems |
| `AccelCache`, `AccelCache_proofs` | the script cache above an atomic hash table: files, time, validation, storing, memory; its theorems |
| `AccelIncludePath`, `AccelIncludePath_proofs` | the table of include_path values and the keys made from it; its theorems |
| `AccelInterned`, `AccelInterned_proofs` | the interned strings store by store, saved and restored; its theorems |
| `Sysv` | the processes that use semaphores and segments |
| `SysvSem` | semaphores kernel call by kernel call, with undo and deaths |
| `ShmMap` | abstract specification of a segment: a map from keys to values that may be broken |
| `SysvShm` | a segment write by write under a semaphore; implements `ShmMap` |
| `Sysv_proofs` | theorems of `SysvSem` and of `SysvShm` |
| `SessionFiles`, `SessionFiles_proofs` | session files system call by system call; its theorems |
| `PcntlQueue` | abstract specification of pending signals: a bounded queue |
| `PcntlSignals` | handler, dispatcher and lists store by store; implements `PcntlQueue` |
| `PcreCache` | the cache of compiled expressions, calls nested in callbacks |
| `Callbacks_proofs` | theorems of `PcreCache` and of `PcntlSignals`, where functions of the script run in the midst of the extension's work |
| `MC...` | small instances (model values, symmetry, functions) for TLC |

What one module assumes of a component another one shows: `AccelCache` uses the hash
table atomically (`AccelHash` implements the map `AccelAlias`) and a restart that waits
for counted workers (`AccelRestart`: `EarlyReadersAreSafe`, `RestartIsExclusive`).
`AccelInterned` and `AccelIncludePath` restart only when no counted worker holds a
pointer, for the same reason. The keys of `PcreCache` are copies because interned
strings do not outlive a restart (`AccelInterned`). `SysvShm` uses a semaphore with
one holder that the kernel frees when the holder dies: that is `UnitsConserved` of
`SysvSem` for `max_acquire` 1, proved as `UnitsAreConserved`.

**AccelRestart.** A worker has a control point `pc`; each action is the code
between two points at which other processes can interfere: an fcntl call, or a
read or write of a flag in shared memory that is not protected by a lock. The
lock file is `mem_write` (byte 0, exclusive), `mem_usage` (byte 1, shared) and
`restart_lock` (byte 2); owners are processes, and `Dies` drops them as the kernel
does. The cache contents are a generation `gen`, increased by a restart; a pointer
into shared memory is the generation it was obtained in, so a dangling pointer is
one of another generation. `resolve_path` may obtain a pointer before the worker
is counted, as in the code. The history variable `early` marks workers that took
the usage lock when no restart was pending or running; `mishap` marks that a
crash or a second scheduler tore a restart. Both are needed to state what the
protocol does guarantee, for it does not guarantee more (section 5).

**AccelHash.** An update is a sequence of single stores in the order of the code,
and a look-up a sequence of single loads, interleaved with no restriction; the
updater holds the exclusive lock, so there is one, and it may die between any two
stores. The model assumes that stores become visible in program order (true of
x86; the code has no barriers, and elsewhere this would fail). The code lets an entry
that has data become a name of another entry, when a path turns into a symbolic
link; the history variable `shadowed` notes it, and the bound `Usable` lets only
look-ups and a restart follow until the table is cleaned. Without that bound an entry
becomes a name of itself, and a later store writes a script where look-ups expect an
entry (zend_accelerator_hash.c:81-86 and 98-111): the C program then follows a
pointer of the wrong type, for which the model has no value.

**AccelAlias.** `Store`, `Insert`, `Alias`, `Clean` and the look-up of the header
comment. The refinement mapping of `AccelHash` takes a bucket for a cell and hides the
entries that are not published; a shadowed table is mapped to the empty one.

**AccelCache.** The file system is a clock in seconds, modification times and
contents (version numbers), and a map from names to real paths that changes. The
control points of a worker are those at which it takes the exclusive lock,
touches the file system, or has released the lock: between reading the time stamp
and compiling, between compiling and storing, between finding an outdated script
and marking it. A script has the fields the code decides by. Sizes are small
numbers of units. `keymem`, `over` and `left` are history: memory given to added
keys, when a version ceased to be the content, when a name ceased to lead to a
path. The hash table is atomic here and so is the
restart, which waits for counted workers.

**AccelIncludePath.** One cell of memory is one allocation. `mem` keeps what was
written in it, since a restart only sets the position back: memory is reused, and
stale pointers read what came later. A worker enters a path in two steps, the
look-up without and the insertion under the lock. `Early` says whether a request
may change include_path before it is counted; the code lets it.

**AccelInterned.** The buffer is `Units` units from address 1 up; a string takes
`size` of them. `Find...` walks a chain and the stores of `accel_new_interned_string`
are steps: the bucket, its place in the chain, the list, the top. Startup interns the
strings of PHP itself, saves heads, list and top, and a restart puts them back. A
process dies at any store; the exclusive lock is then free. Pointers are pairs of an
address and the string it was obtained for, held by the engine, by cached scripts and
by requests. `torn` marks that a death left the list between two stores.

**SysvSem.** Kernel calls are steps: semget, the semop of three operations, GETVAL,
SETVAL, the semop that leaves. The kernel's undo after a death adds the three values
one after the other, as the code's comment says, and others may run in between.
`spoiled` names the sets in which the code's own comment gives up (counted beside
somebody half undone) or a failed semop was only a warning. A resource without
`auto_release` leaves its units and its use to the end of the process.

**SysvShm and ShmMap.** A segment is a header and units; a chunk takes `units` of its
value, the first of which has the chunk's head. Removing a variable and adding one are
three writes each; `shm_put_var` removes the old value first. `torn` marks a segment whose writer died
between two writes; `ShmMap` says that such a segment is a map no more, and that
otherwise every step is one change of the map or none. `AttachLocked` says whether
scripts attach under the semaphore.

**SessionFiles.** open, flock, read, ftruncate, write, close, stat and unlink are steps
of any number of requests. A file is its length, the set of requests whose changes it
holds, whether it has the end of older contents, and its age; the directory maps ids
to files, and a file whose name is gone lives on while somebody has it open. `spoiled`
names the ids to whose file one of three things has happened that the code does not
prevent (the comment above `UpdatesSurvive` lists them).

**PcntlSignals and PcntlQueue.** Records are numbers, and every store to the lists is
a step; the handler runs between any two of them unless the signal is blocked. A
function of a signal is a piece of script: it may call everything but the dispatcher,
which guards against itself. exit() inside it leaves the dispatcher (`cut`). `Unblocks`
and `Quiet` restrict the environment, see section 5. `PcntlQueue` is a queue with a
capacity that drops what does not fit.

**PcreCache.** Entries are cells of memory that are reused. Calls are nested: the
innermost ends first, or all are abandoned by a bailout. Cleaning removes `NumClean`
unused entries from the oldest on. `pinned`, `replaced` and `overfull` are history:
counts that abandoned calls left, entries filled anew for another locale under their
users, and a full cache of which everything was in use.

Abstractions common to all: messages, statistics, formatting, Windows variants
and debugging builds are left out. Bounds are constants whose comment says "bound".

## 3. Runs

| Run | Module | Question | States |
|---|---|---|---|
| `AccelRestart` | MCAccelRestart | two processes, every operation but ini_set, two schedules, forced restarts, one crash: the safety of the protocol | 2.4 million |
| `AccelRestartLive` | MCAccelRestart | without force and with ending requests: a scheduled restart happens and the cache comes back, also after a crash | 40 thousand |
| `AccelHash` | MCAccelHash | three keys (two collide), a table of three entries, four updates, a dying updater, a restart, a reader: chains are sound, look-ups return what was stored, updates and look-ups end, and the table implements `AccelAlias` | 611 thousand |
| `AccelCacheFresh` | MCAccelCache | two workers, two names (one a link), include, include_once, is_script_cached, edits, the link becomes a file: freshness | 1.1 million |
| `AccelCacheMemory` | MCAccelCache | three names, memory for 4 units, 2 table entries, forced invalidation, a file becomes a link, one crash: accounts, exhaustion, and one live script of a file while names keep their meaning | 1.7 million |
| `AccelIncludePath` | MCAccelIncludePath | two workers, three paths, two restarts, memory of four cells: letters and entries | 1.7 million |
| `AccelInterned` | MCAccelInterned | two processes, three strings (two in one slot, one of two units), memory that runs full, two restarts, a death at any store | 837 thousand |
| `SysvSem` | MCSysvSem | two processes, two sets, one unit, a death or a failing semop: units, initialization, waiting | 113 thousand |
| `SysvShm` | MCSysvShm | two processes, three variables with short and long values, memory of four units, deaths between any two writes: the segment is tiled and is a map | 45 thousand |
| `SessionFiles` | MCSessionFiles | three processes, two ids, two requests, one collected file, a death or a full disk | 313 thousand |
| `PcntlSignals` | MCPcntlSignals | two signals, four arrivals, records in batches of two, two requests, exit() in a function: no record is lost, and signals are played in order, each once | 309 thousand |
| `PcreCache` | MCPcreCache | three expressions in a cache of two, two locales, calls nested in calls, an iterator, a bailout, a restart of opcache | 1.2 million |

The bounds are chosen so that each hazard occurs.

* Two processes are enough for every race between a restarter and a reader, two
  initializers of a semaphore, and two writers; the safety of `AccelRestart`,
  `AccelInterned`, of `AccelHash`, of `SessionFiles`, of the initialization in `SysvSem` and, while no
  name is linked anew, of `AccelCache` is proved for any number; that of `PcntlSignals` for
  any number of records, batches, signals and requests.
  `SessionFiles` has three processes, for a collector beside two requests of a session.
* One death (or failed call) at any step is one torn operation. Two schedules, two
  restarts and two requests let the second meet the remains of the first.
* Three keys with two in one slot give chains that an update walks, and a table of
  three entries becomes full with two names. Two strings in one slot, one of them two
  units long, make a place of the buffer be reused at another boundary.
* Two sets of semaphores let one be removed under its users and another one come.
* Four units with values of one and two units let a replaced value fit, not fit, and
  fit only after the removal.
* A cache of two expressions and three of them is full, cleaned, and full of entries in
  use; the code's 4096 and 512 are `PCRE_CACHE_SIZE` and `NumClean`.
* Four seconds with `revalidate_freq` 1 and `file_update_protection` 1 contain a
  trusted, a validated and an outdated script in one behaviour; where memory is the
  question (`AccelCacheMemory`) the clock stands still.
* `ini_set` is left to `AccelRestartLive`, where a request that switched the cache off
  must not keep a lock, and the look-ups of resolve_path, which take no lock anybody
  waits for, to `AccelRestart`.

For each property a mutant of the modelled code (`Mut...` beside the definition) is
recorded in PROJECT.json, which TLC finds to violate the property in the same
configuration. The type invariants of `AccelRestart`, `AccelIncludePath`,
`AccelInterned` and `SysvSem` are in no run: they are theorems.

Deadlock is checked in the runs of AccelRestart, AccelInterned, SysvShm, PcntlSignals
and PcreCache. In the others the counters are bounded (time, updates, schedules,
requests, uses), and the model stops when they are used up.

**Fairness.**

* `AccelRestart.StepFairness`: a worker that has begun an operation continues (WF; the
  operating system schedules it), a worker that waits in `F_SETLKW` gets a lock that is
  free again and again (SF; the kernel wakes waiters), requests keep coming (WF of the
  beginning of a request), the clock moves. `EndFairness`: the requests of the workers
  in `Prompt` end; a hanging request is one outside `Prompt`. SF is needed there
  because a script may do something else instead at every moment.
* `AccelHash.FairSpec`, `AccelInterned.FairSpec`: who is in an update or a look-up goes
  on (WF).
* `SysvSem.FairSpec`: a process in a call goes on, and the kernel wakes it if it may
  proceed again and again (SF: semop may find the value taken by another one each
  time); a script that uses no semaphore ends some day.
* `SessionFiles.FairSpec`: the same of flock(), and scripts end (max_execution_time).
* `PcntlSignals.FairSpec`: dispatcher and engine go on (WF); statements follow each
  other, so that the script dispatches again and again, and functions of signals
  return (SF, since the script may do something else at every moment).

## 4. Proofs

`AccelRestart_proofs`, for any number of workers and processes:

* `TypeCorrect`: `Spec => []TypeOK`.
* `RestartsAnswerSchedules`: restarts (and a pending one) never outnumber
  schedules. Inductive together with the type: only `ActivateRecheck`, which
  tests `restart_pending` under the lock, counts a restart, and clears it.
* `CacheIsNotLeftDisabled`: the strengthening `EnabledInv` adds `StatusSaved`: while
  a restart is pending or under way, the status it will restore is "enabled",
  unless a scheduler is between its two stores or a mishap occurred.
* `CountedMeansLocked` and `UsageLockProtects`, under `NonZTS` (one worker per
  process): `CountInv` ties `counted` to the usage byte at every control point;
  `ReaderInv` says that an early reader is protected by its lock at every control
  point from which the cache can be wiped, which needs that the restarter tests
  the lock before it enters. With threads the statement fails (section 5).
* `RestartsExclude` (`RestartIsExclusive`), under `NonZTS`: `LockInv` says at which
  control points byte 0 is held, that byte 2 belongs to a worker in the restart
  section, and that a worker beyond "run" is enabled: otherwise `accel_deactivate`
  would leave byte 0 locked. It makes the F_SETLK of `accel_restart_enter`, whose
  failure the code only logs, succeed always.

`AccelIncludePath_proofs`, for any workers, paths and bounds:

* `LettersTypeCorrect`: `Spec => []TypeOK`.
* `LettersAreDistinct` (`KeysDistinguishPaths`), `LetterIsCurrent`
  (`LetterOfCurrentPath`) and `PathEnteredOnce` (`EachPathOnce`): assuming that
  requests use the table only when counted (`~Early`; section 5 shows what
  happens otherwise) and that php.ini has a path (`Default \in Path`). The
  properties are not inductive: a restart may only forget entries nobody points to.
  `LetterInv` therefore says that the table's cells are in use and the letter in a
  cell is its index, that no path has two entries, that the first entry is the
  default path in the first cell, which no restart frees, that a worker which is not
  counted holds no letter but the first's and does not wait to enter a path, and that
  every letter in a key is in the table with that path.

`AccelCache_proofs`, for any workers, names, sizes and bounds:

* `TimestampsAreMeaningful` (`StoredIsCurrent`) and `StalenessIsBounded`
  (`BoundedStaleness`), assuming `Careful`: timestamps are validated and
  `file_update_protection` is not 0 (section 5 shows what happens otherwise); and for
  the states in which no name has come to lead elsewhere (`relinks = 0`), since nothing
  ties a path resolved before to the file opened after. The reason is an order of
  moments. `Scripts` says that a live script has a timestamp of a second that is over, and
  if that is still the file's, the file's content: an edit gives a later one. `Fresh` says
  the same of the timestamp and the content a worker holds between reading the one,
  compiling, and storing, and that what it has compiled was the content after its
  request began. `revalidate` is bounded twice: by the time the version ceased to be the
  content plus `revalidate_freq`, which is the claim, and by now plus `revalidate_freq`,
  which carries the claim over the next edit. `Keys` and `Where` say that a path has a
  direct entry, another key of it leads there, and that every path a worker holds is what
  the name it was asked for resolves to.
* `FilesAreStoredOnce` (`OneLiveScript`), under the same assumptions: `Single` adds that
  the worker that enters a script holds the lock, that there is no live script of its
  path, and that the entry of a path has the live script.
* `ExhaustionLeadsToRestart` (`ExhaustionSchedules`), without assumptions; inductive by
  itself, because every action that declares the memory exhausted or adds waste tests
  both.
* `TypesAreRight` (`TypeOK`) and `MemoryIsAccounted` (`MemoryAccounted`), for any settings and
  any number of links, edits and deaths, assuming `[]NamesPointToScripts`: that no entry of
  the table is a name of a name. When a path and its link swap roles one may become so
  (`FindsAScript` in section 5: it takes two links and three entries, and then a
  look-up returns a name where a script is expected); in the run it never happens, and
  `MemoryIsAccountedBeforeLinks` needs no such assumption while `relinks = 0`. A sum
  over a set of scripts is a fold, about which nothing can be proved by induction; the
  lemmas replace it by the number of boxes in columns of the scripts' sizes
  (`OccupiesTotal`, by a least counterexample), for which the library has cardinalities.
  The invariant `Accounted` has two terms that `MemoryAccounted` lacks: the memory of a
  script allocated and not yet entered (`InFlight`, lost if its worker dies), and the one
  script whose size is not recorded yet (`Weighed`); since the lock is held throughout,
  nobody can mark that script and count a size of zero as its waste.

`AccelHash_proofs`, for any keys, values, slots, sizes, look-ups and crashes:

* `TypesAreRight`: `Spec => []TypeOK`.
* `ChainsStaySound` (`ChainsAreSound`). A chain is a recursive function, of which no
  induction theorem of the library speaks; but it is also the least set that has the first
  entry and is closed under `next` (`ReachIsRecursive`, from the least number principle), so
  that what holds of some closed set holds of the chain. The invariant `TableInv` says that an
  entry points to earlier ones (`Linked`), that a key has one entry and that in the chain of its
  slot (`KeysInPlace`), that the entries in no chain are the one being added and one for
  each crash (`Counted`), that an updater that is still searching has not passed the entry
  of its key (`Searching`), and that names point to data until one is shadowed (`Names`).
* `LookupsReturnValues` (`FindReturnsAValue`): `FindInv` says that a look-up
  on its way still has the entry of its key ahead of it, unless the key was missing at some
  moment since it began (`Finding`), and that what the cells of its key hold now is among
  what it may return (`Observed`). The stores of an update keep it because
  an entry is filled before it is published and never unlinked while look-ups run.
* `NamesLeadToData`: a name leads to an entry with data until an entry with data is made a
  name (`~shadowed`, a conjunct of `TableInv`); after that `FindsAScript` of section 5
  may fail.
* `DirectEntriesAreCounted` (`DirectEntriesCounted`, in no run): an update changes the count
  one store before or after the table; `DirectInv` says by how much the two differ between.
* `TableImplementsMap` (`ImplementsAlias`): the whole refinement, for `AccelAlias` has no
  fairness: each store is one step of the map or a stutter.

`AccelInterned_proofs`, for any memory, strings, hash function and number of processes:

* `InternedTypeCorrect`: `Spec => []TypeOK`.
* `PointersStayValid` (`StringsStay`) and `InternedOnce` (`OncePerString`). What keeps a
  pointer good is that everything below the top is written once: the bucket being
  added is at the top, and the saved top is above all that the engine holds. What keeps
  strings unique is that a look-up sees all of its chain. The invariant `Safe` says so:
  `Chained` (a chain goes from higher to lower addresses, through linked buckets of its
  slot, and contains all of them), `Critical` (the process that adds a string has been
  through the chain and holds the lock), and `Sound` (pointers lead to linked buckets,
  those of the engine below the saved top, and a process that does not use the cache has
  none).
* `StringListIsWhole` (`ListIsWhole`): the list goes the other way, from lower to higher
  addresses; after a death it may have lost its end until a restart restores it.

`Sysv_proofs`, of the semaphores, for any processes, sets, units and bounds:

* `SemTypeCorrect`: `Spec => []TypeOK`; it needs `SetsInOrder`: a current set is the
  latest one, a resource of a removed set is marked, a resource counts no more than
  its process has acquired.
* `InitializesAlone` (`InitializeOneAtATime`). The property speaks of control points, its
  reason is in the kernel: in a set that is not spoiled, at most one process has a
  record of -1 for the third semaphore, that semaphore is 1 then, and the process is in
  `sem_get` or being undone (`Recorded`). A set that has not been created has no records
  (`Fresh`). Removed sets need no invariant, for they never come back.
* `UnitsAreConserved` (`UnitsConserved`), for a finite set of processes. The books of the
  current set are a function of six columns (`Balance`): for each process the uses and
  units that the kernel would take back and give back, what it has and counts by its own
  account, and where it is. "usage" is the sum of the uses; free units and units to be
  given back are `max_acquire` for who has used the set (`Informed`: a process in its first
  use has yet to find out whether somebody initialized the set, and will be right, because
  who finds other users finds one that is informed, unless one is half undone); a process
  that initializes is the only one with a use; and one with no use but the present has just
  what it counts, which is why giving back its count and its use leaves nothing behind.
  There is a lemma for each kind of entry in the books, about plain functions; a sum is
  again a number of boxes (`SumTotal`).

`Sysv_proofs`, of the segments, for any processes, variables, segments and sizes, and for
values of any lengths, assuming that scripts attach under the semaphore (`AttachLocked`; when
they do not, `SegmentIsTiled` is false, section 5):

* `ShmTypesHold`: `ShmSpec => []ShmTypeOK` (which showed that `pos` holds the number of a segment
  between `shmget` and `shmat`; the type said less).
* `SegmentsAreTiled` (`SegmentIsTiled`). The property is about a recursive walk over the
  chunks. The lemmas first show that the function the walk is exists for every memory
  (`WalkExists`, a least counterexample), then that on a memory of whole chunks (`Tiled`, which
  is not recursive: every unit below the end belongs to a whole chunk that starts below
  it, and no two chunks have a key in common) it returns the heads of the chunks in ascending
  order (`ChunksListed`). `ShmInv` says that only the holder of the semaphore is between two
  steps (`Exclusive`), that a segment nobody has is blank (`Blank`), that one not torn
  has a header or is being given one (`Attachments`, `Headers`), that it is whole if nobody
  writes it (`AllQuiet`), and what holds before each of the writes (`Working`): a chunk to be
  moved over ends behind the shortened end, the sum of end and free rest is off by one
  chunk between the two writes that go together, and a new chunk lies whole behind the
  end before the end grows.
* `ShmImplementsMap` (`ImplementsMap`, with `ShmInit` and every step; `ShmMap` has no fairness).
  A value is found if and only if a whole chunk of its key lies below the end (`Holds`,
  `ValueInChunks`), and moving the chunks behind a removed one down keeps those of all other
  keys (`MovedHolds`). A variable is forgotten when the end shrinks, put when it grows, and the
  other six writes are not seen. Detaching and dying delete at most the one segment that the
  process had, and only if nobody else has it; a death between two writes breaks it.

`SessionFiles_proofs`, for any processes, ids and lengths:

* `TypeCorrect`: `Spec => []TypeOK`; `File` has as many members as ids and processes
  can refer to, so `open()` always finds one (`FreeFile`, by cardinality).
* `NoUpdateIsLost` (`UpdatesSurvive`) and `NoMixedContents` (`ContentsAreWhole`). Neither
  is inductive: why a write loses nothing lies in what its process has read. `Safe` adds
  `Locked` (a process holds the lock of a file if and only if it has it open and is past
  the wait), `Named` (an open file that still has a name has that of the id it was opened
  for: names are not given away, `Distinct`) and `Knows` (a process that holds the lock
  on the file of an unspoiled id has the changes of all that have been stored there, and
  the file has the length that was read, or none). `Empties` says that an empty file
  has nobody's changes: a request that writes under a new id has not read the file, and
  spoils the id unless the file is empty.
* `LocksExclude`: one process at a time has a file open to read or write it. The lock is
  on the file, not on the name; two processes may use the two files that a name has had.

`Callbacks_proofs`, of the compiled expressions, for any expressions, locales, memory,
limit, nesting and bounds (the iterators a script may have are finite):

* `PcreTypeCorrect`: `Spec => []TypeOK`: the members of the cache are distinct and have
  distinct expressions.
* `CountsAreRight` (`RefcountsBalance`) is inductive with the types. The lemmas treat a
  count as a debt (`Owes`): a look-up leaves it one user too high, the call or iterator
  that follows settles it, and a bailout turns users into `pinned`.
* `UsersKeepTheirEntries` (`InUseIsKept`) needs the balance: an entry with a user that was
  not filled anew has a count that is not 0, therefore `pcre_clean_cache` passes it
  (`UsedIsPassed`) and its memory is not that of a new entry. What the cleaning leaves is
  the entries at the positions it passes, in order; that every such position is in the
  order (`InOrderOrders`) rests on a least counterexample and on cardinalities.
* `LimitIsKept` (`CacheIsBounded`), inductive with the types: a test for equality suffices
  as long as each look-up adds at most one entry to a cache within its limit.

`Callbacks_proofs`, of the pending signals, for any signals, batches and bounds:

* `PcntlTypesHold`: `PcntlSpec => []PcntlTypeOK`, with no further hypothesis. It needs
  `Steady`: what `pcntl_signal` has still to allocate fits (which is why `CHOOSE` of a
  new record has one to choose), the dispatcher has a record in hand wherever it uses
  one, and the end of a request is the end of one that may be followed by another.
* `RecordsAreKept` (`RecordsInOnePlace`) and `PcntlImplementsQueue`
  (`PcntlSpec => ImplementsQueue`), from the hypotheses `Quiet` and `~Unblocks`: without
  either of them they are false, see section 5. The run has the same two. The inductive
  invariant is `PcntlInv`:
  - `Phases`: which signals are blocked while the dispatcher is at work, which step has
    set a field that the next step relies on, and that a record is passed over only if
    its signal has no function;
  - outside the end of a request there are three sequences (`Listing`): the records still
    to be played, those queued and those spare. Each is what the fields link from its
    pointer to a 0 (`Follow`), the three and the record in hand are apart and together
    are the live records, and the last one queued is the tail (`Whole`). The tail is
    the point: `tail` is left as it is when the dispatcher takes the queue, and the
    handler is right to test `head` too.

  Lemmas say what each store does to such lists (`WholeHandler`, `WholePush`, `WholeTake`,
  `WholeSpare`, `WholeQueue`), and `ListIs` that the recursive function `List` of the
  module, which walks the fields, yields the sequence: its values are unique by a least
  counterexample, since induction over it is not to be had. `SeenStep` then gives the
  step of the queue for each step of the process; most are not seen.

Not proved, only checked: liveness, since fairness and ENABLED are out of the prover's
reach: `RestartHappens`, `CacheComesBack`, `OperationsEnd`, `LockIsReleased`, `GetEnds`,
`AcquireEnds`, `RequestsEnd` and `SignalsArePlayed`. Every other property of a run is a
theorem, under the hypotheses given with it above.

## 5. What the code does not do

Each row is a statement the modules define, or check in a run, that TLC refutes when
the cfg of the named run is changed as given. The first five contradict a comment or
the documentation; for the others the code has no defence to state.

| Property | Run, changed constants | What TLC finds |
|---|---|---|
| `ReadLockHoldsOffRestart` | `AccelRestart`, all `Calls` with "ini", no crashes | ZendAccelerator.c:2754 says of the read lock "Now if we weren't inside restart, restart would not begin until we remove usage lock"; a restarter that has already looked for users (line 2755) begins all the same |
| `NeverScheduledTwice` | the same | "don't schedule twice" (line 2715): the test (2714) and the store are not one step, and the second scheduler saves "disabled" as the status to restore: the cache stays off |
| `RestartHappens` | `AccelRestartLive`, `Worker`, `Process` and `Killable` `<- ThreeProcs`, `Prompt <- OneProc`, `Calls = {"compile", "reset"}`, `ForceRestart = TRUE`, no crashes | "After this time period has passed, the OPcache assumes that something has happened and starts killing the processes that still hold the locks" (opcache/README:190-192); after one round of killing (line 574) the timeout is forgotten, and a third process that comes late and hangs holds the restart off for ever |
| `FindsAScript` | `AccelCacheFresh`, `Calls = {"include"}`, `MaxRelinks = 2`, `MaxScripts = 3` | "'indirect' entries, that point to other entries" (zend_accelerator_hash.h:38-40): when a path and its link swap roles an entry becomes a name of itself (zend_accelerator_hash.c:102) |
| `LetterOfCurrentPath` | `AccelIncludePath`, `Early = TRUE` | 'one letter key of current "include_path"' (ZendAccelerator.h:261): a request that is not counted keeps a letter across a restart (ZendAccelerator.c:212) |
| `ReadLockReleased` | `AccelRestart` | `opcache_invalidate()` of a missing file keeps the usage lock (ZendAccelerator.c:1066) |
| `CountedHoldsLock` | `AccelRestart`, `ProcOf <- ThreadOf`, `Worker` and `Prompt` `<- ThreadWorkers`, no symmetry | threads share the fcntl locks of their process (line 2341) |
| `KillGivesUp` | `AccelRestart` with `FairSpec`, `Killable <- OneProc`, no symmetry | `kill_all_lockers` does not give up on a process it may not signal (line 576) |
| `RestartHappens` | `AccelRestartLive`, `ForceRestart = TRUE`, `Prompt <- OneProc` | a restarter that dies after it cleared the timeout leaves a hanging reader alone; without the crash the forced restart gets through with two processes |
| `FindReturnsNoEntry` | `AccelHash` | an entry changes from data to name in two stores; a look-up between them returns the entry it leads to as if it were data (zend_accelerator_hash.c:107) |
| `StoredIsCurrent` | `AccelCacheFresh`, `Protection = 0`, `MaxEdits = 2` | protection 0 is not safe with atomic updates within a second, though opcache/README:112 recommends it |
| `StoredIsCurrent` | `AccelCacheFresh`, `InitialReal <- Apart` | a path that becomes a link after it was resolved and before it is compiled is stored with the contents of the other file, whose modification time may be the same; in the run itself only the link becomes a file, and the theorem of section 4 is about `relinks = 0` |
| `SymlinkChangeIsNoticed` | `AccelCacheFresh` | a changed link is not noticed by include_once (line 1931); with `RevalidatePath` and include alone it is |
| `FirstPathIsKept` | `AccelIncludePath`, `Default = NoPath` | the path that a restart keeps is in memory the restart frees (line 2114) |
| `SegmentIsTiled`, `ImplementsMap` | `SysvShm`, `AttachLocked = FALSE` | a script that attaches a new segment beside the one that initializes it uses it before its header is whole (sysvshm.c:188) |
| `RecordsInOnePlace`, `SignalsArePlayed` | `PcntlSignals`, `Unblocks = TRUE` | the function of a signal unblocks signals with pcntl_sigprocmask: the handler then changes the lists under the dispatcher |
| `RecordsInOnePlace` | `PcntlSignals`, `Quiet = FALSE` | a signal that arrives while `pcntl_signal` allocates its first records (pcntl.c:857-866) changes the list of spares under it |

Named by history variables in the properties themselves: `exit()` in the function of a
signal leaves the dispatcher marked as playing and the signals blocked (`cut`); a callback
that changes the locale and uses the expression of its caller frees what the caller uses
(`replaced`, php_pcre.c:483); the limit of that cache is tested by equality (`overfull`,
:455); a process that is counted in `sem_get` while another one is half undone finds a
wrong number, of which the comment says that it "doesn't actually matter in practice"
(`spoiled`, sysvsem.c:212-219); a session is collected although it was renewed after the
collector looked at it (`spoiled`, mod_files.c:225).

## 6. Not modelled

* opcache: checksums (`consistency_checks`), the blacklist, file size limits, phar aliases,
  `opcache_compile_file`, Windows; persisting and optimizing of compiled code, whose
  structures belong to the engine. Hazards without a defence in the code to state as a
  property: `opcache_is_script_cached()` (zend_accelerator_module.c:320) and
  `resolve_path` (ZendAccelerator.c:2000) read shared memory without the usage lock;
  hits are counted without a lock (:1637); a key that leads to another file is never
  corrected (:1107); when the table is full a path of one letter looks like a letter
  (:960). Those of section 5 have a property that is refuted.
* session: the handlers in scripts and in shared memory, serializers, cookies.
* pcntl, sysvmsg, shmop: functions that are one system call.
* mysqlnd and ftp: state machines of a client; what is correct depends on a server that
  is not in the repository.
* Everything else is sequential: bindings to libraries, formats, conversions, containers,
  and vendored code. PROJECT.json gives a reason for each. Most of the lines of the
  repository are of this kind (tables of character sets, sqlite, pcrelib, generated
  scanners), and a model of them would have no behaviour to check.

Properties in no run: `CountedHoldsLock` (proved), `NamesPointToData` (proved while no entry
with data has become a name), `DirectEntriesCounted` (proved), `KeysAreReadable`, which TLC
confirms with the constants of the run of its module, and those refuted in section 5.

## 7. Plan

Done: the core of opcache, its interned strings, sysvsem, sysvshm, session files, pcntl,
and the cache of expressions. Left, in this order:

1. `AccelCache` and `AccelRestart` composed, with the restart's steps.
2. mysqlnd: the state of a connection against a server that answers in every legal way.
3. The user-level and shared memory handlers of session against the same properties.
