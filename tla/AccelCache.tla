----------------------------- MODULE AccelCache -----------------------------
(***************************************************************************)
(* The script cache of opcache (opcache/ZendAccelerator.c): how a worker   *)
(* finds a script in shared memory, decides whether it is still the file   *)
(* on disk, invalidates it, compiles the file and stores the result.       *)
(*                                                                         *)
(* Look-ups and validations take no lock; invalidating and storing hold    *)
(* the exclusive lock (byte 0 of the lock file, see AccelRestart).  Files  *)
(* are edited, and paths turned into symbolic links or back, at any time.  *)
(* A file is a version number and a modification time in seconds; sizes    *)
(* are in units of the aligned allocations of zend_shared_alloc.           *)
(* Restarts are atomic here and wait for the workers that are counted.     *)
(***************************************************************************)
EXTENDS Naturals, FiniteSets, FiniteSetsExt

CONSTANTS
  Worker, Name, NoName, NoWorker,
  InitialReal,         \* what the names resolve to at first
  Absolute,            \* the names that are absolute paths
  SizeOf,              \* what the script of a file occupies, by name
  KeySize,             \* what a key added later occupies
  Memory, MinFree,     \* opcache.memory_consumption, MIN_FREE_MEMORY
  WastedLimit,         \* opcache.max_wasted_percentage of Memory
  max_num_entries,
  ValidateTimestamps, RevalidatePath,
  Protection,          \* opcache.file_update_protection
  Freq,                \* opcache.revalidate_freq
  Calls,               \* bound: of "include", "once", "invalidate", "force", "cached"
  MaxTime, MaxEdits, MaxRelinks, MaxScripts, MaxCrashes   \* bounds

ASSUME CacheAssumption ==
  /\ IsFiniteSet(Name) /\ NoName \notin Name /\ NoWorker \notin Worker
  /\ Absolute \subseteq Name
  /\ InitialReal \in [Name -> Name] /\ SizeOf \in [Name -> Nat \ {0}]
  /\ \A n \in Name : InitialReal[InitialReal[n]] = InitialReal[n]
  /\ KeySize \in Nat /\ Memory \in Nat /\ MinFree \in Nat /\ WastedLimit \in Nat
  /\ max_num_entries \in Nat \ {0}
  /\ ValidateTimestamps \in BOOLEAN /\ RevalidatePath \in BOOLEAN
  /\ Protection \in Nat /\ Freq \in Nat
  /\ MaxTime \in Nat \ {0} /\ MaxEdits \in Nat /\ MaxRelinks \in Nat
  /\ MaxScripts \in Nat /\ MaxCrashes \in Nat

VARIABLES
  (* The file system and the clock. *)
  now, real, mtime, version,
  (* SHM: the scripts, the hash table, the memory. *)
  scripts, stored, entry, shared_free, wasted, memory_exhausted, restart_pending,
  lock,
  (* The workers. *)
  pc, counted, request_time,
  key, path,      \* the key, and the path of the opened file or NoName
  claim,          \* the path was taken from a script, no file was opened
  found, bucket,  \* the script and the entry a look-up returned
  stamp, code,    \* timestamp, and the version compiled
  (* History. *)
  asked, used,    \* the name of a worker's last call, and what it executes
  over,           \* when a version ceased to be the content of its file
  left,           \* when a name ceased to resolve to another
  edits, relinks, crashes, keymem

disk == <<now, real, mtime, version>>
memory == <<shared_free, wasted, memory_exhausted, restart_pending, keymem>>
table == <<scripts, stored, entry>>
local == <<key, path, claim, found, bucket, stamp, code>>
past == <<over, left, edits, relinks>>
vars == <<disk, table, memory, lock, pc, counted, request_time, local,
          asked, used, past, crashes>>

ScriptId == 1..MaxScripts
Version == 1..(Cardinality(Name) + MaxEdits)
Never == MaxTime + 1

(* zend_persistent_script *)
Script == [full_path : Name, timestamp : 0..MaxTime, version : Version, corrupted : BOOLEAN,
           revalidate : 0..(MaxTime + Freq), memory_consumption : Nat]
(* zend_accel_hash_entry: data is a script, or the entry of another key.    *)
NoEntry == [indirect |-> FALSE, data |-> 0]
Entry == [indirect : BOOLEAN, data : Name \cup {0} \cup ScriptId]

TypeOK ==
  /\ now \in 1..MaxTime /\ real \in [Name -> Name]
  /\ mtime \in [Name -> 1..MaxTime] /\ version \in [Name -> Version]
  /\ stored \in 0..MaxScripts /\ scripts \in [1..stored -> Script]
  /\ entry \in [Name -> Entry]
  /\ shared_free \in 0..Memory /\ wasted \in 0..Memory /\ keymem \in 0..Memory
  /\ memory_exhausted \in BOOLEAN /\ restart_pending \in BOOLEAN
  /\ lock \in Worker \cup {NoWorker}
  /\ pc \in [Worker -> {"idle", "run", "resolve", "open", "addkey", "check", "mark", "apimark",
                        "miss", "stamp", "compile", "store", "publish", "link"}]
  /\ counted \in [Worker -> BOOLEAN] /\ request_time \in [Worker -> 0..MaxTime]
  /\ key \in [Worker -> Name \cup {NoName}] /\ path \in [Worker -> Name \cup {NoName}]
  /\ claim \in [Worker -> BOOLEAN] /\ found \in [Worker -> 0..MaxScripts] /\ bucket \in [Worker -> Name \cup {NoName}]
  /\ stamp \in [Worker -> 0..MaxTime] /\ code \in [Worker -> {0} \cup Version]
  /\ used \in [Worker -> [path : Name \cup {NoName}, version : {0} \cup Version]]
  /\ asked \in [Worker -> Name \cup {NoName}]
  /\ over \in [Version -> 1..Never] /\ left \in [Name -> [Name -> 0..Never]]
  /\ edits \in 0..MaxEdits /\ relinks \in 0..MaxRelinks /\ crashes \in 0..MaxCrashes

Nothing == [path |-> NoName, version |-> 0]
FirstVersion == CHOOSE f \in [Name -> 1..Cardinality(Name)] :
                  \A m, n \in Name : m # n => f[m] # f[n]

Init ==
  /\ now = 1 /\ real = InitialReal
  /\ mtime = [n \in Name |-> 1] /\ version = FirstVersion
  /\ scripts = << >> /\ stored = 0 /\ entry = [n \in Name |-> NoEntry]
  /\ shared_free = Memory /\ wasted = 0 /\ keymem = 0
  /\ memory_exhausted = FALSE /\ restart_pending = FALSE
  /\ lock = NoWorker
  /\ pc = [w \in Worker |-> "idle"] /\ counted = [w \in Worker |-> FALSE]
  /\ request_time = [w \in Worker |-> 0] /\ key = [w \in Worker |-> NoName]
  /\ path = [w \in Worker |-> NoName] /\ claim = [w \in Worker |-> FALSE]
  /\ found = [w \in Worker |-> 0]
  /\ bucket = [w \in Worker |-> NoName]
  /\ stamp = [w \in Worker |-> 0] /\ code = [w \in Worker |-> 0]
  /\ asked = [w \in Worker |-> NoName] /\ used = [w \in Worker |-> Nothing]
  /\ over = [v \in Version |-> Never]
  /\ left = [n \in Name |-> [m \in Name |-> IF InitialReal[n] = m THEN Never ELSE 0]]
  /\ edits = 0 /\ relinks = 0 /\ crashes = 0

-----------------------------------------------------------------------------
(* The file system and the clock.                                           *)
Tick ==
  /\ now < MaxTime
  /\ now' = now + 1
  /\ UNCHANGED <<real, mtime, version, table, memory, lock, pc, counted, request_time,
                 local, used, asked, past, crashes>>

NewContent(p) ==
  /\ edits < MaxEdits
  /\ edits' = edits + 1
  /\ version' = [version EXCEPT ![p] = Cardinality(Name) + edits + 1]
  /\ mtime' = [mtime EXCEPT ![p] = now]

(* A regular file is rewritten. *)
Edit(p) ==
  /\ real[p] = p
  /\ NewContent(p)
  /\ over' = [over EXCEPT ![version[p]] = now]
  /\ UNCHANGED <<now, real, table, memory, lock, pc, counted, request_time, local,
                 used, left, relinks, asked, crashes>>

Leave(f) == [n \in Name |-> [m \in Name |->
  IF f[n] = m THEN Never ELSE IF real[n] = m THEN now ELSE left[n][m]]]

(* A file gives way to a symbolic link to another one ... *)
Relink(n, p) ==
  LET f == [m \in Name |-> IF real[m] = n THEN p ELSE real[m]]
  IN /\ relinks < MaxRelinks /\ relinks' = relinks + 1
     /\ n # p /\ real[n] = n /\ real[p] = p /\ n \in Absolute
     /\ real' = f /\ left' = Leave(f)
     /\ UNCHANGED <<now, mtime, version, table, memory, lock, pc, counted, request_time,
                    local, used, over, edits, asked, crashes>>

(* ... or a link to a new file. *)
Unlink(n) ==
  LET f == [real EXCEPT ![n] = n]
  IN /\ relinks < MaxRelinks /\ relinks' = relinks + 1
     /\ real[n] # n /\ n \in Absolute
     /\ NewContent(n)
     /\ real' = f /\ left' = Leave(f)
     /\ UNCHANGED <<now, table, memory, lock, pc, counted, request_time, local,
                    used, over, asked, crashes>>

-----------------------------------------------------------------------------
(* The hash table: see AccelHash for its steps.                             *)
Absent(k) == entry[k] = NoEntry
Occupied == {k \in Name : ~Absent(k)}
HashFull == Cardinality(Occupied) = max_num_entries

FindEntry(k) == IF entry[k].indirect THEN entry[k].data ELSE k
Find(k) == entry[FindEntry(k)].data

HashDirect(e, k, s) ==
  IF e[k].indirect THEN [e EXCEPT ![e[k].data].data = s]
                   ELSE [e EXCEPT ![k] = [indirect |-> FALSE, data |-> s]]
(* One name is followed, which is enough as long as names point to scripts. *)
HashIndirect(e, k, b) ==
  LET t == IF e[b].indirect THEN e[b].data ELSE b
  IN [e EXCEPT ![k] = [indirect |-> TRUE, data |-> t]]

(* Mut: one unit more than there is. *)
MutFits(size) == shared_free + 1 >= size
Fits(size) == shared_free >= size

(* zend_shared_alloc: a failure declares the memory exhausted when there is *)
(* hardly any left.                                                         *)
ExhaustedBy(size) == memory_exhausted \/ (~Fits(size) /\ shared_free < MinFree)

(* Mut: only more than the limit is too much. *)
MutTooMuchWasted(waste) == waste > WastedLimit
(* zend_accel_schedule_restart_if_necessary *)
TooMuchWasted(waste) == waste >= WastedLimit
Schedule == restart_pending' = (restart_pending \/ TooMuchWasted(wasted))

(* zend_accel_add_key, under the lock. *)
AddKey(k, b) ==
  /\ UNCHANGED <<wasted, scripts, stored>>
  /\ IF ~Absent(k)
     THEN UNCHANGED <<entry, shared_free, memory_exhausted, restart_pending, keymem>>
     ELSE IF HashFull
     THEN /\ memory_exhausted' = TRUE /\ Schedule
          /\ UNCHANGED <<entry, shared_free, keymem>>
     ELSE IF ~Fits(KeySize)
     THEN /\ memory_exhausted' = ExhaustedBy(KeySize) /\ Schedule
          /\ UNCHANGED <<entry, shared_free, keymem>>
     ELSE /\ entry' = HashIndirect(entry, k, b)
          /\ shared_free' = shared_free - KeySize /\ keymem' = keymem + KeySize
          /\ UNCHANGED <<memory_exhausted, restart_pending>>

-----------------------------------------------------------------------------
(* A request.  It holds the usage lock once it has included a script, and   *)
(* during opcache_invalidate().                                             *)
Reading(w) == counted[w] \/ pc[w] = "apimark"

Begin(w) ==
  /\ pc[w] = "idle"
  /\ pc' = [pc EXCEPT ![w] = "run"]
  /\ request_time' = [request_time EXCEPT ![w] = now]
  /\ UNCHANGED <<disk, lock, counted, local, used, asked, past, crashes>>
  /\ IF restart_pending /\ \A v \in Worker : ~Reading(v)
     THEN /\ scripts' = << >> /\ stored' = 0 /\ entry' = [n \in Name |-> NoEntry]
          /\ shared_free' = Memory /\ wasted' = 0 /\ keymem' = 0
          /\ memory_exhausted' = FALSE /\ restart_pending' = FALSE
     ELSE UNCHANGED <<table, memory>>

End(w) ==
  /\ pc[w] = "run"
  /\ pc' = [pc EXCEPT ![w] = "idle"]
  /\ counted' = [counted EXCEPT ![w] = FALSE]
  /\ used' = [used EXCEPT ![w] = Nothing]
  /\ asked' = [asked EXCEPT ![w] = NoName]
  /\ request_time' = [request_time EXCEPT ![w] = 0]
  /\ UNCHANGED <<disk, table, memory, lock, local, past, crashes>>

CacheOn(w) == counted[w] \/ ~restart_pending

Goto(w, l) == pc' = [pc EXCEPT ![w] = l]
(* The worker forgets the look-up ... *)
Forget(w) ==
  /\ Goto(w, "run")
  /\ key' = [key EXCEPT ![w] = NoName]
  /\ path' = [path EXCEPT ![w] = NoName] /\ claim' = [claim EXCEPT ![w] = FALSE]
  /\ found' = [found EXCEPT ![w] = 0]
  /\ bucket' = [bucket EXCEPT ![w] = NoName]
  /\ stamp' = [stamp EXCEPT ![w] = 0] /\ code' = [code EXCEPT ![w] = 0]

(* ... and executes a version of a file. *)
Run(w, p, v) ==
  /\ Forget(w)
  /\ used' = [used EXCEPT ![w] = [path |-> p, version |-> v]]

(* persistent_compile_file for include and require: by key, and if there is *)
(* no such key the file is opened.                                          *)
Include(w, n) ==
  /\ pc[w] = "run" /\ "include" \in Calls /\ CacheOn(w)
  /\ counted' = [counted EXCEPT ![w] = TRUE] /\ asked' = [asked EXCEPT ![w] = n]
  /\ key' = [key EXCEPT ![w] = n]
  /\ used' = [used EXCEPT ![w] = Nothing]
  /\ IF Find(n) # 0
     THEN /\ found' = [found EXCEPT ![w] = Find(n)] /\ Goto(w, "check")
          /\ UNCHANGED path
     ELSE /\ path' = [path EXCEPT ![w] = real[n]] /\ Goto(w, "open")
          /\ UNCHANGED found
  /\ UNCHANGED <<claim, disk, table, memory, lock, request_time, bucket, stamp, code, past,
                 crashes>>

(* The opened path is taken from a script that was found. *)
Claim(w, s) ==
  /\ found' = [found EXCEPT ![w] = s]
  /\ claim' = [claim EXCEPT ![w] = TRUE]
  /\ path' = [path EXCEPT ![w] = scripts[s].full_path]

(* include_once, require_once and the main script: resolve_path() looks for *)
(* a script by name (the usage lock is not taken yet; a worker that is not  *)
(* counted is modelled as counted from here, see AccelRestart for the gap). *)
IncludeOnce(w, n) ==
  LET s == Find(n)
      known == s # 0 /\ ~scripts[s].corrupted /\ (n \in Absolute \/ ~RevalidatePath)
  IN
  /\ pc[w] = "run" /\ "once" \in Calls /\ CacheOn(w)
  /\ counted' = [counted EXCEPT ![w] = TRUE] /\ asked' = [asked EXCEPT ![w] = n]
  /\ used' = [used EXCEPT ![w] = Nothing]
  /\ IF known
     THEN /\ Claim(w, s)
          /\ key' = [key EXCEPT ![w] = IF n \in Absolute THEN scripts[s].full_path ELSE n]
          /\ Goto(w, "check")
     ELSE /\ key' = [key EXCEPT ![w] = n]
          /\ path' = [path EXCEPT ![w] = real[n]]
          /\ Goto(w, "resolve")
          /\ UNCHANGED <<found, claim>>
  /\ UNCHANGED <<disk, table, memory, lock, request_time, bucket, stamp, code, past, crashes>>

(* ... and by its real path, which is the name of the file from now on. *)
ResolveReal(w) ==
  LET s == Find(path[w])
  IN
  /\ pc[w] = "resolve"
  /\ IF s # 0 /\ ~scripts[s].corrupted
     THEN /\ Claim(w, s)
          /\ bucket' = [bucket EXCEPT ![w] = FindEntry(path[w])]
          /\ Goto(w, IF RevalidatePath THEN "check" ELSE "addkey")
          /\ UNCHANGED key
     ELSE /\ key' = [key EXCEPT ![w] = path[w]]
          /\ Goto(w, "open")
          /\ UNCHANGED <<found, claim, path, bucket>>
  /\ UNCHANGED <<disk, table, memory, lock, counted, request_time, stamp, code, used, asked,
                 past, crashes>>

(* A file was opened: its script is looked up, and the key added to it. *)
LookupReal(w) ==
  LET s == Find(path[w])
  IN
  /\ pc[w] = "open"
  /\ found' = [found EXCEPT ![w] = s]
  /\ bucket' = [bucket EXCEPT ![w] = IF s = 0 THEN NoName ELSE FindEntry(path[w])]
  /\ Goto(w, IF s = 0 THEN "miss"
             ELSE IF RevalidatePath \/ scripts[s].corrupted THEN "check" ELSE "addkey")
  /\ UNCHANGED <<disk, table, memory, lock, counted, request_time, key, path, claim,
                 stamp, code, used, asked, past, crashes>>

AddFoundKey(w) ==
  /\ pc[w] = "addkey" /\ lock = NoWorker
  /\ AddKey(key[w], bucket[w])
  /\ Goto(w, "check")
  /\ UNCHANGED <<disk, lock, counted, request_time, local, used, asked, past, crashes>>

SameFile(s, p) == scripts[s].full_path = p

(* do_validate_timestamps *)
Validates(s, p) ==
  /\ SameFile(s, p)
  /\ scripts[s].timestamp # 0
  /\ scripts[s].timestamp = mtime[real[p]]

(* Mut: validated once, trusted for ever. *)
MutStillTrusted(w, s) == Freq # 0 /\ scripts[s].revalidate # 0
(* validate_timestamp_and_record: checked recently enough. *)
StillTrusted(w, s) == Freq # 0 /\ scripts[s].revalidate >= request_time[w]

(* file_handle->opened_path, or what the name resolves to ... *)
Opened(w) == IF path[w] = NoName THEN real[asked[w]] ELSE path[w]
(* ... and the path of the file once it has been opened. *)
Resolved(w) == IF claim[w] THEN real[path[w]] ELSE Opened(w)

Record(w, s) == scripts' = [scripts EXCEPT ![s].revalidate = request_time[w] + Freq]

(* The script that was found is executed or rejected. *)
Check(w) ==
  LET s == found[w]
      hit == Run(w, scripts[s].full_path, scripts[s].version)
  IN
  /\ pc[w] = "check"
  /\ \/ /\ scripts[s].corrupted
        /\ Goto(w, "miss")
        /\ UNCHANGED <<scripts, local, used>>
     \/ /\ ~scripts[s].corrupted
        /\ ~ValidateTimestamps \/ StillTrusted(w, s)
        /\ hit
        /\ UNCHANGED scripts
     \/ /\ ~scripts[s].corrupted /\ ValidateTimestamps /\ ~StillTrusted(w, s)
        /\ IF Validates(s, Opened(w))
           THEN hit /\ Record(w, s)
           ELSE Goto(w, "mark") /\ UNCHANGED <<scripts, local, used>>
  /\ UNCHANGED <<disk, stored, entry, memory, lock, counted, request_time, asked, past, crashes>>

(* Mut: another worker may have marked it meanwhile. *)
MutStillLive(s) == TRUE
StillLive(s) == ~scripts[s].corrupted

(* The script is marked under the lock, once. *)
Mark(w) ==
  LET s == found[w]
      waste == wasted + scripts[s].memory_consumption
  IN
  /\ pc[w] \in {"mark", "apimark"} /\ lock = NoWorker
  /\ IF StillLive(s)
     THEN /\ scripts' = [scripts EXCEPT ![s].corrupted = TRUE, ![s].timestamp = 0]
          /\ wasted' = waste
          /\ restart_pending' = (restart_pending \/ (memory_exhausted /\ TooMuchWasted(waste)))
     ELSE UNCHANGED <<scripts, wasted, restart_pending>>
  /\ Goto(w, IF pc[w] = "mark" THEN "miss" ELSE "run")
  /\ found' = [found EXCEPT ![w] = 0]
  /\ UNCHANGED <<disk, stored, entry, shared_free, memory_exhausted, keymem, lock, counted,
                 request_time, key, path, claim, bucket, stamp, code, used, asked, past, crashes>>

(* A miss: the file is opened, unless nothing can be stored. *)
Miss(w) ==
  /\ pc[w] = "miss"
  /\ IF memory_exhausted \/ restart_pending
     THEN Run(w, Resolved(w), version[real[Resolved(w)]])
     ELSE /\ Goto(w, "stamp")
          /\ path' = [path EXCEPT ![w] = Resolved(w)]
          /\ claim' = [claim EXCEPT ![w] = FALSE]
          /\ UNCHANGED <<key, found, bucket, stamp, code, used>>
  /\ UNCHANGED <<disk, table, memory, lock, counted, request_time, asked, past, crashes>>

(* Mut: a file of the last protected second is stored. *)
MutTooNew(w, t) == request_time[w] + 1 < t + Protection
(* "check if file is too new (may be it's not written completely yet)" *)
TooNew(w, t) == Protection # 0 /\ request_time[w] < t + Protection

(* "Obtain the file timestamps, *before* actually compiling them" *)
Stamp(w) ==
  LET t == mtime[real[path[w]]]
  IN
  /\ pc[w] = "stamp"
  /\ IF TooNew(w, t)
     THEN Run(w, path[w], version[real[path[w]]])
     ELSE /\ Goto(w, "compile")
          /\ stamp' = [stamp EXCEPT ![w] = IF ValidateTimestamps THEN t ELSE 0]
          /\ UNCHANGED <<key, path, claim, found, bucket, code, used>>
  /\ UNCHANGED <<disk, table, memory, lock, counted, request_time, asked, past, crashes>>

Compile(w) ==
  /\ pc[w] = "compile"
  /\ code' = [code EXCEPT ![w] = version[real[path[w]]]]
  /\ Goto(w, "store")
  /\ UNCHANGED <<disk, table, memory, lock, counted, request_time, key, path, claim, found,
                 bucket, stamp, used, asked, past, crashes>>

(* The file does not compile, and the request goes on or ends in an error. *)
CompileFails(w) ==
  /\ pc[w] = "compile"
  /\ Forget(w)
  /\ UNCHANGED <<disk, table, memory, lock, counted, request_time, used, asked, past, crashes>>

-----------------------------------------------------------------------------
(* cache_script_in_shared_memory                                            *)
Size(w) == SizeOf[path[w]]

(* Mut: the final check under the lock is left out. *)
MutStoredMeanwhile(s) == FALSE
(* "may be it was already stored by another process" *)
StoredMeanwhile(s) == s # 0 /\ ~scripts[s].corrupted

(* Under the lock: nothing is stored ... *)
StoreNothing(w) ==
  LET s == Find(path[w])
  IN
  /\ pc[w] = "store" /\ lock = NoWorker
  /\ \/ /\ HashFull
        /\ memory_exhausted' = TRUE /\ Schedule
        /\ UNCHANGED <<table, shared_free, wasted, keymem>>
     \/ /\ ~HashFull /\ StoredMeanwhile(s)
        /\ IF ~RevalidatePath /\ (~ValidateTimestamps \/ stamp[w] = scripts[s].timestamp)
           THEN AddKey(key[w], FindEntry(path[w]))
           ELSE UNCHANGED <<table, memory>>
     \/ /\ ~HashFull /\ ~StoredMeanwhile(s) /\ ~Fits(Size(w))
        /\ memory_exhausted' = ExhaustedBy(Size(w)) /\ Schedule
        /\ UNCHANGED <<table, shared_free, wasted, keymem>>
  /\ Run(w, path[w], code[w])
  /\ UNCHANGED <<disk, lock, counted, request_time, asked, past, crashes>>

(* ... or memory is allocated and the script copied ... *)
StoreBegin(w) ==
  /\ pc[w] = "store" /\ lock = NoWorker
  /\ ~HashFull /\ ~StoredMeanwhile(Find(path[w])) /\ Fits(Size(w))
  /\ stored < MaxScripts
  /\ lock' = w
  /\ shared_free' = shared_free - Size(w)
  /\ Goto(w, "publish")
  /\ UNCHANGED <<disk, table, wasted, memory_exhausted, restart_pending, keymem, counted,
                 request_time, local, used, asked, past, crashes>>

(* ... it is entered under its path ... *)
StorePublish(w) ==
  /\ pc[w] = "publish"
  /\ stored' = stored + 1
  /\ scripts' = [s \in 1..(stored + 1) |-> IF s <= stored THEN scripts[s] ELSE
       [full_path |-> path[w], timestamp |-> stamp[w], version |-> code[w],
        corrupted |-> FALSE, memory_consumption |-> 0,
        revalidate |-> IF ValidateTimestamps THEN request_time[w] + Freq ELSE 0]]
  /\ entry' = HashDirect(entry, path[w], stored + 1)
  /\ Goto(w, "link")
  /\ UNCHANGED <<disk, memory, lock, counted, request_time, local, used, asked, past, crashes>>

Consumption(w) == Size(w)

(* ... and under its key; the size is recorded and the lock released.       *)
StoreLink(w) ==
  LET linked == ~RevalidatePath /\ key[w] # path[w]
      full == HashFull /\ Absent(key[w])
  IN
  /\ pc[w] = "link"
  /\ scripts' = [scripts EXCEPT ![stored].memory_consumption = Consumption(w)]
  /\ IF linked /\ ~full THEN entry' = HashIndirect(entry, key[w], path[w]) ELSE UNCHANGED entry
  /\ IF linked /\ full THEN memory_exhausted' = TRUE /\ Schedule
                       ELSE UNCHANGED <<memory_exhausted, restart_pending>>
  /\ lock' = NoWorker
  /\ Run(w, path[w], code[w])
  /\ UNCHANGED <<disk, stored, shared_free, wasted, keymem, counted, request_time, asked, past, crashes>>

-----------------------------------------------------------------------------
(* opcache_invalidate() marks a script that changed, or any when forced;    *)
(* opcache_is_script_cached() only validates.                               *)
Invalidate(w, n, force) ==
  LET s == Find(real[n])
  IN
  /\ pc[w] = "run" /\ (IF force THEN "force" ELSE "invalidate") \in Calls
  /\ ~restart_pending
  /\ s # 0 /\ ~scripts[s].corrupted
  /\ force \/ ~ValidateTimestamps \/ ~Validates(s, real[n])
  /\ found' = [found EXCEPT ![w] = s]
  /\ Goto(w, "apimark")
  /\ UNCHANGED <<disk, table, memory, lock, counted, request_time, key, path, claim, bucket,
                 stamp, code, used, asked, past, crashes>>

IsScriptCached(w, n) ==
  LET s == Find(n)
  IN
  /\ pc[w] = "run" /\ "cached" \in Calls /\ ~restart_pending
  /\ s # 0 /\ ~scripts[s].corrupted /\ ValidateTimestamps
  /\ ~StillTrusted(w, s) /\ Validates(s, real[n])
  /\ Record(w, s)
  /\ UNCHANGED <<disk, stored, entry, memory, lock, pc, counted, request_time,
                 local, used, asked, past, crashes>>

(* A worker dies; the kernel releases its locks. *)
Crash(w) ==
  /\ crashes < MaxCrashes /\ pc[w] # "idle"
  /\ crashes' = crashes + 1
  /\ Goto(w, "idle")
  /\ lock' = IF lock = w THEN NoWorker ELSE lock
  /\ counted' = [counted EXCEPT ![w] = FALSE]
  /\ used' = [used EXCEPT ![w] = Nothing]
  /\ key' = [key EXCEPT ![w] = NoName] /\ asked' = [asked EXCEPT ![w] = NoName]
  /\ path' = [path EXCEPT ![w] = NoName] /\ claim' = [claim EXCEPT ![w] = FALSE]
  /\ found' = [found EXCEPT ![w] = 0]
  /\ bucket' = [bucket EXCEPT ![w] = NoName]
  /\ stamp' = [stamp EXCEPT ![w] = 0] /\ code' = [code EXCEPT ![w] = 0]
  /\ request_time' = [request_time EXCEPT ![w] = 0]
  /\ UNCHANGED <<disk, table, memory, past>>

-----------------------------------------------------------------------------
Lookup(w) == ResolveReal(w) \/ LookupReal(w) \/ AddFoundKey(w) \/ Check(w) \/ Mark(w)
Store(w) == \/ Miss(w) \/ Stamp(w) \/ Compile(w) \/ CompileFails(w) \/ StoreNothing(w)
            \/ StoreBegin(w) \/ StorePublish(w) \/ StoreLink(w)
Call(w, n) == \/ Include(w, n) \/ IncludeOnce(w, n) \/ IsScriptCached(w, n)
              \/ \E force \in BOOLEAN : Invalidate(w, n, force)

Next ==
  \/ \E w \in Worker : \/ Begin(w) \/ End(w) \/ Crash(w) \/ Lookup(w) \/ Store(w)
                       \/ \E n \in Name : Call(w, n)
  \/ Tick
  \/ \E n \in Name : Edit(n) \/ Unlink(n) \/ \E p \in Name : Relink(n, p)

Spec == Init /\ [][Next]_vars

-----------------------------------------------------------------------------
Live == {s \in 1..stored : ~scripts[s].corrupted}
Dead == 1..stored \ Live
Occupies(S) == MapThenSumSet(LAMBDA s : SizeOf[scripts[s].full_path], S)

(* A script whose timestamp is that of its file was compiled from what the  *)
(* file contains: this is what makes do_validate_timestamps meaningful, and *)
(* why young files are not cached.  (Modification times are set by edits.)  *)
StoredIsCurrent ==
  \A s \in Live :
    scripts[s].timestamp # 0 /\ scripts[s].timestamp = mtime[scripts[s].full_path]
      => scripts[s].version = version[scripts[s].full_path]

(* What a request executes was the content of the file at some moment not   *)
(* longer than revalidate_freq before the request began.                    *)
BoundedStaleness ==
  \A w \in Worker : used[w].version # 0 =>
    over[used[w].version] + Freq >= request_time[w]

(* Every unit of the memory is free, in a script, or in a key; what wasted  *)
(* counts is what the invalidated scripts occupy (a worker that died while  *)
(* it stored a script may have lost some).                                  *)
MemoryAccounted ==
  lock = NoWorker =>
    LET occupied == shared_free + keymem + Occupies(1..stored)
    IN /\ wasted <= Occupies(Dead) /\ occupied <= Memory
       /\ crashes = 0 => wasted = Occupies(Dead) /\ occupied = Memory

(* While names keep their meaning, a file has one live script and a live    *)
(* script can be found.                                                     *)
OneLiveScript == relinks = 0 =>
  /\ \A s, t \in Live : scripts[s].full_path = scripts[t].full_path => s = t
  /\ \A s \in Live : Find(scripts[s].full_path) = s

(* An exhausted memory with too much waste is going to be cleaned. *)
ExhaustionSchedules ==
  memory_exhausted /\ wasted >= WastedLimit => restart_pending

-----------------------------------------------------------------------------
(* "check that the persistant script is indeed the same file we cached (if  *)
(* part of the path is a symlink than it possible that the user will change *)
(* it)" (do_validate_timestamps).                                           *)
SymlinkChangeIsNoticed ==
  \A w \in Worker : used[w].version # 0 =>
    left[asked[w]][used[w].path] + Freq >= request_time[w]

(* "Few keys may be resolved to the same data. using 'indirect' entries,    *)
(* that point to other entries" (zend_accelerator_hash.h): what a look-up   *)
(* returns is a script.                                                     *)
FindsAScript == \A n \in Name : Find(n) \in 0..stored
=============================================================================
