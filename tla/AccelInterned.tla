---------------------------- MODULE AccelInterned ----------------------------
(***************************************************************************)
(* The interned strings of the opcode cache (opcache/ZendAccelerator.c).   *)
(*                                                                         *)
(* A buffer in shared memory holds one copy of each string the cached      *)
(* scripts use.  A string is a bucket of a hash table: a chain per slot    *)
(* and one list of all.  Strings are added under the exclusive lock, never *)
(* freed one by one, and read by everybody without a lock.  What PHP        *)
(* itself uses is interned before the workers start; a restart of the      *)
(* cache takes the buffer back to that.                                    *)
(*                                                                         *)
(* The buffer is counted in units; 0 is NULL.  That a restart waits until  *)
(* nobody holds the usage lock is what AccelRestart is about.              *)
(***************************************************************************)
EXTENDS Integers, FiniteSets

CONSTANTS
  Process, Parent,     \* the workers, and the process that starts them
  String, NoString,
  Slot, hash,          \* hash[s]: the slot of a string
  size,                \* size[s]: units of its bucket
  Units,               \* the buffer is 1..Units
  Startup,             \* the strings PHP itself uses
  MaxScript,           \* bound: strings of a script
  MaxRestarts, MaxDeaths   \* bounds

ASSUME InternedAssumption ==
  /\ Parent \notin Process /\ NoString \notin String \cup Process \cup {Parent}
  /\ hash \in [String -> Slot] /\ size \in [String -> Nat \ {0}]
  /\ Units \in Nat /\ Startup \subseteq String
  /\ MaxScript \in Nat /\ MaxRestarts \in Nat /\ MaxDeaths \in Nat

VARIABLES
  bucket,              \* what the buffer holds from an address on
  arBuckets, pListHead, pListTail, top,
  saved,               \* interned_strings_saved_state
  (* The process that has the exclusive lock. *)
  lock, pc, todo,      \* strings it has yet to intern
  str, at, new,        \* the string, the bucket looked at, the new bucket
  got,                 \* the strings of its script that are interned
  (* Pointers to strings, with the string they are for. *)
  engine,              \* tables of PHP itself
  scripts,             \* scripts in the cache
  refs,                \* what the request of a process uses
  mem_usage,           \* who holds the usage lock
  (* History. *)
  linked,              \* addresses that are in a chain
  torn,                \* a process died with the list half written
  restarts, deaths

table == <<arBuckets, pListHead, pListTail, top>>
local == <<str, at, new>>
cs == <<pc, todo, local, got>>
users == <<engine, scripts, refs, mem_usage>>
history == <<linked, torn, restarts, deaths>>
vars == <<bucket, table, saved, lock, cs, users, history>>

Addr == 1..Units
EmptyBucket == [key |-> NoString, pNext |-> 0, pListNext |-> 0, pListLast |-> 0]
Pointer == 0..Units
Top == 1..(Units + 1)
Bucket == [key : String \cup {NoString}, pNext : Pointer, pListNext : Pointer, pListLast : Pointer]
Table == [arBuckets : [Slot -> Pointer], pListHead : Pointer, pListTail : Pointer, top : Top]
Place == Addr \X String
Linking == {"bucket", "list", "listnext", "listhead"}

TypeOK ==
  /\ bucket \in [Addr -> Bucket]
  /\ arBuckets \in [Slot -> Pointer] /\ pListHead \in Pointer /\ pListTail \in Pointer
  /\ top \in Top
  /\ saved \in Table
  /\ lock \in Process \cup {Parent, NoString}
  /\ pc \in {"next", "walk", "fill", "chain"} \cup Linking
  /\ todo \subseteq String /\ str \in String \cup {NoString} /\ at \in Pointer /\ new \in Pointer
  /\ got \subseteq Place /\ engine \subseteq Place /\ scripts \subseteq Place
  /\ refs \in [Process -> SUBSET Place] /\ mem_usage \subseteq Process
  /\ linked \subseteq Addr /\ torn \in BOOLEAN /\ restarts \in Nat /\ deaths \in Nat

(* accel_startup: the buffer is empty, the parent interns PHP's own strings. *)
Init ==
  /\ bucket = [a \in Addr |-> EmptyBucket]
  /\ arBuckets = [h \in Slot |-> 0] /\ pListHead = 0 /\ pListTail = 0 /\ top = 1
  /\ saved = [arBuckets |-> [h \in Slot |-> 0], pListHead |-> 0, pListTail |-> 0, top |-> 1]
  /\ lock = Parent /\ pc = "next" /\ todo = Startup
  /\ str = NoString /\ at = 0 /\ new = 0 /\ got = {}
  /\ engine = {} /\ scripts = {} /\ refs = [p \in Process |-> {}] /\ mem_usage = {}
  /\ linked = {} /\ torn = FALSE /\ restarts = 0 /\ deaths = 0

-----------------------------------------------------------------------------
(* accel_new_interned_string, by the process that has the lock. *)
Go(from, to) == pc = from /\ pc' = to

NextString ==
  /\ Go("next", "walk")
  /\ \E s \in todo : str' = s /\ todo' = todo \ {s} /\ at' = arBuckets[hash[s]]
  /\ UNCHANGED <<bucket, table, saved, lock, new, got, users, history>>

Same(a) == bucket[a].key = str

WalkOn ==
  /\ Go("walk", "walk") /\ at # 0 /\ ~Same(at)
  /\ at' = bucket[at].pNext
  /\ UNCHANGED <<bucket, table, saved, lock, todo, str, new, got, users, history>>

WalkFinds ==
  /\ Go("walk", "next") /\ at # 0 /\ Same(at)
  /\ got' = got \cup {<<at, str>>}
  /\ UNCHANGED <<bucket, table, saved, lock, todo, str, at, new, users, history>>

Fits(s) == top + size[s] <= Units

(* "no memory, return the same non-interned string" *)
WalkOverflows ==
  /\ Go("walk", "next") /\ at = 0 /\ ~Fits(str)
  /\ UNCHANGED <<bucket, table, saved, lock, todo, local, got, users, history>>

Bump ==
  /\ Go("walk", "fill") /\ at = 0 /\ Fits(str)
  /\ new' = top /\ top' = top + size[str]
  /\ UNCHANGED <<bucket, arBuckets, pListHead, pListTail, saved, lock, todo, str, at, got, users,
                history>>

(* What was in its units is overwritten. *)
Fill ==
  /\ Go("fill", "chain")
  /\ bucket' = [a \in Addr |->
       CASE a = new -> [EmptyBucket EXCEPT !.key = str]
         [] a \in (new + 1)..(new + size[str] - 1) -> EmptyBucket
         [] OTHER -> bucket[a]]
  /\ UNCHANGED <<table, saved, lock, todo, local, got, users, history>>

(* Mut: the buckets that are in the slot already are left out. *)
MutFirstOf(h) == 0
FirstOf(h) == arBuckets[h]

(* pLast, that nothing reads, is left out. *)
LinkNext ==
  /\ Go("chain", "bucket")
  /\ bucket' = [bucket EXCEPT ![new].pNext = FirstOf(hash[str])]
  /\ UNCHANGED <<table, saved, lock, todo, local, got, users, history>>

LinkHead ==
  /\ Go("bucket", "list")
  /\ arBuckets' = [arBuckets EXCEPT ![hash[str]] = new]
  /\ linked' = linked \cup {new}
  /\ UNCHANGED <<bucket, pListHead, pListTail, top, saved, lock, todo, local, got, users,
                torn, restarts, deaths>>

ListTail ==
  /\ Go("list", "listnext")
  /\ bucket' = [bucket EXCEPT ![new].pListLast = pListTail]
  /\ pListTail' = new
  /\ UNCHANGED <<arBuckets, pListHead, top, saved, lock, todo, local, got, users, history>>

ListNext ==
  /\ Go("listnext", "listhead")
  /\ LET last == bucket[new].pListLast
     IN bucket' = [a \in Addr |->
          CASE a = new -> [bucket[a] EXCEPT !.pListNext = 0]
            [] a = last /\ a # new -> [bucket[a] EXCEPT !.pListNext = new]
            [] OTHER -> bucket[a]]
  /\ UNCHANGED <<table, saved, lock, todo, local, got, users, history>>

ListHead ==
  /\ Go("listhead", "next")
  /\ pListHead' = IF pListHead = 0 THEN new ELSE pListHead
  /\ got' = got \cup {<<new, str>>}
  /\ UNCHANGED <<bucket, arBuckets, pListTail, top, saved, lock, todo, str, at, new, users, history>>

-----------------------------------------------------------------------------
Forget == str' = NoString /\ at' = 0 /\ new' = 0

(* accel_interned_strings_save_state, when the parent has interned all *)
SaveState ==
  /\ lock = Parent /\ Go("next", "next") /\ todo = {}
  /\ saved' = [arBuckets |-> arBuckets, pListHead |-> pListHead, pListTail |-> pListTail,
               top |-> top]
  /\ engine' = got /\ got' = {} /\ lock' = NoString /\ Forget
  /\ UNCHANGED <<bucket, table, todo, scripts, refs, mem_usage, history>>

(* A request begins to use the cache: accel_activate_add. *)
Activate(p) ==
  /\ lock # Parent /\ p \notin mem_usage
  /\ mem_usage' = mem_usage \cup {p}
  /\ UNCHANGED <<bucket, table, saved, lock, cs, engine, scripts, refs, history>>

(* It loads the cached scripts, with their strings. *)
LoadScript(p) ==
  /\ p \in mem_usage /\ lock # p /\ scripts \notin SUBSET refs[p]
  /\ refs' = [refs EXCEPT ![p] = @ \cup scripts]
  /\ UNCHANGED <<bucket, table, saved, lock, cs, engine, scripts, mem_usage, history>>

(* cache_script_in_shared_memory: the strings of a compiled script. *)
PersistCalc(p) ==
  /\ p \in mem_usage /\ lock = NoString
  /\ \E S \in SUBSET String : Cardinality(S) \in 1..MaxScript /\ todo' = S
  /\ lock' = p /\ pc' = "next"
  /\ UNCHANGED <<bucket, table, saved, local, got, users, history>>

(* The script is stored, or not for want of memory; the request uses it.    *)
Persist(p, stored) ==
  /\ lock = p /\ Go("next", "next") /\ todo = {}
  /\ refs' = [refs EXCEPT ![p] = @ \cup got]
  /\ scripts' = IF stored THEN scripts \cup got ELSE scripts
  /\ got' = {} /\ lock' = NoString /\ Forget
  /\ UNCHANGED <<bucket, table, saved, todo, engine, mem_usage, history>>

(* accel_deactivate: the request is over. *)
Deactivate(p) ==
  /\ p \in mem_usage /\ lock # p
  /\ mem_usage' = mem_usage \ {p} /\ refs' = [refs EXCEPT ![p] = {}]
  /\ UNCHANGED <<bucket, table, saved, lock, cs, engine, scripts, history>>

(* Mut: the buckets alone are restored. *)
MutRestoreTop == 1
RestoreTop == saved.top
(* Mut: pListNext of the last of the saved strings is left as it is. *)
MutCutList == bucket
CutList == IF saved.pListTail = 0 THEN bucket
           ELSE [bucket EXCEPT ![saved.pListTail].pListNext = 0]

(* Mut: the slots keep the newest bucket. *)
MutRestoreBuckets == arBuckets
RestoreBuckets == saved.arBuckets

(* A restart of the cache: the scripts are dropped, and                      *)
(* accel_interned_strings_restore_state.                                     *)
Restart ==
  /\ lock = NoString /\ mem_usage = {} /\ restarts < MaxRestarts
  /\ arBuckets' = RestoreBuckets
  /\ pListHead' = saved.pListHead /\ pListTail' = saved.pListTail
  /\ top' = RestoreTop /\ bucket' = CutList
  /\ scripts' = {}
  /\ restarts' = restarts + 1
  /\ linked' = {a \in linked : a < saved.top} /\ torn' = FALSE
  /\ UNCHANGED <<saved, lock, cs, engine, refs, mem_usage, deaths>>

(* A worker dies; the system drops its locks.                                *)
Die(p) ==
  /\ p \in mem_usage /\ deaths < MaxDeaths
  /\ deaths' = deaths + 1
  /\ mem_usage' = mem_usage \ {p} /\ refs' = [refs EXCEPT ![p] = {}]
  /\ IF lock = p
     THEN /\ lock' = NoString /\ pc' = "next" /\ todo' = {} /\ got' = {} /\ Forget
          /\ torn' = (torn \/ pc \in {"list", "listnext", "listhead"})
     ELSE UNCHANGED <<lock, cs, torn>>
  /\ UNCHANGED <<bucket, table, saved, engine, scripts, linked, restarts>>

-----------------------------------------------------------------------------
NewInternedString ==
  \/ NextString \/ WalkOn \/ WalkFinds \/ WalkOverflows \/ Bump \/ Fill \/ LinkNext
  \/ LinkHead \/ ListTail \/ ListNext \/ ListHead
Request(p) ==
  \/ Activate(p) \/ LoadScript(p) \/ PersistCalc(p) \/ Persist(p, TRUE) \/ Persist(p, FALSE)
  \/ Deactivate(p) \/ Die(p)
Next == NewInternedString \/ SaveState \/ Restart \/ \E p \in Process : Request(p)

Spec == Init /\ [][Next]_vars
(* The process that has the lock goes on, or dies. *)
GoesOn == NewInternedString \/ SaveState \/ \E p \in Process : Persist(p, TRUE)
FairSpec == Spec /\ WF_vars(GoesOn)

-----------------------------------------------------------------------------
(* A pointer that PHP, a cached script or a request holds leads to the       *)
(* string it was interned for, restarts and deaths notwithstanding ("Such     *)
(* interned strings are shared across all PHP processes").                   *)
Pointers == engine \cup scripts \cup got \cup UNION {refs[p] : p \in Process}
StringsStay == \A r \in Pointers : r[1] \in Addr /\ bucket[r[1]].key = r[2]

(* A string is interned once: two pointers to interned strings are equal if   *)
(* the strings are, and a string is not stored again after a death.          *)
OncePerString ==
  \A a, b \in linked : bucket[a].key = bucket[b].key => a = b

(* The list visits all strings in the order they came, unless a process died  *)
(* while it linked one; a restart repairs it.                                *)
Later(a) == {b \in linked : a < b}
Following(a) == IF Later(a) = {} THEN 0 ELSE CHOOSE b \in Later(a) : \A c \in Later(a) : b <= c
ListIsWhole ==
  ~torn /\ pc \notin Linking =>
    /\ pListHead = Following(0)
    /\ \A a \in linked : bucket[a].pListNext = Following(a)

(* accel_new_interned_string ends: no chain leads back into itself, or into   *)
(* what a restart has given back, and the exclusive lock is released.        *)
LockIsReleased == lock # NoString ~> lock = NoString
=============================================================================
