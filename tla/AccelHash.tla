------------------------------ MODULE AccelHash ------------------------------
(***************************************************************************)
(* The hash table of the opcode cache (opcache/zend_accelerator_hash.c).   *)
(*                                                                         *)
(* It lives in shared memory.  The holder of the exclusive lock updates it *)
(* while other processes look keys up without any lock, so every access to *)
(* a field that another process may be reading or writing is a step, in    *)
(* the order of the source (the repository's objects are x86-64 builds,    *)
(* whose stores become visible in order).  An entry is either direct, and  *)
(* "data" is what the cache stored, or indirect, and "data" is the number  *)
(* of the entry it is another name of.  The chain of a slot of hash_table  *)
(* runs through "next"; 0 is the null pointer.                             *)
(***************************************************************************)
EXTENDS Naturals, FiniteSets

CONSTANTS
  Key, Data, Reader,
  Slot,          \* hash_value % max_num_entries
  SlotOf,        \* the slot of a key
  max_num_entries,
  NoData,        \* NULL
  NoKey,
  MaxUpdates,    \* bound: updates
  MaxCrashes     \* bound: how often the updating process dies

ASSUME HashAssumption ==
  /\ SlotOf \in [Key -> Slot] /\ NoKey \notin Key
  /\ max_num_entries \in Nat \ {0}
  /\ MaxUpdates \in Nat /\ MaxCrashes \in Nat
  /\ NoData \notin Data /\ Data \cap Nat = {} /\ NoData \notin Nat

VARIABLES
  hash_table, hash_entries, num_entries, num_direct_entries,
  wpc, wkey, windirect, wdata, wcur,   \* the updater: control and arguments
  rpc, rkey, rcur, rdata,              \* the finders
  seen,                                \* history: values of the cells of rkey
  cells,                               \* history: the cells rkey had
  shadowed,                            \* history: an entry with data became a name
  updates, crashes

table == <<hash_table, hash_entries, num_entries, num_direct_entries>>
writer == <<wpc, wkey, windirect, wdata, wcur>>
reader == <<rpc, rkey, rcur, rdata>>
history == <<seen, cells, shadowed>>
vars == <<table, writer, reader, history, updates, crashes>>

Pointer == 0..max_num_entries
Entries == 1..max_num_entries
Entry == [key : Key \cup {NoKey}, next : Pointer, indirect : BOOLEAN,
          data : Data \cup {NoData} \cup Entries]

TypeOK ==
  /\ hash_table \in [Slot -> Pointer] /\ hash_entries \in [Entries -> Entry]
  /\ num_entries \in Pointer /\ num_direct_entries \in Pointer
  /\ wpc \in {"idle", "resolve", "search", "publish", "flag"}
  /\ wkey \in Key \cup {NoKey} /\ windirect \in BOOLEAN
  /\ wdata \in Data \cup {NoData} \cup Entries /\ wcur \in Pointer
  /\ rpc \in [Reader -> {"idle", "walk", "kind", "target", "data", "done"}]
  /\ rkey \in [Reader -> Key \cup {NoKey}] /\ rcur \in [Reader -> Pointer]
  /\ rdata \in [Reader -> Data \cup {NoData} \cup Entries]
  /\ cells \in [Reader -> SUBSET Entries]
  /\ seen \in [Reader -> SUBSET (Data \cup {NoData} \cup Entries)]
  /\ shadowed \in BOOLEAN /\ updates \in 0..MaxUpdates /\ crashes \in 0..MaxCrashes

EmptyEntry == [key |-> NoKey, next |-> 0, indirect |-> FALSE, data |-> NoData]

(* zend_accel_hash_init *)
Init ==
  /\ hash_table = [s \in Slot |-> 0]
  /\ hash_entries = [e \in Entries |-> EmptyEntry]
  /\ num_entries = 0 /\ num_direct_entries = 0
  /\ wpc = "idle" /\ wkey = NoKey /\ windirect = FALSE /\ wdata = NoData /\ wcur = 0
  /\ rpc = [r \in Reader |-> "idle"] /\ rkey = [r \in Reader |-> NoKey]
  /\ rcur = [r \in Reader |-> 0] /\ rdata = [r \in Reader |-> NoData]
  /\ seen = [r \in Reader |-> {}] /\ cells = [r \in Reader |-> {}]
  /\ shadowed = FALSE /\ updates = 0 /\ crashes = 0

-----------------------------------------------------------------------------
(* The table as a map.  The published entries are those in a chain.          *)
Chain(s) ==
  LET from[e \in Pointer] == IF e = 0 THEN {} ELSE {e} \cup from[hash_entries[e].next]
  IN from[hash_table[s]]
Published == UNION {Chain(s) : s \in Slot}

EntryOf(k) == {e \in Chain(SlotOf[k]) : hash_entries[e].key = k}

(* The cell of a key: the entry that holds its data. *)
CellOf(k) ==
  IF EntryOf(k) = {} THEN 0
  ELSE LET e == CHOOSE e \in EntryOf(k) : TRUE
       IN IF hash_entries[e].indirect THEN hash_entries[e].data ELSE e

ValueOf(c) == IF c = 0 THEN NoData ELSE hash_entries[c].data

(* History: while r looks for a key, the cells of the key and their values. *)
Observe ==
  /\ cells' = [r \in Reader |->
       IF rpc'[r] = "idle" THEN {} ELSE cells[r] \cup ({CellOf(rkey[r])'} \ {0})]
  /\ seen' = [r \in Reader |->
       IF rpc'[r] = "idle" THEN {}
       ELSE seen[r] \cup {hash_entries'[c].data : c \in cells'[r]}
                    \cup (IF CellOf(rkey[r])' = 0 THEN {NoData} ELSE {})]

-----------------------------------------------------------------------------
(* zend_accel_hash_update, under the exclusive lock.                        *)

Full == num_entries = max_num_entries

(* Bound: updates.  When an entry with data became a name of another, a later *)
(* update can make it a name of itself and then store a script where look-ups *)
(* expect an entry; the model goes no further than the look-ups and a Clean.  *)
Usable == updates < MaxUpdates /\ ~shadowed

(* A direct update: the cache stores a script under its path. *)
UpdateDirect(k, d) ==
  /\ wpc = "idle" /\ Usable
  /\ wpc' = "search" /\ wkey' = k /\ windirect' = FALSE /\ wdata' = d
  /\ wcur' = hash_table[SlotOf[k]]
  /\ updates' = updates + 1
  /\ UNCHANGED <<table, reader, history, crashes>>

(* An indirect update: k becomes another name of the bucket b. *)
UpdateIndirect(k, b) ==
  /\ wpc = "idle" /\ Usable
  /\ b \in Published /\ hash_entries[b].key # k
  /\ wpc' = "resolve" /\ wkey' = k /\ windirect' = TRUE /\ wdata' = b
  /\ wcur' = hash_table[SlotOf[k]]
  /\ updates' = updates + 1
  /\ UNCHANGED <<table, reader, history, crashes>>

(* Mut: the name of a name is taken as it is. *)
MutResolved(b) == TRUE
Resolved(b) == ~hash_entries[b].indirect

(* "while (indirect_bucket->indirect)" *)
ResolveBucket ==
  /\ wpc = "resolve"
  /\ IF Resolved(wdata)
     THEN wpc' = "search" /\ UNCHANGED wdata
     ELSE wdata' = hash_entries[wdata].data /\ UNCHANGED wpc
  /\ UNCHANGED <<table, wkey, windirect, wcur, reader, history, updates, crashes>>

(* Mut: the walk does not advance. *)
MutNextOf(e) == e
NextOf(e) == hash_entries[e].next

(* The walk along the chain. *)
SearchNext ==
  /\ wpc = "search" /\ wcur # 0
  /\ hash_entries[wcur].key # wkey
  /\ wcur' = NextOf(wcur)
  /\ UNCHANGED <<table, wpc, wkey, windirect, wdata, reader, history, updates, crashes>>

(* The entry a direct store writes to. *)
StoreAt(e) == IF hash_entries[e].indirect THEN hash_entries[e].data ELSE e

(* The key exists: its data are replaced by one store ... *)
Replace ==
  /\ wpc = "search" /\ wcur # 0 /\ hash_entries[wcur].key = wkey
  /\ ~windirect \/ hash_entries[wcur].indirect
  /\ hash_entries' = [hash_entries EXCEPT
       ![IF windirect THEN wcur ELSE StoreAt(wcur)].data = wdata]
  /\ wpc' = "idle"
  /\ UNCHANGED <<hash_table, num_entries, num_direct_entries, wkey, windirect, wdata,
                 wcur, reader, shadowed, updates, crashes>>
  /\ Observe

(* ... or, when an entry with data of its own becomes indirect, by two. *)
ReplaceData ==
  /\ wpc = "search" /\ wcur # 0 /\ hash_entries[wcur].key = wkey
  /\ windirect /\ ~hash_entries[wcur].indirect
  /\ num_direct_entries' = num_direct_entries - 1
  /\ hash_entries' = [hash_entries EXCEPT ![wcur].data = wdata]
  /\ wpc' = "flag" /\ shadowed' = TRUE
  /\ UNCHANGED <<hash_table, num_entries, wkey, windirect, wdata, wcur, reader,
                 updates, crashes>>
  /\ Observe

ReplaceFlag ==
  /\ wpc = "flag"
  /\ hash_entries' = [hash_entries EXCEPT ![wcur].indirect = TRUE]
  /\ wpc' = "idle"
  /\ UNCHANGED <<hash_table, num_entries, num_direct_entries, wkey, windirect, wdata,
                 wcur, reader, shadowed, updates, crashes>>
  /\ Observe

(* The key does not exist: NULL when the table is full. *)
InsertFull ==
  /\ wpc = "search" /\ wcur = 0 /\ Full
  /\ wpc' = "idle"
  /\ UNCHANGED <<table, wkey, windirect, wdata, wcur, reader, history, updates, crashes>>

(* Mut: the rest of the chain is forgotten. *)
MutRest(s) == 0
Rest(s) == hash_table[s]

(* What a new entry adds to num_direct_entries. *)
Counts == IF windirect THEN 0 ELSE 1

(* The next entry is filled; nobody can reach it yet. *)
InsertFill ==
  /\ wpc = "search" /\ wcur = 0 /\ ~Full
  /\ num_entries' = num_entries + 1
  /\ num_direct_entries' = num_direct_entries + Counts
  /\ hash_entries' = [hash_entries EXCEPT ![num_entries + 1] =
       [key |-> wkey, next |-> Rest(SlotOf[wkey]), indirect |-> windirect, data |-> wdata]]
  /\ wcur' = num_entries + 1
  /\ wpc' = "publish"
  /\ UNCHANGED <<hash_table, wkey, windirect, wdata, reader, history, updates, crashes>>

(* It is put at the head of its chain. *)
InsertPublish ==
  /\ wpc = "publish"
  /\ hash_table' = [hash_table EXCEPT ![SlotOf[wkey]] = wcur]
  /\ wpc' = "idle"
  /\ UNCHANGED <<hash_entries, num_entries, num_direct_entries, wkey, windirect, wdata,
                 wcur, reader, shadowed, updates, crashes>>
  /\ Observe

(* zend_accel_hash_clean: a restart, when no other process is at work. *)
Clean ==
  /\ wpc = "idle" /\ \A r \in Reader : rpc[r] = "idle"
  /\ updates < MaxUpdates /\ updates' = updates + 1
  /\ num_entries' = 0 /\ num_direct_entries' = 0
  /\ hash_table' = [s \in Slot |-> 0]
  /\ shadowed' = FALSE
  /\ UNCHANGED <<hash_entries, writer, reader, seen, cells, crashes>>

(* The updating process dies and the kernel releases its lock. *)
Crash ==
  /\ wpc # "idle" /\ crashes < MaxCrashes
  /\ wpc' = "idle"
  /\ crashes' = crashes + 1
  /\ UNCHANGED <<table, wkey, windirect, wdata, wcur, reader, history, updates>>

-----------------------------------------------------------------------------
(* zend_accel_hash_find, without a lock.                                    *)
FindBegin(r, k) ==
  /\ rpc[r] = "idle"
  /\ rpc' = [rpc EXCEPT ![r] = "walk"]
  /\ rkey' = [rkey EXCEPT ![r] = k]
  /\ rcur' = [rcur EXCEPT ![r] = hash_table[SlotOf[k]]]
  /\ cells' = [cells EXCEPT ![r] = {CellOf(k)} \ {0}]
  /\ seen' = [seen EXCEPT ![r] = {ValueOf(CellOf(k))}]
  /\ UNCHANGED <<table, writer, rdata, shadowed, updates, crashes>>

FindWalk(r) ==
  /\ rpc[r] = "walk"
  /\ \/ /\ rcur[r] = 0
        /\ rdata' = [rdata EXCEPT ![r] = NoData]
        /\ rpc' = [rpc EXCEPT ![r] = "done"]
        /\ UNCHANGED rcur
     \/ /\ rcur[r] # 0 /\ hash_entries[rcur[r]].key = rkey[r]
        /\ rpc' = [rpc EXCEPT ![r] = "kind"]
        /\ UNCHANGED <<rcur, rdata>>
     \/ /\ rcur[r] # 0 /\ hash_entries[rcur[r]].key # rkey[r]
        /\ rcur' = [rcur EXCEPT ![r] = NextOf(rcur[r])]
        /\ UNCHANGED <<rpc, rdata>>
  /\ UNCHANGED <<table, writer, rkey, history, updates, crashes>>

FindKind(r) ==
  /\ rpc[r] = "kind"
  /\ rpc' = [rpc EXCEPT ![r] = IF hash_entries[rcur[r]].indirect THEN "target" ELSE "data"]
  /\ UNCHANGED <<table, writer, rkey, rcur, rdata, history, updates, crashes>>

(* Mut: the name is not followed. *)
MutFollowed(e) == e
Followed(e) == hash_entries[e].data

(* One name is followed, and only one. *)
FindTarget(r) ==
  /\ rpc[r] = "target"
  /\ rcur' = [rcur EXCEPT ![r] = Followed(rcur[r])]
  /\ rpc' = [rpc EXCEPT ![r] = "data"]
  /\ UNCHANGED <<table, writer, rkey, rdata, history, updates, crashes>>

FindData(r) ==
  /\ rpc[r] = "data"
  /\ rdata' = [rdata EXCEPT ![r] = hash_entries[rcur[r]].data]
  /\ rpc' = [rpc EXCEPT ![r] = "done"]
  /\ UNCHANGED <<table, writer, rkey, rcur, history, updates, crashes>>

FindReturn(r) ==
  /\ rpc[r] = "done"
  /\ rpc' = [rpc EXCEPT ![r] = "idle"]
  /\ rkey' = [rkey EXCEPT ![r] = NoKey] /\ rcur' = [rcur EXCEPT ![r] = 0]
  /\ rdata' = [rdata EXCEPT ![r] = NoData]
  /\ seen' = [seen EXCEPT ![r] = {}] /\ cells' = [cells EXCEPT ![r] = {}]
  /\ UNCHANGED <<table, writer, shadowed, updates, crashes>>

-----------------------------------------------------------------------------
Insert == InsertFull \/ InsertFill \/ InsertPublish
Update == \/ ResolveBucket \/ SearchNext \/ Replace \/ ReplaceData \/ ReplaceFlag \/ Insert
FindStep(r) == FindWalk(r) \/ FindKind(r) \/ FindTarget(r) \/ FindData(r) \/ FindReturn(r)

Next ==
  \/ \E k \in Key : \/ \E d \in Data : UpdateDirect(k, d)
                    \/ \E b \in Entries : UpdateIndirect(k, b)
                    \/ \E r \in Reader : FindBegin(r, k)
  \/ Update \/ Clean \/ Crash
  \/ \E r \in Reader : FindStep(r)

Spec == Init /\ [][Next]_vars
(* A process that is in the table goes on. *)
FairSpec == Spec /\ WF_vars(Update) /\ \A r \in Reader : WF_vars(FindStep(r))

-----------------------------------------------------------------------------
(* An entry that is another name points to an entry with data, never to a   *)
(* name: zend_accel_hash_find follows one name only.                        *)
NamesPointToData ==
  \A e \in Published : hash_entries[e].indirect =>
    /\ hash_entries[e].data \in Published
    /\ ~hash_entries[hash_entries[e].data].indirect

(* Every key has one entry, in the chain of its slot, and the chains hold   *)
(* all entries in use except the one being added or lost to a crash.        *)
ChainsAreSound ==
  /\ \A s \in Slot : \A e \in Chain(s) : SlotOf[hash_entries[e].key] = s
  /\ \A e, f \in Published : hash_entries[e].key = hash_entries[f].key => e = f
  /\ Published \subseteq 1..num_entries
  /\ num_entries - Cardinality(Published) <= crashes + (IF wpc = "publish" THEN 1 ELSE 0)

(* The count of entries with data, which opcache_get_status() reports as    *)
(* the number of cached scripts, drifts only with crashes.                  *)
DirectEntriesCounted ==
  crashes = 0 /\ wpc = "idle" =>
    num_direct_entries = Cardinality({e \in Published : ~hash_entries[e].indirect})

(* "zend_accel_hash_find() does not [require the lock]": a look-up returns  *)
(* what one of the cells of its key held while it ran, or NULL if the key   *)
(* was absent at some moment.                                               *)
FindReturnsAValue == \A r \in Reader : rpc[r] = "done" => rdata[r] \in seen[r]

(* A look-up never takes another entry for a script. *)
FindReturnsNoEntry == \A r \in Reader : rpc[r] = "done" => rdata[r] \notin Entries

(* The table implements the map, until an entry with data becomes a name of  *)
(* another: from then until the table is cleaned nothing is promised (the    *)
(* map counts as dropped).                                                   *)
HoldData == {e \in Published : ~hash_entries[e].indirect}
Alias == INSTANCE AccelAlias WITH
  Cell <- Entries,
  cell <- [k \in Key |-> IF shadowed THEN 0 ELSE CellOf(k)],
  value <- [e \in Entries |-> IF ~shadowed /\ e \in HoldData THEN hash_entries[e].data ELSE NoData]
ImplementsAlias == Alias!Spec

(* Look-ups and updates end, whatever else goes on. *)
OperationsEnd ==
  /\ \A r \in Reader : rpc[r] # "idle" ~> rpc[r] = "idle"
  /\ wpc # "idle" ~> wpc = "idle"
=============================================================================
