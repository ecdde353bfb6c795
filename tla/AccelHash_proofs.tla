-------------------------- MODULE AccelHash_proofs --------------------------
(***************************************************************************)
(* Theorems about the hash table of the opcode cache, for any number of    *)
(* keys, entries, look-ups, updates and crashes: its chains stay right, a  *)
(* look-up without the lock returns what was stored under its key while it *)
(* ran, and the table implements the atomic map of AccelAlias.             *)
(*                                                                         *)
(* A chain is a recursive function of its first entry.  It is the least    *)
(* set that has the first entry and is closed under "next": what holds of  *)
(* some closed set holds of the chain, and that is how facts about chains  *)
(* are proved here.                                                        *)
(***************************************************************************)
EXTENDS AccelHash, FiniteSetTheorems, WellFoundedInduction, TLAPS

USE DEF Pointer, Entries

-----------------------------------------------------------------------------
(* Chains. *)
Closed(h, S) == \A e \in S : h[e].next \in S \cup {0}
Reach(h, e) ==
  {x \in Entries : \A S \in SUBSET Entries : e \in S \cup {0} /\ Closed(h, S) => x \in S}

(* An entry points to earlier ones, hence not to itself round a cycle. *)
Backwards(h) == \A e \in Entries : h[e].next \in Pointer /\ h[e].next < e

(* Every set of numbers that is not empty has a least one. *)
LEMMA LeastNumber == \A T \in SUBSET Nat : T # {} => \E x \in T : \A y \in T : x <= y
<1> SUFFICES ASSUME NEW T \in SUBSET Nat, T # {} PROVE \E x \in T : \A y \in T : x <= y
  OBVIOUS
<1>1. \E x \in T : \A y \in T : <<y, x>> \notin OpToRel(<, Nat)
  BY NatLessThanWellFounded, WFMin, Zenon
<1>2. PICK x \in T : \A y \in T : <<y, x>> \notin OpToRel(<, Nat)
  BY <1>1
<1>3. \A y \in T : ~(y < x)
  BY <1>2 DEF OpToRel
<1>4. QED BY <1>3

(* What can be reached is in every closed set that has the first entry. *)
LEMMA ReachLeast ==
  ASSUME NEW h, NEW e, NEW S, S \subseteq Entries, e \in S \cup {0}, Closed(h, S)
  PROVE  Reach(h, e) \subseteq S
BY DEF Reach

LEMMA ReachNull == ASSUME NEW h PROVE Reach(h, 0) = {}
<1>1. Closed(h, {})
  BY DEF Closed
<1>2. QED BY <1>1, ReachLeast, Zenon

LEMMA ReachStep ==
  ASSUME NEW h, Backwards(h), NEW e \in Entries
  PROVE  Reach(h, e) = {e} \cup Reach(h, h[e].next)
<1>1. \A S \in SUBSET Entries : e \in S \cup {0} /\ Closed(h, S)
        => e \in S /\ h[e].next \in S \cup {0}
  BY HashAssumption DEF Closed
<1>2. {e} \cup Reach(h, h[e].next) \subseteq Reach(h, e)
  BY <1>1 DEF Reach
<1>3. ASSUME NEW x \in Reach(h, e), x # e PROVE x \in Reach(h, h[e].next)
  <2> SUFFICES ASSUME NEW S \in SUBSET Entries, h[e].next \in S \cup {0}, Closed(h, S)
               PROVE  x \in S
    BY DEF Reach
  <2>1. Closed(h, S \cup {e})
    BY DEF Closed
  <2>2. x \in S \cup {e}
    BY <2>1 DEF Reach
  <2>3. QED BY <2>2, <1>3
<1>4. QED BY <1>2, <1>3, Zenon

(* It is closed itself. *)
LEMMA ReachClosed ==
  ASSUME NEW h, Backwards(h), NEW e \in Pointer
  PROVE  /\ Reach(h, e) \subseteq Entries /\ e \in Reach(h, e) \cup {0}
         /\ Closed(h, Reach(h, e))
<1>1. Reach(h, e) \subseteq Entries
  BY DEF Reach
<1>2. e \in Reach(h, e) \cup {0}
  <2>1. CASE e = 0 BY <2>1
  <2>2. CASE e \in Entries BY <2>2, ReachStep
  <2>3. QED BY <2>1, <2>2, HashAssumption
<1>3. Closed(h, Reach(h, e))
  <2> SUFFICES ASSUME NEW x \in Reach(h, e), h[x].next # 0 PROVE h[x].next \in Reach(h, e)
    BY DEF Closed
  <2>1. x \in Entries /\ h[x].next \in Pointer /\ h[x].next \in Entries
    BY <1>1, HashAssumption DEF Backwards
  <2> SUFFICES ASSUME NEW S \in SUBSET Entries, e \in S \cup {0}, Closed(h, S)
               PROVE  h[x].next \in S
    BY <2>1 DEF Reach
  <2>2. x \in S
    BY DEF Reach
  <2>3. QED BY <2>2 DEF Closed
<1>4. QED BY <1>1, <1>2, <1>3

LEMMA ReachBelow ==
  ASSUME NEW h, Backwards(h), NEW e \in Pointer
  PROVE  Reach(h, e) \subseteq 1..e
<1>1. 1..e \subseteq Entries /\ e \in (1..e) \cup {0}
  BY HashAssumption
<1>2. Closed(h, 1..e)
  BY <1>1, HashAssumption DEF Closed, Backwards
<1>3. QED BY <1>1, <1>2, ReachLeast

(* Only the links of the entries in a chain matter to it. *)
LEMMA ReachSame ==
  ASSUME NEW h, NEW g, Backwards(h), Backwards(g), NEW e \in Pointer,
         \A x \in Reach(h, e) : g[x].next = h[x].next
  PROVE  Reach(g, e) = Reach(h, e)
<1>1. Closed(g, Reach(h, e)) /\ e \in Reach(h, e) \cup {0} /\ Reach(h, e) \subseteq Entries
  BY ReachClosed DEF Closed
<1>2. Reach(g, e) \subseteq Reach(h, e)
  BY <1>1, ReachLeast
<1>3. Closed(h, Reach(g, e)) /\ e \in Reach(g, e) \cup {0} /\ Reach(g, e) \subseteq Entries
  BY <1>2, ReachClosed DEF Closed
<1>4. Reach(h, e) \subseteq Reach(g, e)
  BY <1>3, ReachLeast
<1>5. QED BY <1>2, <1>4

(* The recursive function of the model exists and is Reach. *)
LEMMA ReachIsRecursive ==
  ASSUME NEW h, Backwards(h), NEW e \in Pointer
  PROVE  LET from[x \in Pointer] == IF x = 0 THEN {} ELSE {x} \cup from[h[x].next]
         IN from[e] = Reach(h, e)
<1> DEFINE Def(f) == [x \in Pointer |-> IF x = 0 THEN {} ELSE {x} \cup f[h[x].next]]
           r == [x \in Pointer |-> Reach(h, x)]
           from == CHOOSE f : f = Def(f)
<1>1. r = Def(r)
  <2>1. ASSUME NEW x \in Pointer PROVE r[x] = Def(r)[x]
    <3>1. CASE x = 0
      BY <3>1, ReachNull
    <3>2. CASE x # 0
      <4>1. x \in Entries /\ h[x].next \in Pointer
        BY <3>2, HashAssumption DEF Backwards
      <4>2. QED BY <4>1, <3>2, ReachStep
    <3>3. QED BY <3>1, <3>2
  <2>2. QED BY <2>1
<1>2. from = Def(from)
  BY <1>1
<1> HIDE DEF from
<1>3. from[0] = {} /\ \A x \in Entries : from[x] = {x} \cup from[h[x].next]
  <2>1. 0 \in Pointer /\ \A x \in Entries : x \in Pointer /\ x # 0
    BY HashAssumption
  <2>2. \A x \in Pointer : from[x] = IF x = 0 THEN {} ELSE {x} \cup from[h[x].next]
    BY <1>2
  <2>3. QED BY <2>1, <2>2
<1>4. \A x \in Pointer : from[x] = Reach(h, x)
  <2> DEFINE T == {x \in Pointer : from[x] # Reach(h, x)}
  <2> SUFFICES ASSUME T # {} PROVE FALSE
    OBVIOUS
  <2>1. T \in SUBSET Nat
    BY HashAssumption
  <2>2. PICK x \in T : \A y \in T : x <= y
    BY <2>1, LeastNumber
  <2>3. x # 0
    BY <1>3, ReachNull
  <2>4. x \in Entries /\ h[x].next \in Pointer /\ h[x].next < x
    BY <2>3, HashAssumption DEF Backwards
  <2>5. h[x].next \notin T
    BY <2>2, <2>4, HashAssumption
  <2>6. from[x] = Reach(h, x)
    BY <2>4, <2>5, <1>3, ReachStep
  <2>7. QED BY <2>6
<1>5. QED BY <1>4 DEF from

-----------------------------------------------------------------------------
(* The table and the updater. *)
TableTypes ==
  /\ hash_table \in [Slot -> Pointer] /\ hash_entries \in [Entries -> Entry]
  /\ num_entries \in Pointer /\ num_direct_entries \in 0..num_entries
  /\ wpc \in {"idle", "resolve", "search", "publish", "flag"}
  /\ wkey \in Key \cup {NoKey} /\ windirect \in BOOLEAN
  /\ wdata \in Data \cup {NoData} \cup Entries /\ wcur \in Pointer
  /\ shadowed \in BOOLEAN /\ crashes \in 0..MaxCrashes

(* Entries point to earlier ones; an entry being added is in no chain yet. *)
Linked ==
  /\ Backwards(hash_entries)
  /\ \A e \in Published : e <= IF wpc = "publish" THEN num_entries - 1 ELSE num_entries

KeysInPlace ==
  /\ \A s \in Slot : \A e \in Chain(s) :
       hash_entries[e].key \in Key /\ SlotOf[hash_entries[e].key] = s
  /\ \A e, f \in Published : hash_entries[e].key = hash_entries[f].key => e = f

Counted == num_entries - Cardinality(Published) <= crashes + (IF wpc = "publish" THEN 1 ELSE 0)

(* An updater that is still searching has not passed the entry of its key. *)
Searching ==
  /\ wpc # "idle" => wkey \in Key
  /\ wpc \in {"resolve", "search"} =>
       /\ wcur \in Chain(SlotOf[wkey]) \cup {0}
       /\ EntryOf(wkey) \subseteq Reach(hash_entries, wcur)
  /\ wpc = "publish" =>
       /\ wcur = num_entries /\ wcur # 0 /\ EntryOf(wkey) = {}
       /\ hash_entries[wcur] = [key |-> wkey, next |-> hash_table[SlotOf[wkey]],
                                indirect |-> windirect, data |-> wdata]
  /\ wpc = "flag" => wcur \in Published

(* Names point to entries, and to entries with data until one becomes a name. *)
Names ==
  /\ \A e \in Published : hash_entries[e].indirect => hash_entries[e].data \in Published
  /\ wpc = "resolve" => windirect
  /\ wpc # "idle" => wdata \in IF windirect THEN Published ELSE Data
  /\ wpc \in {"search", "publish"} /\ windirect => ~hash_entries[wdata].indirect
  /\ shadowed => wpc \in {"idle", "flag"}
  /\ wpc = "flag" => shadowed /\ windirect /\ hash_entries[wcur].data = wdata
  /\ ~shadowed => NamesPointToData /\ \A e \in HoldData : hash_entries[e].data \in Data
  /\ ~shadowed /\ num_direct_entries = 0 => HoldData = {} /\ (wpc = "publish" => windirect)

TableInv == TableTypes /\ Linked /\ KeysInPlace /\ Counted /\ Searching /\ Names

LEMMA ChainIsReach ==
  TableTypes /\ Linked => \A s \in Slot : Chain(s) = Reach(hash_entries, hash_table[s])
<1> SUFFICES ASSUME TableTypes, Linked, NEW s \in Slot
             PROVE  Chain(s) = Reach(hash_entries, hash_table[s])
  OBVIOUS
<1>1. Backwards(hash_entries) /\ hash_table[s] \in Pointer
  BY DEF TableTypes, Linked
<1>2. QED BY <1>1, ReachIsRecursive DEF Chain

(* What is published is in the table; an entry of a key is published. *)
LEMMA PublishedFacts ==
  TableTypes /\ Linked =>
    /\ Published \subseteq Entries
    /\ Published \subseteq 1..num_entries
    /\ IsFiniteSet(Published)
    /\ \A s \in Slot : Chain(s) \subseteq Published
    /\ \A e \in Published : \E s \in Slot : e \in Chain(s)
    /\ \A e \in Published : hash_entries[e].next \in Published \cup {0}
    /\ \A s \in Slot : Closed(hash_entries, Chain(s)) /\ hash_table[s] \in Chain(s) \cup {0}
    /\ \A k \in Key : EntryOf(k) \subseteq Published
<1> SUFFICES ASSUME TableTypes, Linked
             PROVE  /\ Published \subseteq Entries
                    /\ Published \subseteq 1..num_entries
                    /\ IsFiniteSet(Published)
                    /\ \A s \in Slot : Chain(s) \subseteq Published
                    /\ \A e \in Published : \E s \in Slot : e \in Chain(s)
                    /\ \A e \in Published : hash_entries[e].next \in Published \cup {0}
                    /\ \A s \in Slot : Closed(hash_entries, Chain(s))
                                       /\ hash_table[s] \in Chain(s) \cup {0}
                    /\ \A k \in Key : EntryOf(k) \subseteq Published
  OBVIOUS
<1>1. \A s \in Slot : /\ Chain(s) \subseteq Entries /\ Closed(hash_entries, Chain(s))
                      /\ hash_table[s] \in Chain(s) \cup {0}
  <2> TAKE s \in Slot
  <2>1. Backwards(hash_entries) /\ hash_table[s] \in Pointer
    BY DEF TableTypes, Linked
  <2>2. Chain(s) = Reach(hash_entries, hash_table[s])
    BY ChainIsReach
  <2>3. QED BY <2>1, <2>2, ReachClosed
<1>2. \A s \in Slot : Chain(s) \subseteq Published
  BY DEF Published
<1>3. \A e \in Published : \E s \in Slot : e \in Chain(s)
  BY DEF Published
<1>4. Published \subseteq Entries
  BY <1>1, <1>3
<1>5. \A e \in Published : hash_entries[e].next \in Published \cup {0}
  BY <1>1, <1>2, <1>3 DEF Closed
<1>6. Published \subseteq 1..num_entries
  <2>1. num_entries \in Nat /\ max_num_entries \in Nat
    BY HashAssumption DEF TableTypes
  <2>2. \A e \in Published : e \in Nat /\ 1 <= e /\ e <= num_entries
    BY <1>4, <2>1 DEF Linked
  <2>3. QED BY <2>1, <2>2
<1>7. IsFiniteSet(Published)
  <2>1. num_entries \in Nat
    BY HashAssumption DEF TableTypes
  <2>2. IsFiniteSet(1..num_entries)
    BY <2>1, FS_Interval
  <2>3. QED BY <2>2, <1>6, FS_Subset
<1>8. \A k \in Key : EntryOf(k) \subseteq Published
  <2> TAKE k \in Key
  <2>1. SlotOf[k] \in Slot
    BY HashAssumption
  <2>2. QED BY <2>1, <1>2 DEF EntryOf
<1>9. QED BY <1>1, <1>2, <1>3, <1>4, <1>5, <1>6, <1>7, <1>8

(* The cell of a key is that of its only entry. *)
LEMMA CellOfEntry ==
  TableTypes /\ Linked /\ KeysInPlace =>
    \A k \in Key :
      /\ EntryOf(k) = {} => CellOf(k) = 0
      /\ \A e \in EntryOf(k) :
           /\ EntryOf(k) = {e}
           /\ CellOf(k) = IF hash_entries[e].indirect THEN hash_entries[e].data ELSE e
<1> SUFFICES ASSUME TableTypes, Linked, KeysInPlace, NEW k \in Key
    PROVE /\ EntryOf(k) = {} => CellOf(k) = 0
          /\ \A e \in EntryOf(k) :
               /\ EntryOf(k) = {e}
               /\ CellOf(k) = IF hash_entries[e].indirect THEN hash_entries[e].data ELSE e
  OBVIOUS
<1>1. EntryOf(k) = {} => CellOf(k) = 0
  BY DEF CellOf
<1>2. ASSUME NEW e \in EntryOf(k)
      PROVE  /\ EntryOf(k) = {e}
             /\ CellOf(k) = IF hash_entries[e].indirect THEN hash_entries[e].data ELSE e
  <2>1. \A f \in EntryOf(k) : f \in Published /\ hash_entries[f].key = k
    BY PublishedFacts DEF EntryOf
  <2>2. \A f \in EntryOf(k) : f = e
    BY <1>2, <2>1 DEF KeysInPlace
  <2>3. EntryOf(k) = {e}
    BY <1>2, <2>2
  <2>4. (CHOOSE x \in EntryOf(k) : TRUE) = e
    BY <1>2, <2>2
  <2>5. QED BY <2>3, <2>4 DEF CellOf
<1>3. QED BY <1>1, <1>2

LEMMA EntryOfKey ==
  TableTypes /\ Linked /\ KeysInPlace =>
    \A e \in Published : hash_entries[e].key \in Key /\ e \in EntryOf(hash_entries[e].key)
BY PublishedFacts DEF KeysInPlace, EntryOf

(* The cell of a key, when it has one, is a published entry. *)
LEMMA CellIsPublished ==
  TableTypes /\ Linked /\ KeysInPlace /\ Names =>
    \A k \in Key : CellOf(k) \in Published \cup {0} /\ (CellOf(k) = 0 <=> EntryOf(k) = {})
<1> SUFFICES ASSUME TableTypes, Linked, KeysInPlace, Names, NEW k \in Key
    PROVE CellOf(k) \in Published \cup {0} /\ (CellOf(k) = 0 <=> EntryOf(k) = {})
  OBVIOUS
<1>1. CASE EntryOf(k) = {}
  BY <1>1, CellOfEntry
<1>2. ASSUME NEW e \in EntryOf(k) PROVE CellOf(k) \in Published /\ CellOf(k) # 0
  <2>1. e \in Published /\ Published \subseteq Entries
    BY PublishedFacts
  <2>2. CellOf(k) = IF hash_entries[e].indirect THEN hash_entries[e].data ELSE e
    BY CellOfEntry
  <2>3. CellOf(k) \in Published
    BY <2>1, <2>2 DEF Names
  <2>4. QED BY <2>1, <2>3
<1>3. QED BY <1>1, <1>2

-----------------------------------------------------------------------------
(* How a step changes the chains. *)
LEMMA SameTable ==
  ASSUME UNCHANGED <<hash_table, hash_entries>>
  PROVE  /\ \A s : Chain(s)' = Chain(s)
         /\ Published' = Published
         /\ \A k : EntryOf(k)' = EntryOf(k) /\ CellOf(k)' = CellOf(k)
         /\ HoldData' = HoldData
         /\ NamesPointToData' = NamesPointToData
<1>1. hash_table' = hash_table /\ hash_entries' = hash_entries
  OBVIOUS
<1>2. \A s : Chain(s)' = Chain(s)
  BY <1>1 DEF Chain
<1>3. Published' = Published
  BY <1>2 DEF Published
<1>4. \A k : EntryOf(k)' = EntryOf(k)
  BY <1>1, <1>2 DEF EntryOf
<1>5. \A k : CellOf(k)' = CellOf(k)
  <2> TAKE k
  <2> DEFINE e == CHOOSE x \in EntryOf(k) : TRUE
  <2>1. EntryOf(k)' = EntryOf(k)
    BY <1>4
  <2>2. (CHOOSE x \in EntryOf(k) : TRUE)' = e
    BY <2>1
  <2>3. QED BY <2>1, <2>2, <1>1 DEF CellOf
<1>6. HoldData' = HoldData
  BY <1>1, <1>3 DEF HoldData
<1>7. NamesPointToData' = NamesPointToData
  BY <1>1, <1>3 DEF NamesPointToData
<1>8. QED BY <1>2, <1>3, <1>4, <1>5, <1>6, <1>7

(* Changes of entries that are in no chain, or of data, leave the chains. *)
LEMMA SameChains ==
  ASSUME TableTypes, Linked, hash_table' = hash_table, Backwards(hash_entries'),
         \A e \in Published : /\ hash_entries'[e].next = hash_entries[e].next
                              /\ hash_entries'[e].key = hash_entries[e].key
  PROVE  /\ \A s \in Slot : Chain(s)' = Chain(s)
         /\ Published' = Published
         /\ \A k \in Key : EntryOf(k)' = EntryOf(k)
<1>1. ASSUME NEW s \in Slot PROVE Chain(s)' = Chain(s)
  <2>1. hash_table[s] \in Pointer /\ hash_table'[s] = hash_table[s] /\ Backwards(hash_entries)
    BY DEF TableTypes, Linked
  <2>2. Chain(s) = Reach(hash_entries, hash_table[s]) /\ Chain(s) \subseteq Published
    BY ChainIsReach, PublishedFacts
  <2>3. Reach(hash_entries', hash_table[s]) = Reach(hash_entries, hash_table[s])
    BY <2>1, <2>2, ReachSame
  <2>4. Chain(s)' = Reach(hash_entries', hash_table[s])
    BY <2>1, ReachIsRecursive DEF Chain
  <2>5. QED BY <2>2, <2>3, <2>4
<1>2. Published' = Published
  BY <1>1 DEF Published
<1>3. ASSUME NEW k \in Key PROVE EntryOf(k)' = EntryOf(k)
  <2>1. SlotOf[k] \in Slot
    BY HashAssumption
  <2>2. Chain(SlotOf[k])' = Chain(SlotOf[k]) /\ Chain(SlotOf[k]) \subseteq Published
    BY <2>1, <1>1, PublishedFacts
  <2>3. QED BY <2>2 DEF EntryOf
<1>4. QED BY <1>1, <1>2, <1>3

(* What InsertPublish adds. *)
LEMMA OneMoreEntry ==
  ASSUME TableInv, InsertPublish
  PROVE  /\ wcur \in Entries /\ wcur \notin Published
         /\ \A s \in Slot : Chain(s)' = IF s = SlotOf[wkey] THEN {wcur} \cup Chain(s) ELSE Chain(s)
         /\ Published' = Published \cup {wcur}
         /\ \A k \in Key : EntryOf(k)' = IF k = wkey THEN {wcur} ELSE EntryOf(k)
<1> USE DEF TableInv
<1>1. /\ wpc = "publish" /\ hash_table' = [hash_table EXCEPT ![SlotOf[wkey]] = wcur]
      /\ hash_entries' = hash_entries
  BY DEF InsertPublish
<1>2. /\ wkey \in Key /\ SlotOf[wkey] \in Slot /\ wcur = num_entries /\ wcur \in Entries
      /\ hash_entries[wcur].key = wkey /\ hash_entries[wcur].next = hash_table[SlotOf[wkey]]
      /\ EntryOf(wkey) = {}
  BY <1>1, HashAssumption DEF Searching, TableTypes
<1>3. wcur \notin Published
  BY <1>1, <1>2, HashAssumption DEF Linked
<1>4. Backwards(hash_entries) /\ \A s \in Slot : hash_table[s] \in Pointer /\ hash_table'[s] \in Pointer
  BY <1>1, <1>2, HashAssumption DEF TableTypes, Linked
<1>5. ASSUME NEW s \in Slot
      PROVE Chain(s)' = IF s = SlotOf[wkey] THEN {wcur} \cup Chain(s) ELSE Chain(s)
  <2>1. Chain(s)' = Reach(hash_entries, hash_table'[s])
    <3>1. Backwards(hash_entries') /\ hash_table'[s] \in Pointer
      BY <1>1, <1>4
    <3>2. Chain(s)' = Reach(hash_entries', hash_table'[s])
      BY <3>1, ReachIsRecursive DEF Chain
    <3>3. QED BY <3>2, <1>1
  <2>2. Chain(s) = Reach(hash_entries, hash_table[s])
    BY ChainIsReach
  <2>3. CASE s # SlotOf[wkey]
    <3>1. hash_table'[s] = hash_table[s]
      BY <1>1, <2>3 DEF TableTypes
    <3>2. QED BY <2>1, <2>2, <2>3, <3>1
  <2>4. CASE s = SlotOf[wkey]
    <3>1. hash_table'[s] = wcur
      BY <1>1, <2>4 DEF TableTypes
    <3>2. Reach(hash_entries, wcur) = {wcur} \cup Reach(hash_entries, hash_table[s])
      BY <1>2, <1>4, <2>4, ReachStep
    <3>3. QED BY <2>1, <2>2, <2>4, <3>1, <3>2
  <2>5. QED BY <2>3, <2>4
<1>6. Published' = Published \cup {wcur}
  <2>1. \A e : e \in Published' <=> \E s \in Slot : e \in Chain(s)'
    BY DEF Published
  <2>2. \A e : e \in Published <=> \E s \in Slot : e \in Chain(s)
    BY DEF Published
  <2>3. \A e : e \in Published' <=> e \in Published \/ e = wcur
    BY <2>1, <2>2, <1>2, <1>5
  <2>4. QED BY <2>3
<1>7. ASSUME NEW k \in Key PROVE EntryOf(k)' = IF k = wkey THEN {wcur} ELSE EntryOf(k)
  <2>1. SlotOf[k] \in Slot
    BY HashAssumption
  <2>2. \A e : e \in EntryOf(k)' <=> e \in Chain(SlotOf[k])' /\ hash_entries[e].key = k
    BY <1>1 DEF EntryOf
  <2>3. \A e : e \in EntryOf(k) <=> e \in Chain(SlotOf[k]) /\ hash_entries[e].key = k
    BY DEF EntryOf
  <2>4. CASE k = wkey
    <3>1. \A e : e \in EntryOf(k)' <=> e = wcur
      BY <1>2, <1>5, <2>1, <2>2, <2>3, <2>4
    <3>2. QED BY <3>1, <2>4
  <2>5. CASE k # wkey
    <3>1. \A e : e \in EntryOf(k)' <=> e \in EntryOf(k)
      BY <1>2, <1>5, <2>1, <2>2, <2>3, <2>5
    <3>2. QED BY <3>1, <2>5
  <2>6. QED BY <2>4, <2>5
<1>8. QED BY <1>2, <1>3, <1>5, <1>6, <1>7

(* Clean empties the chains. *)
LEMMA NoEntries ==
  ASSUME TableTypes, Linked, Clean
  PROVE  /\ \A s \in Slot : Chain(s)' = {}
         /\ Published' = {}
         /\ \A k \in Key : EntryOf(k)' = {}
<1>1. \A s \in Slot : hash_table'[s] = 0
  BY DEF Clean
<1>2. hash_entries' = hash_entries /\ Backwards(hash_entries) /\ 0 \in Pointer
  BY HashAssumption DEF Clean, Linked
<1>3. ASSUME NEW s \in Slot PROVE Chain(s)' = {}
  <2>1. Backwards(hash_entries') /\ hash_table'[s] \in Pointer
    BY <1>1, <1>2
  <2>2. Chain(s)' = Reach(hash_entries', hash_table'[s])
    BY <2>1, ReachIsRecursive DEF Chain
  <2>3. QED BY <2>2, <1>1, ReachNull
<1>4. Published' = {}
  BY <1>3 DEF Published
<1>5. \A k \in Key : EntryOf(k)' = {}
  BY <1>3, HashAssumption DEF EntryOf
<1>6. QED BY <1>3, <1>4, <1>5

-----------------------------------------------------------------------------
(* Steps that leave the table alone. *)
LEMMA TableInit == Init => TableInv
<1> SUFFICES ASSUME Init PROVE TableInv
  OBVIOUS
<1>1. /\ \A s \in Slot : hash_table[s] = 0
      /\ \A e \in Entries : hash_entries[e] = EmptyEntry
      /\ EmptyEntry \in Entry /\ EmptyEntry.next = 0
  BY HashAssumption DEF Init, EmptyEntry, Entry
<1>2. TableTypes
  <2>1. hash_table \in [Slot -> Pointer] /\ hash_entries \in [Entries -> Entry]
    BY <1>1, HashAssumption DEF Init
  <2>2. /\ num_entries = 0 /\ num_direct_entries = 0 /\ wpc = "idle" /\ wkey = NoKey
        /\ windirect = FALSE /\ wdata = NoData /\ wcur = 0 /\ shadowed = FALSE /\ crashes = 0
    BY DEF Init
  <2>3. 0 \in 0..MaxCrashes /\ 0 \in Pointer /\ 0 \in 0..0
    BY HashAssumption
  <2>4. QED BY <2>1, <2>2, <2>3 DEF TableTypes
<1>3. Backwards(hash_entries) /\ 0 \in Pointer
  BY <1>1, HashAssumption DEF Backwards
<1>4. \A s \in Slot : Chain(s) = {}
  BY <1>1, <1>3, ReachIsRecursive, ReachNull DEF Chain
<1>5. Published = {}
  BY <1>4 DEF Published
<1>6. Linked /\ KeysInPlace
  BY <1>3, <1>4, <1>5 DEF Linked, KeysInPlace
<1>7. Counted
  BY <1>5, FS_EmptySet DEF Init, Counted
<1>8. Searching /\ Names
  BY <1>5 DEF Init, Searching, Names, HoldData, NamesPointToData
<1>9. QED BY <1>2, <1>6, <1>7, <1>8 DEF TableInv

LEMMA TableStutter ==
  ASSUME TableInv, UNCHANGED <<table, writer, shadowed, crashes>>
  PROVE  TableInv'
<1>1. /\ UNCHANGED <<hash_table, hash_entries, num_entries, num_direct_entries>>
      /\ UNCHANGED <<wpc, wkey, windirect, wdata, wcur, shadowed, crashes>>
  BY DEF table, writer
<1>2. /\ \A s : Chain(s)' = Chain(s)
      /\ Published' = Published
      /\ \A k : EntryOf(k)' = EntryOf(k) /\ CellOf(k)' = CellOf(k)
      /\ HoldData' = HoldData /\ NamesPointToData' = NamesPointToData
  BY <1>1, SameTable
<1>3. TableTypes'
  BY <1>1 DEF TableInv, TableTypes
<1>4. Linked' /\ KeysInPlace'
  BY <1>1, <1>2 DEF TableInv, Linked, KeysInPlace
<1>5. Counted' /\ Searching'
  BY <1>1, <1>2 DEF TableInv, Counted, Searching
<1>6. Names'
  BY <1>1, <1>2 DEF TableInv, Names
<1>7. QED BY <1>3, <1>4, <1>5, <1>6 DEF TableInv

(* The updater moves on without touching the table: what is left to show is *)
(* about its own arguments.                                                  *)
LEMMA UpdaterMoves ==
  ASSUME TableInv, UNCHANGED <<table, shadowed>>, crashes' \in crashes..MaxCrashes,
         wpc' \in {"idle", "resolve", "search", "publish", "flag"}, wpc' # "publish",
         wpc = "publish" => crashes' = crashes + 1,
         wkey' \in Key \cup {NoKey}, windirect' \in BOOLEAN,
         wdata' \in Data \cup {NoData} \cup Entries, wcur' \in Pointer
  PROVE  /\ TableTypes' /\ Linked' /\ KeysInPlace' /\ Counted'
         /\ UNCHANGED <<hash_table, hash_entries, num_entries, num_direct_entries>>
         /\ Published' = Published
         /\ \A s : Chain(s)' = Chain(s)
         /\ \A k : EntryOf(k)' = EntryOf(k) /\ CellOf(k)' = CellOf(k)
         /\ HoldData' = HoldData /\ NamesPointToData' = NamesPointToData
<1>1. UNCHANGED <<hash_table, hash_entries, num_entries, num_direct_entries, shadowed>>
  BY DEF table
<1>2. /\ \A s : Chain(s)' = Chain(s)
      /\ Published' = Published
      /\ \A k : EntryOf(k)' = EntryOf(k) /\ CellOf(k)' = CellOf(k)
      /\ HoldData' = HoldData /\ NamesPointToData' = NamesPointToData
  BY <1>1, SameTable
<1>3. TableTypes'
  <2>1. crashes' \in 0..MaxCrashes
    BY HashAssumption DEF TableInv, TableTypes
  <2>2. QED BY <1>1, <2>1 DEF TableInv, TableTypes
<1>4. Linked'
  <2>1. num_entries \in Nat /\ Published \subseteq 1..num_entries
    BY PublishedFacts, HashAssumption DEF TableInv, TableTypes
  <2>2. \A e \in Published' : e <= num_entries'
    BY <1>1, <1>2, <2>1
  <2>3. QED BY <1>1, <2>2 DEF TableInv, Linked
<1>5. KeysInPlace'
  BY <1>1, <1>2 DEF TableInv, KeysInPlace
<1>6. Counted'
  <2>1. /\ Cardinality(Published) \in Nat /\ num_entries \in Nat
        /\ crashes \in Nat /\ crashes' \in Nat /\ crashes <= crashes'
    BY PublishedFacts, FS_CardinalityType, HashAssumption DEF TableInv, TableTypes
  <2>2. num_entries - Cardinality(Published) <= crashes'
    <3>1. CASE wpc = "publish"
      BY <2>1, <3>1 DEF TableInv, Counted
    <3>2. CASE wpc # "publish"
      BY <2>1, <3>2 DEF TableInv, Counted
    <3>3. QED BY <3>1, <3>2
  <2>3. QED BY <1>1, <1>2, <2>1, <2>2 DEF Counted
<1>7. QED BY <1>1, <1>2, <1>3, <1>4, <1>5, <1>6

LEMMA HeadReachesAll ==
  ASSUME TableInv, NEW k \in Key
  PROVE  /\ hash_table[SlotOf[k]] \in Chain(SlotOf[k]) \cup {0}
         /\ hash_table[SlotOf[k]] \in Pointer
         /\ EntryOf(k) \subseteq Reach(hash_entries, hash_table[SlotOf[k]])
<1>1. SlotOf[k] \in Slot
  BY HashAssumption
<1>2. /\ Chain(SlotOf[k]) = Reach(hash_entries, hash_table[SlotOf[k]])
      /\ hash_table[SlotOf[k]] \in Chain(SlotOf[k]) \cup {0}
  BY <1>1, ChainIsReach, PublishedFacts DEF TableInv
<1>3. hash_table[SlotOf[k]] \in Pointer
  BY <1>1 DEF TableInv, TableTypes
<1>4. QED BY <1>2, <1>3 DEF EntryOf

LEMMA UpdateDirectTable ==
  ASSUME TableInv, NEW k \in Key, NEW d \in Data, UpdateDirect(k, d)
  PROVE  TableInv'
<1>1. /\ wpc = "idle" /\ ~shadowed /\ wpc' = "search" /\ wkey' = k /\ windirect' = FALSE
      /\ wdata' = d /\ wcur' = hash_table[SlotOf[k]]
      /\ UNCHANGED <<table, shadowed>> /\ crashes' = crashes
  BY DEF UpdateDirect, Usable, history
<1>2. crashes \in 0..MaxCrashes /\ crashes' \in crashes..MaxCrashes
  BY <1>1, HashAssumption DEF TableInv, TableTypes
<1>3. /\ hash_table[SlotOf[k]] \in Chain(SlotOf[k]) \cup {0} /\ wcur' \in Pointer
      /\ EntryOf(k) \subseteq Reach(hash_entries, hash_table[SlotOf[k]])
  BY <1>1, HeadReachesAll
<1>4. /\ TableTypes' /\ Linked' /\ KeysInPlace' /\ Counted'
      /\ UNCHANGED <<hash_table, hash_entries, num_entries, num_direct_entries>>
      /\ Published' = Published
      /\ \A s : Chain(s)' = Chain(s)
      /\ \A j : EntryOf(j)' = EntryOf(j)
      /\ HoldData' = HoldData /\ NamesPointToData' = NamesPointToData
  BY <1>1, <1>2, <1>3, UpdaterMoves
<1>5. Searching'
  BY <1>1, <1>3, <1>4 DEF Searching
<1>6. Names'
  BY <1>1, <1>4 DEF TableInv, Names
<1>7. QED BY <1>4, <1>5, <1>6 DEF TableInv

LEMMA UpdateIndirectTable ==
  ASSUME TableInv, NEW k \in Key, NEW b \in Entries, UpdateIndirect(k, b)
  PROVE  TableInv'
<1>1. /\ wpc = "idle" /\ ~shadowed /\ wpc' = "resolve" /\ wkey' = k /\ windirect' = TRUE
      /\ b \in Published /\ wdata' = b /\ wcur' = hash_table[SlotOf[k]]
      /\ UNCHANGED <<table, shadowed>> /\ crashes' = crashes
  BY DEF UpdateIndirect, Usable, history
<1>2. crashes \in 0..MaxCrashes /\ crashes' \in crashes..MaxCrashes
  BY <1>1, HashAssumption DEF TableInv, TableTypes
<1>3. /\ hash_table[SlotOf[k]] \in Chain(SlotOf[k]) \cup {0} /\ wcur' \in Pointer
      /\ EntryOf(k) \subseteq Reach(hash_entries, hash_table[SlotOf[k]])
  BY <1>1, HeadReachesAll
<1>4. /\ TableTypes' /\ Linked' /\ KeysInPlace' /\ Counted'
      /\ UNCHANGED <<hash_table, hash_entries, num_entries, num_direct_entries>>
      /\ Published' = Published
      /\ \A s : Chain(s)' = Chain(s)
      /\ \A j : EntryOf(j)' = EntryOf(j)
      /\ HoldData' = HoldData /\ NamesPointToData' = NamesPointToData
  BY <1>1, <1>2, <1>3, UpdaterMoves
<1>5. Searching'
  BY <1>1, <1>3, <1>4 DEF Searching
<1>6. Names'
  BY <1>1, <1>4 DEF TableInv, Names
<1>7. QED BY <1>4, <1>5, <1>6 DEF TableInv

(* Names are one deep, so that one step along a name resolves it. *)
LEMMA ResolveBucketTable == TableInv /\ ResolveBucket => TableInv'
<1> SUFFICES ASSUME TableInv, ResolveBucket PROVE TableInv'
  OBVIOUS
<1>0. /\ wpc = "resolve" /\ wkey' = wkey /\ windirect' = windirect /\ wcur' = wcur
      /\ UNCHANGED <<table, shadowed>> /\ crashes' = crashes
      /\ wpc' \in {"search", "resolve"}
      /\ wpc' = "search" => ~hash_entries[wdata].indirect /\ wdata' = wdata
      /\ wpc' = "resolve" => hash_entries[wdata].indirect /\ wdata' = hash_entries[wdata].data
  BY DEF ResolveBucket, Resolved, history
<1>1. windirect /\ wdata \in Published /\ ~shadowed
  BY <1>0 DEF TableInv, Names
<1>2. wdata' \in Published /\ wdata' \in Entries
  BY <1>0, <1>1, PublishedFacts DEF TableInv, Names
<1>3. crashes \in 0..MaxCrashes /\ crashes' \in crashes..MaxCrashes /\ wcur' \in Pointer
      /\ wkey' \in Key \cup {NoKey} /\ windirect' \in BOOLEAN
  BY <1>0, HashAssumption DEF TableInv, TableTypes
<1>4. /\ TableTypes' /\ Linked' /\ KeysInPlace' /\ Counted'
      /\ UNCHANGED <<hash_table, hash_entries, num_entries, num_direct_entries>>
      /\ Published' = Published
      /\ \A s : Chain(s)' = Chain(s)
      /\ \A j : EntryOf(j)' = EntryOf(j)
      /\ HoldData' = HoldData /\ NamesPointToData' = NamesPointToData
  BY <1>0, <1>2, <1>3, UpdaterMoves
<1>5. Searching'
  BY <1>0, <1>4 DEF TableInv, Searching
<1>6. Names'
  BY <1>0, <1>1, <1>2, <1>4 DEF TableInv, Names
<1>7. QED BY <1>4, <1>5, <1>6 DEF TableInv

LEMMA SearchNextTable == TableInv /\ SearchNext => TableInv'
<1> SUFFICES ASSUME TableInv, SearchNext PROVE TableInv'
  OBVIOUS
<1>0. /\ wpc = "search" /\ wcur # 0 /\ hash_entries[wcur].key # wkey
      /\ wcur' = hash_entries[wcur].next
      /\ wpc' = wpc /\ wkey' = wkey /\ windirect' = windirect /\ wdata' = wdata
      /\ UNCHANGED <<table, shadowed>> /\ crashes' = crashes
  BY DEF SearchNext, NextOf, history
<1>1. wkey \in Key /\ SlotOf[wkey] \in Slot
      /\ wcur \in Chain(SlotOf[wkey]) /\ EntryOf(wkey) \subseteq Reach(hash_entries, wcur)
  BY <1>0, HashAssumption DEF TableInv, Searching
<1>2. wcur \in Published /\ wcur \in Entries /\ Closed(hash_entries, Chain(SlotOf[wkey]))
  BY <1>1, PublishedFacts DEF TableInv
<1>3. wcur' \in Chain(SlotOf[wkey]) \cup {0} /\ wcur' \in Pointer
  BY <1>0, <1>1, <1>2 DEF TableInv, Linked, Closed, Backwards
<1>4. EntryOf(wkey) \subseteq Reach(hash_entries, wcur')
  <2>1. Reach(hash_entries, wcur) = {wcur} \cup Reach(hash_entries, wcur')
    BY <1>0, <1>2, ReachStep DEF TableInv, Linked
  <2>2. wcur \notin EntryOf(wkey)
    BY <1>0 DEF EntryOf
  <2>3. QED BY <1>1, <2>1, <2>2
<1>5. crashes \in 0..MaxCrashes /\ crashes' \in crashes..MaxCrashes
      /\ wkey' \in Key \cup {NoKey} /\ windirect' \in BOOLEAN
      /\ wdata' \in Data \cup {NoData} \cup Entries
  BY <1>0, HashAssumption DEF TableInv, TableTypes
<1>6. /\ TableTypes' /\ Linked' /\ KeysInPlace' /\ Counted'
      /\ UNCHANGED <<hash_table, hash_entries, num_entries, num_direct_entries>>
      /\ Published' = Published
      /\ \A s : Chain(s)' = Chain(s)
      /\ \A j : EntryOf(j)' = EntryOf(j)
      /\ HoldData' = HoldData /\ NamesPointToData' = NamesPointToData
  BY <1>0, <1>3, <1>5, UpdaterMoves
<1>7. Searching'
  BY <1>0, <1>1, <1>3, <1>4, <1>6 DEF Searching
<1>8. Names'
  BY <1>0, <1>6 DEF TableInv, Names
<1>9. QED BY <1>6, <1>7, <1>8 DEF TableInv

LEMMA LeavingTable == TableInv /\ (InsertFull \/ Crash) => TableInv'
<1> SUFFICES ASSUME TableInv, InsertFull \/ Crash PROVE TableInv'
  OBVIOUS
<1>0. /\ wpc' = "idle" /\ wkey' = wkey /\ windirect' = windirect /\ wdata' = wdata
      /\ wcur' = wcur /\ UNCHANGED <<table, shadowed>>
      /\ (crashes' = crashes /\ wpc = "search") \/ (crashes' = crashes + 1 /\ crashes < MaxCrashes)
  BY DEF InsertFull, Crash, history
<1>1. /\ crashes \in 0..MaxCrashes /\ crashes' \in crashes..MaxCrashes
      /\ wpc = "publish" => crashes' = crashes + 1
  BY <1>0, HashAssumption DEF TableInv, TableTypes
<1>2. wkey' \in Key \cup {NoKey} /\ windirect' \in BOOLEAN /\ wcur' \in Pointer
      /\ wdata' \in Data \cup {NoData} \cup Entries
  BY <1>0 DEF TableInv, TableTypes
<1>3. /\ TableTypes' /\ Linked' /\ KeysInPlace' /\ Counted'
      /\ UNCHANGED <<hash_table, hash_entries, num_entries, num_direct_entries>>
      /\ Published' = Published
      /\ HoldData' = HoldData /\ NamesPointToData' = NamesPointToData
  BY <1>0, <1>1, <1>2, UpdaterMoves
<1>4. Searching'
  BY <1>0 DEF Searching
<1>5. Names'
  BY <1>0, <1>3 DEF TableInv, Names
<1>6. QED BY <1>3, <1>4, <1>5 DEF TableInv

-----------------------------------------------------------------------------
(* Steps that change entries, but no link and no key. *)
LEMMA DataChanges ==
  ASSUME TableInv, UNCHANGED <<hash_table, num_entries, crashes>>,
         wpc # "publish", wpc' # "publish", hash_entries' \in [Entries -> Entry],
         \A e \in Entries : /\ hash_entries'[e].next = hash_entries[e].next
                            /\ hash_entries'[e].key = hash_entries[e].key
  PROVE  /\ Linked' /\ KeysInPlace' /\ Counted'
         /\ \A s \in Slot : Chain(s)' = Chain(s)
         /\ Published' = Published
         /\ \A k \in Key : EntryOf(k)' = EntryOf(k)
<1> USE DEF TableInv
<1>1. Published \subseteq Entries /\ \A s \in Slot : Chain(s) \subseteq Published
  BY PublishedFacts
<1>2. Backwards(hash_entries')
  BY DEF Linked, Backwards
<1>3. /\ \A s \in Slot : Chain(s)' = Chain(s)
      /\ Published' = Published
      /\ \A k \in Key : EntryOf(k)' = EntryOf(k)
  BY <1>1, <1>2, SameChains
<1>4. Linked'
  BY <1>2, <1>3 DEF Linked
<1>5. KeysInPlace'
  <2>1. \A s \in Slot : \A e \in Chain(s)' :
          hash_entries'[e].key \in Key /\ SlotOf[hash_entries'[e].key] = s
    <3> TAKE s \in Slot
    <3> TAKE e \in Chain(s)'
    <3>1. e \in Chain(s) /\ e \in Entries
      BY <1>1, <1>3
    <3>2. hash_entries'[e].key = hash_entries[e].key
      BY <3>1
    <3>3. QED BY <3>1, <3>2 DEF KeysInPlace
  <2>2. \A e, f \in Published' : hash_entries'[e].key = hash_entries'[f].key => e = f
    BY <1>1, <1>3 DEF KeysInPlace
  <2>3. QED BY <2>1, <2>2 DEF KeysInPlace
<1>6. Counted'
  BY <1>3 DEF Counted
<1>7. QED BY <1>3, <1>4, <1>5, <1>6

(* What a replacing update has found. *)
LEMMA FoundEntry ==
  ASSUME TableInv, wpc = "search", wcur # 0, hash_entries[wcur].key = wkey
  PROVE  /\ wkey \in Key /\ wcur \in EntryOf(wkey) /\ wcur \in Published /\ ~shadowed
         /\ windirect => wdata \in Published /\ ~hash_entries[wdata].indirect
         /\ ~windirect => wdata \in Data
         /\ StoreAt(wcur) \in Published /\ ~hash_entries[StoreAt(wcur)].indirect
<1> USE DEF TableInv
<1>1. wkey \in Key /\ wcur \in Chain(SlotOf[wkey]) /\ SlotOf[wkey] \in Slot
  BY HashAssumption DEF Searching
<1>2. wcur \in EntryOf(wkey) /\ wcur \in Published
  BY <1>1, PublishedFacts DEF EntryOf
<1>3. ~shadowed /\ NamesPointToData
  BY DEF Names
<1>4. StoreAt(wcur) \in Published /\ ~hash_entries[StoreAt(wcur)].indirect
  BY <1>2, <1>3 DEF NamesPointToData, StoreAt
<1>5. /\ windirect => wdata \in Published /\ ~hash_entries[wdata].indirect
      /\ ~windirect => wdata \in Data
  BY DEF Names
<1>6. QED BY <1>1, <1>2, <1>3, <1>4, <1>5

LEMMA ReplaceTable == TableInv /\ Replace => TableInv'
<1> SUFFICES ASSUME TableInv, Replace PROVE TableInv'
  OBVIOUS
<1> USE DEF TableInv
<1> DEFINE t == IF windirect THEN wcur ELSE StoreAt(wcur)
<1>0. /\ wpc = "search" /\ wcur # 0 /\ hash_entries[wcur].key = wkey
      /\ ~windirect \/ hash_entries[wcur].indirect
      /\ hash_entries' = [hash_entries EXCEPT ![t].data = wdata]
      /\ wpc' = "idle"
      /\ UNCHANGED <<hash_table, num_entries, num_direct_entries, wkey, windirect, wdata, wcur,
                     shadowed, crashes>>
  BY DEF Replace
<1>1. /\ wkey \in Key /\ wcur \in Published /\ ~shadowed
      /\ windirect => wdata \in Published /\ ~hash_entries[wdata].indirect
      /\ ~windirect => wdata \in Data
      /\ StoreAt(wcur) \in Published /\ ~hash_entries[StoreAt(wcur)].indirect
  BY <1>0, FoundEntry
<1>2. /\ t \in Published /\ t \in Entries /\ Published \subseteq Entries
      /\ IF windirect THEN hash_entries[t].indirect ELSE ~hash_entries[t].indirect
  BY <1>0, <1>1, PublishedFacts
<1> HIDE DEF t
<1>3. /\ hash_entries' \in [Entries -> Entry]
      /\ \A e \in Entries : /\ hash_entries'[e].next = hash_entries[e].next
                            /\ hash_entries'[e].key = hash_entries[e].key
                            /\ hash_entries'[e].indirect = hash_entries[e].indirect
                            /\ e # t => hash_entries'[e] = hash_entries[e]
      /\ hash_entries'[t].data = wdata
  BY <1>0, <1>2 DEF TableTypes, Entry
<1>4. /\ Linked' /\ KeysInPlace' /\ Counted' /\ Published' = Published
  BY <1>0, <1>3, DataChanges
<1>5. TableTypes'
  BY <1>0, <1>3 DEF TableTypes
<1>6. Searching'
  BY <1>0 DEF Searching
<1>7. Names'
  <2>1. HoldData' = HoldData
    BY <1>2, <1>3, <1>4 DEF HoldData
  <2>2. \A e \in Published : hash_entries'[e].indirect => hash_entries'[e].data \in Published
    BY <1>1, <1>2, <1>3 DEF Names
  <2>3. \A e \in Published : hash_entries'[e].indirect
          => ~hash_entries'[hash_entries'[e].data].indirect
    <3> SUFFICES ASSUME NEW e \in Published, hash_entries'[e].indirect
                 PROVE  ~hash_entries'[hash_entries'[e].data].indirect
      OBVIOUS
    <3>1. NamesPointToData
      BY <1>1 DEF Names
    <3>2. hash_entries'[e].data \in Published /\ hash_entries[e].indirect /\ e \in Entries
      BY <2>2, <1>2, <1>3
    <3>3. ~hash_entries[hash_entries'[e].data].indirect
      <4>1. CASE e = t
        BY <4>1, <3>2, <1>1, <1>2, <1>3
      <4>2. CASE e # t
        BY <4>2, <3>1, <3>2, <1>3 DEF NamesPointToData
      <4>3. QED BY <4>1, <4>2
    <3>4. QED BY <3>2, <3>3, <1>2, <1>3
  <2>4. \A e \in HoldData : hash_entries'[e].data \in Data
    BY <1>1, <1>2, <1>3 DEF Names, HoldData
  <2>5. NamesPointToData'
    BY <1>4, <2>2, <2>3 DEF NamesPointToData
  <2>6. QED BY <1>0, <1>1, <1>4, <2>1, <2>2, <2>4, <2>5 DEF Names
<1>8. QED BY <1>4, <1>5, <1>6, <1>7

LEMMA ReplaceDataTable == TableInv /\ ReplaceData => TableInv'
<1> SUFFICES ASSUME TableInv, ReplaceData PROVE TableInv'
  OBVIOUS
<1> USE DEF TableInv
<1>0. /\ wpc = "search" /\ wcur # 0 /\ hash_entries[wcur].key = wkey
      /\ windirect /\ ~hash_entries[wcur].indirect
      /\ num_direct_entries' = num_direct_entries - 1
      /\ hash_entries' = [hash_entries EXCEPT ![wcur].data = wdata]
      /\ wpc' = "flag" /\ shadowed' = TRUE
      /\ UNCHANGED <<hash_table, num_entries, wkey, windirect, wdata, wcur, crashes>>
  BY DEF ReplaceData
<1>1. /\ wcur \in Published /\ wdata \in Published /\ ~shadowed /\ wkey \in Key
      /\ wcur \in Entries /\ Published \subseteq Entries
  BY <1>0, FoundEntry, PublishedFacts
<1>2. /\ hash_entries' \in [Entries -> Entry]
      /\ \A e \in Entries : /\ hash_entries'[e].next = hash_entries[e].next
                            /\ hash_entries'[e].key = hash_entries[e].key
                            /\ hash_entries'[e].indirect = hash_entries[e].indirect
                            /\ e # wcur => hash_entries'[e] = hash_entries[e]
      /\ hash_entries'[wcur].data = wdata
  BY <1>0, <1>1 DEF TableTypes, Entry
<1>3. /\ Linked' /\ KeysInPlace' /\ Counted' /\ Published' = Published
  BY <1>0, <1>2, DataChanges
<1>4. num_direct_entries # 0
  <2>1. wcur \in HoldData
    BY <1>0, <1>1 DEF HoldData
  <2>2. QED BY <2>1, <1>1 DEF Names
<1>5. TableTypes'
  <2>1. num_direct_entries' \in 0..num_entries'
    BY <1>0, <1>4, HashAssumption DEF TableTypes
  <2>2. QED BY <1>0, <1>2, <2>1 DEF TableTypes
<1>6. Searching'
  BY <1>0, <1>1, <1>3 DEF Searching
<1>7. Names'
  <2>1. \A e \in Published' : hash_entries'[e].indirect => hash_entries'[e].data \in Published'
    BY <1>0, <1>1, <1>2, <1>3 DEF Names
  <2>2. QED BY <1>0, <1>1, <1>2, <1>3, <2>1 DEF Names
<1>8. QED BY <1>3, <1>5, <1>6, <1>7

LEMMA ReplaceFlagTable == TableInv /\ ReplaceFlag => TableInv'
<1> SUFFICES ASSUME TableInv, ReplaceFlag PROVE TableInv'
  OBVIOUS
<1> USE DEF TableInv
<1>0. /\ wpc = "flag"
      /\ hash_entries' = [hash_entries EXCEPT ![wcur].indirect = TRUE]
      /\ wpc' = "idle"
      /\ UNCHANGED <<hash_table, num_entries, num_direct_entries, wkey, windirect, wdata, wcur,
                     shadowed, crashes>>
  BY DEF ReplaceFlag
<1>1. /\ shadowed /\ windirect /\ wdata \in Published /\ hash_entries[wcur].data = wdata
      /\ wcur \in Published /\ wcur \in Entries /\ Published \subseteq Entries
  BY <1>0, PublishedFacts DEF Names, Searching
<1>2. /\ hash_entries' \in [Entries -> Entry]
      /\ \A e \in Entries : /\ hash_entries'[e].next = hash_entries[e].next
                            /\ hash_entries'[e].key = hash_entries[e].key
                            /\ hash_entries'[e].data = hash_entries[e].data
                            /\ e # wcur => hash_entries'[e] = hash_entries[e]
  <2> DEFINE new == [hash_entries[wcur] EXCEPT !.indirect = TRUE]
  <2>1. hash_entries \in [Entries -> Entry] /\ hash_entries[wcur] \in Entry
    BY <1>1 DEF TableTypes
  <2>2. /\ new \in Entry /\ new.next = hash_entries[wcur].next
        /\ new.key = hash_entries[wcur].key /\ new.data = hash_entries[wcur].data
    BY <2>1 DEF Entry
  <2>3. hash_entries' = [hash_entries EXCEPT ![wcur] = new]
    BY <1>0, <1>1, <2>1
  <2> HIDE DEF new
  <2>4. QED BY <1>1, <2>1, <2>2, <2>3
<1>3. /\ Linked' /\ KeysInPlace' /\ Counted' /\ Published' = Published
  BY <1>0, <1>2, DataChanges
<1>4. TableTypes'
  BY <1>0, <1>2 DEF TableTypes
<1>5. Searching'
  BY <1>0 DEF Searching
<1>6. Names'
  <2>1. \A e \in Published' : hash_entries'[e].indirect => hash_entries'[e].data \in Published'
    BY <1>1, <1>2, <1>3 DEF Names
  <2>2. QED BY <1>0, <1>1, <1>3, <2>1 DEF Names
<1>7. QED BY <1>3, <1>4, <1>5, <1>6

-----------------------------------------------------------------------------
(* Steps that add entries, and Clean. *)
LEMMA InsertFillTable == TableInv /\ InsertFill => TableInv'
<1> SUFFICES ASSUME TableInv, InsertFill PROVE TableInv'
  OBVIOUS
<1> USE DEF TableInv
<1> DEFINE e0 == num_entries + 1
           new == [key |-> wkey, next |-> hash_table[SlotOf[wkey]], indirect |-> windirect,
                   data |-> wdata]
<1>0. /\ wpc = "search" /\ wcur = 0 /\ num_entries # max_num_entries
      /\ num_entries' = e0 /\ num_direct_entries' = num_direct_entries + Counts
      /\ hash_entries' = [hash_entries EXCEPT ![e0] = new]
      /\ wcur' = e0 /\ wpc' = "publish"
      /\ UNCHANGED <<hash_table, wkey, windirect, wdata, shadowed, crashes>>
  BY DEF InsertFill, Full, Rest, history
<1>1. /\ e0 \in Entries /\ num_entries \in Nat /\ e0 \in Pointer
      /\ wkey \in Key /\ SlotOf[wkey] \in Slot /\ hash_table[SlotOf[wkey]] \in Pointer
  BY <1>0, HashAssumption DEF TableTypes, Searching
<1>2. Published \subseteq 1..num_entries /\ e0 \notin Published /\ Published \subseteq Entries
  BY <1>1, PublishedFacts
<1>3. hash_table[SlotOf[wkey]] < e0
  <2>1. hash_table[SlotOf[wkey]] \in Published \cup {0}
    BY <1>1, PublishedFacts
  <2>2. QED BY <2>1, <1>1, <1>2
<1>4. EntryOf(wkey) = {}
  <2>1. EntryOf(wkey) \subseteq Reach(hash_entries, 0)
    BY <1>0 DEF Searching
  <2>2. QED BY <2>1, ReachNull
<1>5. /\ new \in Entry /\ new.next = hash_table[SlotOf[wkey]] /\ new.key = wkey
      /\ new.indirect = windirect /\ new.data = wdata
  BY <1>1 DEF TableTypes, Entry
<1>6. /\ hash_entries' \in [Entries -> Entry] /\ hash_entries'[e0] = new
      /\ \A e \in Entries : e # e0 => hash_entries'[e] = hash_entries[e]
  <2> HIDE DEF e0, new
  <2>1. QED BY <1>0, <1>1, <1>5 DEF TableTypes
<1>7. Backwards(hash_entries')
  <2> SUFFICES ASSUME NEW e \in Entries
               PROVE  hash_entries'[e].next \in Pointer /\ hash_entries'[e].next < e
    BY DEF Backwards
  <2>1. CASE e = e0 BY <2>1, <1>1, <1>3, <1>5, <1>6
  <2>2. CASE e # e0 BY <2>2, <1>6 DEF Linked, Backwards
  <2>3. QED BY <2>1, <2>2
<1>8. /\ \A s \in Slot : Chain(s)' = Chain(s) /\ Chain(s) \subseteq Published
      /\ Published' = Published
      /\ \A k \in Key : EntryOf(k)' = EntryOf(k)
  <2>1. \A e \in Published : hash_entries'[e] = hash_entries[e]
    BY <1>2, <1>6
  <2>2. QED BY <1>0, <1>7, <2>1, SameChains, PublishedFacts
<1>9. Linked'
  <2>1. \A e \in Published' : e <= num_entries' - 1
    BY <1>0, <1>1, <1>2, <1>8
  <2>2. QED BY <1>0, <1>7, <2>1 DEF Linked
<1>10. KeysInPlace'
  <2>1. \A e \in Published : hash_entries'[e] = hash_entries[e]
    BY <1>2, <1>6
  <2>2. QED BY <2>1, <1>8 DEF KeysInPlace
<1>11. Counted'
  <2>1. Cardinality(Published) \in Nat /\ crashes \in Nat
    BY PublishedFacts, FS_CardinalityType, HashAssumption DEF TableTypes
  <2>2. num_entries - Cardinality(Published) <= crashes
    BY <1>0, <1>1, <2>1 DEF Counted
  <2>3. QED BY <1>0, <1>1, <1>8, <2>1, <2>2 DEF Counted
<1>12. num_direct_entries' \in 0..num_entries' /\ (num_direct_entries' = 0
         => num_direct_entries = 0 /\ windirect)
  <2>1. num_direct_entries \in 0..num_entries
    BY DEF TableTypes
  <2>2. Counts = IF windirect THEN 0 ELSE 1
    BY DEF Counts
  <2>3. CASE windirect
    BY <1>0, <1>1, <2>1, <2>2, <2>3
  <2>4. CASE ~windirect
    BY <1>0, <1>1, <2>1, <2>2, <2>4
  <2>5. QED BY <2>3, <2>4
<1>13. TableTypes'
  BY <1>0, <1>1, <1>6, <1>12 DEF TableTypes
<1>14. Searching'
  BY <1>0, <1>1, <1>4, <1>6, <1>8 DEF Searching
<1>15. Names'
  <2>1. \A e \in Published : hash_entries'[e] = hash_entries[e]
    BY <1>2, <1>6
  <2>2. HoldData' = HoldData
    BY <2>1, <1>8 DEF HoldData
  <2>3. \A e \in Published' : hash_entries'[e].indirect => hash_entries'[e].data \in Published'
    BY <2>1, <1>8 DEF Names
  <2>4. ~shadowed /\ NamesPointToData
    BY <1>0 DEF Names
  <2>5. NamesPointToData'
    BY <2>1, <2>4, <1>8 DEF NamesPointToData
  <2>6. \A e \in HoldData' : hash_entries'[e].data \in Data
    BY <2>1, <2>2, <2>4 DEF Names, HoldData
  <2>7. wdata' \in IF windirect' THEN Published' ELSE Data
    BY <1>0, <1>8 DEF Names
  <2>8. windirect' => ~hash_entries'[wdata'].indirect
    BY <1>0, <1>8, <2>1, <2>7 DEF Names
  <2>9. num_direct_entries' = 0 => HoldData' = {} /\ windirect'
    BY <1>0, <1>12, <2>2, <2>4 DEF Names
  <2>10. QED BY <1>0, <2>3, <2>4, <2>5, <2>6, <2>7, <2>8, <2>9 DEF Names
<1>16. QED BY <1>9, <1>10, <1>11, <1>13, <1>14, <1>15

LEMMA InsertPublishTable == TableInv /\ InsertPublish => TableInv'
<1> SUFFICES ASSUME TableInv, InsertPublish PROVE TableInv'
  OBVIOUS
<1> USE DEF TableInv
<1>0. /\ wpc = "publish" /\ wpc' = "idle"
      /\ hash_table' = [hash_table EXCEPT ![SlotOf[wkey]] = wcur]
      /\ UNCHANGED <<hash_entries, num_entries, num_direct_entries, wkey, windirect, wdata, wcur,
                     shadowed, crashes>>
  BY DEF InsertPublish
<1>1. /\ wcur \in Entries /\ wcur \notin Published
      /\ \A s \in Slot : Chain(s)' = IF s = SlotOf[wkey] THEN {wcur} \cup Chain(s) ELSE Chain(s)
      /\ Published' = Published \cup {wcur}
  BY OneMoreEntry
<1>2. /\ wkey \in Key /\ wcur = num_entries /\ EntryOf(wkey) = {}
      /\ hash_entries[wcur].key = wkey /\ hash_entries[wcur].indirect = windirect
      /\ hash_entries[wcur].data = wdata
  BY <1>0 DEF Searching
<1>3. \A e \in Published : hash_entries[e].key \in Key /\ hash_entries[e].key # wkey
  BY <1>2, EntryOfKey
<1>4. TableTypes'
  BY <1>0, <1>1 DEF TableTypes
<1>5. Linked'
  <2>1. num_entries \in Nat /\ Published \subseteq 1..num_entries
    BY PublishedFacts, HashAssumption DEF TableTypes
  <2>2. \A e \in Published' : e <= num_entries'
    <3>1. \A e \in Published : e <= num_entries
      BY <2>1
    <3>2. wcur <= num_entries
      BY <1>2, <2>1
    <3>3. QED BY <3>1, <3>2, <1>0, <1>1
  <2>3. QED BY <1>0, <2>2 DEF Linked
<1>6. KeysInPlace'
  <2>1. \A s \in Slot : \A e \in Chain(s)' :
          hash_entries'[e].key \in Key /\ SlotOf[hash_entries'[e].key] = s
    BY <1>0, <1>1, <1>2 DEF KeysInPlace
  <2>2. \A e, f \in Published' : hash_entries'[e].key = hash_entries'[f].key => e = f
    BY <1>0, <1>1, <1>2, <1>3 DEF KeysInPlace
  <2>3. QED BY <2>1, <2>2 DEF KeysInPlace
<1>7. Counted'
  <2>1. /\ Cardinality(Published) \in Nat /\ crashes \in Nat /\ num_entries \in Nat
        /\ Cardinality(Published \cup {wcur}) = Cardinality(Published) + 1
    <3>1. IsFiniteSet(Published)
      BY PublishedFacts
    <3>2. Cardinality(Published) \in Nat
      BY <3>1, FS_CardinalityType
    <3>3. Cardinality(Published \cup {wcur}) = Cardinality(Published) + 1
      BY <3>1, <1>1, FS_AddElement
    <3>4. crashes \in Nat /\ num_entries \in Nat
      BY HashAssumption DEF TableTypes
    <3>5. QED BY <3>2, <3>3, <3>4
  <2>2. QED BY <1>0, <1>1, <2>1 DEF Counted
<1>8. Searching'
  BY <1>0 DEF Searching
<1>9. Names'
  <2>1. ~shadowed /\ NamesPointToData /\ (windirect => ~hash_entries[wdata].indirect)
        /\ wdata \in IF windirect THEN Published ELSE Data
    BY <1>0 DEF Names
  <2>2. \A e \in Published' : hash_entries'[e].indirect => hash_entries'[e].data \in Published'
    BY <1>0, <1>1, <1>2, <2>1 DEF Names
  <2>3. NamesPointToData'
    BY <1>0, <1>1, <1>2, <2>1, <2>2 DEF NamesPointToData
  <2>4. \A e \in HoldData' : hash_entries'[e].data \in Data
    BY <1>0, <1>1, <1>2, <2>1 DEF Names, HoldData
  <2>5. num_direct_entries' = 0 => HoldData' = {}
    BY <1>0, <1>1, <1>2, <2>1 DEF Names, HoldData
  <2>6. QED BY <1>0, <2>1, <2>2, <2>3, <2>4, <2>5 DEF Names
<1>10. QED BY <1>4, <1>5, <1>6, <1>7, <1>8, <1>9

LEMMA CleanTable == TableInv /\ Clean => TableInv'
<1> SUFFICES ASSUME TableInv, Clean PROVE TableInv'
  OBVIOUS
<1> USE DEF TableInv
<1>0. /\ wpc = "idle" /\ num_entries' = 0 /\ num_direct_entries' = 0 /\ shadowed' = FALSE
      /\ hash_table' = [s \in Slot |-> 0]
      /\ UNCHANGED <<hash_entries, wpc, wkey, windirect, wdata, wcur, crashes>>
  BY DEF Clean, writer
<1>1. /\ \A s \in Slot : Chain(s)' = {}
      /\ Published' = {}
  BY NoEntries
<1>2. hash_table' \in [Slot -> Pointer] /\ 0 \in Pointer /\ 0 \in 0..0
  BY <1>0, HashAssumption
<1>3. TableTypes'
  BY <1>0, <1>2 DEF TableTypes
<1>4. Linked' /\ KeysInPlace'
  BY <1>0, <1>1 DEF Linked, KeysInPlace
<1>5. Counted'
  <2>1. crashes \in Nat /\ Cardinality({}) = 0
    BY FS_EmptySet, HashAssumption DEF TableTypes
  <2>2. QED BY <1>0, <1>1, <2>1 DEF Counted
<1>6. Searching'
  BY <1>0 DEF Searching
<1>7. Names'
  BY <1>0, <1>1 DEF Names, NamesPointToData, HoldData
<1>8. QED BY <1>3, <1>4, <1>5, <1>6, <1>7

LEMMA TableStep == TableInv /\ [Next]_vars => TableInv'
<1> SUFFICES ASSUME TableInv, [Next]_vars PROVE TableInv'
  OBVIOUS
<1>1. ASSUME NEW k \in Key, NEW d \in Data, UpdateDirect(k, d) PROVE TableInv'
  BY <1>1, UpdateDirectTable
<1>2. ASSUME NEW k \in Key, NEW b \in Entries, UpdateIndirect(k, b) PROVE TableInv'
  BY <1>2, UpdateIndirectTable
<1>3. ASSUME NEW k \in Key, NEW r \in Reader, FindBegin(r, k) PROVE TableInv'
  <2>1. UNCHANGED <<table, writer, shadowed, crashes>>
    BY <1>3 DEF FindBegin
  <2>2. QED BY <2>1, TableStutter
<1>4. ASSUME NEW r \in Reader, FindStep(r) PROVE TableInv'
  <2>1. UNCHANGED <<table, writer, shadowed, crashes>>
    BY <1>4 DEF FindStep, FindWalk, FindKind, FindTarget, FindData, FindReturn, history
  <2>2. QED BY <2>1, TableStutter
<1>5. CASE Update
  BY <1>5, ResolveBucketTable, SearchNextTable, ReplaceTable, ReplaceDataTable, ReplaceFlagTable,
     LeavingTable, InsertFillTable, InsertPublishTable DEF Update, Insert
<1>6. CASE Clean
  BY <1>6, CleanTable
<1>7. CASE Crash
  BY <1>7, LeavingTable
<1>8. CASE UNCHANGED vars
  <2>1. UNCHANGED <<table, writer, shadowed, crashes>>
    BY <1>8 DEF vars, history
  <2>2. QED BY <2>1, TableStutter
<1>9. QED BY <1>1, <1>2, <1>3, <1>4, <1>5, <1>6, <1>7, <1>8 DEF Next

(* Every key has one entry, in the chain of its slot, and the chains hold all *)
(* entries in use but the one being added and those lost to crashes.          *)
THEOREM ChainsStaySound == Spec => []ChainsAreSound
<1>1. TableInv => ChainsAreSound
  BY PublishedFacts DEF TableInv, KeysInPlace, Counted, ChainsAreSound
<1>2. QED BY <1>1, TableInit, TableStep, PTL DEF Spec

-----------------------------------------------------------------------------
(* The look-ups. *)
Found == Data \cup {NoData} \cup Entries

FindTypes ==
  /\ rpc \in [Reader -> {"idle", "walk", "kind", "target", "data", "done"}]
  /\ rkey \in [Reader -> Key \cup {NoKey}] /\ rcur \in [Reader -> Pointer]
  /\ rdata \in [Reader -> Found]
  /\ cells \in [Reader -> SUBSET Entries] /\ seen \in [Reader -> SUBSET Found]

(* The history has the cell of the key, and what the cells hold. *)
Observed(r) ==
  /\ rkey[r] \in Key
  /\ cells[r] \subseteq Published
  /\ CellOf(rkey[r]) \in cells[r] \cup {0}
  /\ CellOf(rkey[r]) = 0 => NoData \in seen[r]
  /\ \A c \in cells[r] : hash_entries[c].data \in seen[r]

(* A look-up has not passed the entry of its key, unless the entry was added *)
(* after it began.                                                           *)
Finding(r) ==
  /\ rpc[r] = "walk" =>
       /\ rcur[r] \in Published \cup {0}
       /\ NoData \in seen[r] \/ EntryOf(rkey[r]) \subseteq Reach(hash_entries, rcur[r])
  /\ rpc[r] \in {"kind", "target"} => rcur[r] \in EntryOf(rkey[r])
  /\ rpc[r] = "target" => hash_entries[rcur[r]].indirect
  /\ rpc[r] = "data" => rcur[r] \in cells[r]
  /\ rpc[r] = "done" => rdata[r] \in seen[r]

LookupInv(r) == IF rpc[r] = "idle" THEN cells[r] = {} ELSE Observed(r) /\ Finding(r)
FindInv == FindTypes /\ \A r \in Reader : LookupInv(r)

LEMMA FindInit == Init => FindInv
BY HashAssumption DEF Init, FindInv, FindTypes, LookupInv, Found

(* A look-up that does not move, while the table is not changed. *)
LEMMA LookupRests ==
  ASSUME FindInv, NEW r \in Reader, UNCHANGED <<hash_table, hash_entries>>,
         rpc'[r] = rpc[r], rkey'[r] = rkey[r], rcur'[r] = rcur[r], rdata'[r] = rdata[r],
         cells'[r] = cells[r], seen'[r] = seen[r]
  PROVE  LookupInv(r)'
<1>1. hash_entries' = hash_entries
  OBVIOUS
<1>2. /\ Published' = Published
      /\ \A k : EntryOf(k)' = EntryOf(k) /\ CellOf(k)' = CellOf(k)
  BY SameTable
<1>3. Observed(r) => Observed(r)'
  BY <1>1, <1>2 DEF Observed
<1>4. Reach(hash_entries', rcur'[r]) = Reach(hash_entries, rcur[r])
  BY <1>1
<1>5. Finding(r) => Finding(r)'
  BY <1>1, <1>2, <1>4 DEF Finding
<1>6. LookupInv(r)
  BY DEF FindInv
<1>7. QED BY <1>3, <1>5, <1>6 DEF LookupInv

LEMMA LookupsRest ==
  ASSUME FindInv, UNCHANGED <<hash_table, hash_entries, reader, seen, cells>>
  PROVE  FindInv'
<1>1. UNCHANGED <<rpc, rkey, rcur, rdata, seen, cells>>
  BY DEF reader
<1>2. FindTypes'
  BY <1>1 DEF FindInv, FindTypes
<1>3. \A r \in Reader : LookupInv(r)'
  BY <1>1, LookupRests
<1>4. QED BY <1>2, <1>3 DEF FindInv

(* The table changes, and the history takes it down. *)
LEMMA TableChanges ==
  ASSUME TableInv, TableInv', FindInv, UNCHANGED reader, Observe,
         Published \subseteq Published',
         \A k \in Key : EntryOf(k) # {} => EntryOf(k)' = EntryOf(k),
         \A k \in Key : EntryOf(k) = EntryOf(k)' \/ EntryOf(k) = {},
         \A e \in Published : /\ hash_entries'[e].next = hash_entries[e].next
                              /\ hash_entries[e].indirect => hash_entries'[e].indirect
  PROVE  FindInv'
<1>0. UNCHANGED <<rpc, rkey, rcur, rdata>>
  BY DEF reader
<1>1. Published' \subseteq Entries
  <2>1. (TableTypes /\ Linked => Published \subseteq Entries)'
    BY PublishedFacts, PTL
  <2>2. QED BY <2>1 DEF TableInv
<1>2. \A k \in Key : CellOf(k)' \in Published' \cup {0}
  <2>1. (TableTypes /\ Linked /\ KeysInPlace /\ Names
           => \A k \in Key : CellOf(k) \in Published \cup {0} /\ (CellOf(k) = 0 <=> EntryOf(k) = {}))'
    BY CellIsPublished, PTL
  <2>2. QED BY <2>1 DEF TableInv
<1>3. \A k \in Key : EntryOf(k) = {} <=> CellOf(k) = 0
  BY CellIsPublished DEF TableInv
<1>4. ASSUME NEW r \in Reader
      PROVE  LookupInv(r)' /\ cells'[r] \in SUBSET Entries /\ seen'[r] \in SUBSET Found
  <2>1. rpc'[r] = rpc[r] /\ rkey'[r] = rkey[r] /\ rcur'[r] = rcur[r] /\ rdata'[r] = rdata[r]
    BY <1>0
  <2>2. CASE rpc[r] = "idle"
    <3>1. cells'[r] = {} /\ seen'[r] = {}
      BY <2>1, <2>2 DEF Observe
    <3>2. QED BY <2>1, <2>2, <3>1 DEF LookupInv
  <2>3. CASE rpc[r] # "idle"
    <3>1. Observed(r) /\ Finding(r)
      BY <2>3 DEF FindInv, LookupInv
    <3>0. PICK k \in Key : k = rkey[r]
      BY <3>1 DEF Observed
    <3>2. CellOf(k)' \in Published' \cup {0} /\ CellOf(rkey[r])' = CellOf(k)'
      BY <3>0, <1>2, <2>1
    <3>3. cells'[r] = cells[r] \cup ({CellOf(k)'} \ {0})
      BY <2>1, <2>3, <3>2 DEF Observe
    <3>4. seen'[r] = seen[r] \cup {hash_entries'[c].data : c \in cells'[r]}
                     \cup (IF CellOf(k)' = 0 THEN {NoData} ELSE {})
      BY <2>1, <2>3, <3>2 DEF Observe
    <3>5. cells'[r] \subseteq Published' /\ cells'[r] \subseteq Entries
      BY <3>0, <3>1, <3>2, <3>3, <1>1 DEF Observed
    <3>6. seen'[r] \subseteq Found
      <4>1. \A c \in cells'[r] : hash_entries'[c].data \in Found
        BY <3>5 DEF TableInv, TableTypes, Entry, Found
      <4>2. seen[r] \subseteq Found /\ NoData \in Found
        BY DEF FindInv, FindTypes, Found
      <4>3. QED BY <4>1, <4>2, <3>4
    <3>7. Observed(r)'
      <4>1. rkey'[r] \in Key
        BY <3>0, <2>1
      <4>2. CellOf(rkey[r])' \in cells'[r] \cup {0}
        BY <3>2, <3>3
      <4>3. CellOf(rkey[r])' = 0 => NoData \in seen'[r]
        BY <3>2, <3>4
      <4>4. \A c \in cells'[r] : hash_entries'[c].data \in seen'[r]
        BY <3>4
      <4>5. QED BY <4>1, <4>2, <4>3, <4>4, <3>5 DEF Observed
    <3>8. Finding(r)'
      <4>1. seen[r] \subseteq seen'[r] /\ cells[r] \subseteq cells'[r]
        BY <3>3, <3>4
      <4>2. EntryOf(rkey[r])' = EntryOf(k)'
        BY <3>0, <2>1
      <4>3. rpc[r] = "walk" =>
              /\ rcur[r] \in Published' \cup {0}
              /\ NoData \in seen'[r] \/ EntryOf(k)' \subseteq Reach(hash_entries', rcur[r])
        <5> SUFFICES ASSUME rpc[r] = "walk", NoData \notin seen'[r]
                     PROVE  EntryOf(k)' \subseteq Reach(hash_entries', rcur[r])
          BY <3>0, <3>1 DEF Finding
        <5>1. rcur[r] \in Published \cup {0} /\ EntryOf(k) \subseteq Reach(hash_entries, rcur[r])
          BY <3>0, <3>1, <4>1 DEF Finding
        <5>2. EntryOf(k) # {}
          BY <3>0, <4>1, <3>1, <3>2, <1>3 DEF Observed
        <5>3. Reach(hash_entries', rcur[r]) = Reach(hash_entries, rcur[r])
          <6>1. Backwards(hash_entries) /\ Backwards(hash_entries') /\ rcur[r] \in Pointer
            BY DEF TableInv, Linked, FindInv, FindTypes
          <6>2. Published \subseteq Entries /\ Closed(hash_entries, Published)
            BY PublishedFacts DEF TableInv, Closed
          <6>3. Reach(hash_entries, rcur[r]) \subseteq Published
            BY <5>1, <6>2, ReachLeast
          <6>4. QED BY <6>1, <6>3, ReachSame
        <5>4. EntryOf(k)' = EntryOf(k)
          BY <5>2
        <5>5. QED BY <5>1, <5>3, <5>4
      <4>4. rpc[r] \in {"kind", "target"} => rcur[r] \in EntryOf(k)' /\ rcur[r] \in Published
        <5> SUFFICES ASSUME rpc[r] \in {"kind", "target"}
                     PROVE  rcur[r] \in EntryOf(k)' /\ rcur[r] \in Published
          OBVIOUS
        <5>1. rcur[r] \in EntryOf(k)
          BY <3>0, <3>1 DEF Finding
        <5>2. EntryOf(k)' = EntryOf(k) /\ EntryOf(k) \subseteq Published
          BY <5>1, <3>2, PublishedFacts DEF TableInv
        <5>3. QED BY <5>1, <5>2
      <4>5. rpc[r] = "target" => hash_entries'[rcur[r]].indirect
        BY <4>4, <3>1 DEF Finding
      <4>6. rpc[r] = "data" => rcur[r] \in cells'[r]
        BY <4>1, <3>1 DEF Finding
      <4>7. rpc[r] = "done" => rdata[r] \in seen'[r]
        BY <4>1, <3>1 DEF Finding
      <4>8. QED BY <2>1, <4>2, <4>3, <4>4, <4>5, <4>6, <4>7 DEF Finding
    <3>9. QED BY <3>5, <3>6, <3>7, <3>8, <2>1, <2>3 DEF LookupInv
  <2>4. QED BY <2>2, <2>3
<1>5. FindTypes'
  <2>1. DOMAIN cells' = Reader /\ DOMAIN seen' = Reader
    BY DEF Observe
  <2>2. cells' = [r \in Reader |-> cells'[r]] /\ seen' = [r \in Reader |-> seen'[r]]
    BY DEF Observe
  <2>3. cells' \in [Reader -> SUBSET Entries] /\ seen' \in [Reader -> SUBSET Found]
    BY <2>2, <1>4
  <2>4. QED BY <2>3, <1>0 DEF FindInv, FindTypes
<1>6. QED BY <1>4, <1>5 DEF FindInv

-----------------------------------------------------------------------------
(* Replacing changes no link, and no name becomes an entry with data. *)
LEMMA ReplacingKeepsLinks ==
  ASSUME TableInv, Replace \/ ReplaceData \/ ReplaceFlag
  PROVE  /\ \A e \in Entries : /\ hash_entries'[e].next = hash_entries[e].next
                               /\ hash_entries'[e].key = hash_entries[e].key
                               /\ hash_entries[e].indirect => hash_entries'[e].indirect
         /\ UNCHANGED <<hash_table, num_entries, crashes, reader>>
         /\ wpc # "publish" /\ wpc' # "publish" /\ Observe
<1>0. hash_entries \in [Entries -> Entry]
  BY DEF TableInv, TableTypes
<1>1. ASSUME NEW t, hash_entries' = [hash_entries EXCEPT ![t].data = wdata]
      PROVE  \A e \in Entries : /\ hash_entries'[e].next = hash_entries[e].next
                                /\ hash_entries'[e].key = hash_entries[e].key
                                /\ hash_entries'[e].indirect = hash_entries[e].indirect
  <2> TAKE e \in Entries
  <2>1. hash_entries[e] \in Entry
    BY <1>0
  <2>2. CASE e = t BY <1>0, <1>1, <2>1, <2>2 DEF Entry
  <2>3. CASE e # t BY <1>0, <1>1, <2>3
  <2>4. QED BY <2>2, <2>3
<1>2. ASSUME hash_entries' = [hash_entries EXCEPT ![wcur].indirect = TRUE]
      PROVE  \A e \in Entries : /\ hash_entries'[e].next = hash_entries[e].next
                                /\ hash_entries'[e].key = hash_entries[e].key
                                /\ hash_entries[e].indirect => hash_entries'[e].indirect
  <2> TAKE e \in Entries
  <2>1. hash_entries[e] \in Entry
    BY <1>0
  <2>2. CASE e = wcur BY <1>0, <1>2, <2>1, <2>2 DEF Entry
  <2>3. CASE e # wcur BY <1>0, <1>2, <2>3
  <2>4. QED BY <2>2, <2>3
<1>3. UNCHANGED <<hash_table, num_entries, crashes, reader>>
      /\ wpc # "publish" /\ wpc' # "publish" /\ Observe
  BY DEF Replace, ReplaceData, ReplaceFlag
<1>4. CASE Replace
  <2> DEFINE t == IF windirect THEN wcur ELSE StoreAt(wcur)
  <2>1. hash_entries' = [hash_entries EXCEPT ![t].data = wdata]
    BY <1>4 DEF Replace
  <2> HIDE DEF t
  <2>2. QED BY <2>1, <1>1, <1>3
<1>5. CASE ReplaceData
  <2>1. hash_entries' = [hash_entries EXCEPT ![wcur].data = wdata]
    BY <1>5 DEF ReplaceData
  <2>2. QED BY <2>1, <1>1, <1>3
<1>6. CASE ReplaceFlag
  <2>1. hash_entries' = [hash_entries EXCEPT ![wcur].indirect = TRUE]
    BY <1>6 DEF ReplaceFlag
  <2>2. QED BY <2>1, <1>2, <1>3
<1>7. QED BY <1>4, <1>5, <1>6

LEMMA ReplacingFind ==
  ASSUME TableInv, TableInv', FindInv, Replace \/ ReplaceData \/ ReplaceFlag
  PROVE  FindInv'
<1>1. /\ \A e \in Entries : /\ hash_entries'[e].next = hash_entries[e].next
                            /\ hash_entries'[e].key = hash_entries[e].key
                            /\ hash_entries[e].indirect => hash_entries'[e].indirect
      /\ UNCHANGED <<hash_table, num_entries, crashes, reader>>
      /\ wpc # "publish" /\ wpc' # "publish" /\ Observe
  BY ReplacingKeepsLinks
<1>2. hash_entries' \in [Entries -> Entry]
  BY DEF TableInv, TableTypes
<1>3. Published' = Published /\ \A k \in Key : EntryOf(k)' = EntryOf(k)
  BY <1>1, <1>2, DataChanges
<1>4. Published \subseteq Entries
  BY PublishedFacts DEF TableInv
<1>5. QED BY <1>1, <1>3, <1>4, TableChanges

LEMMA InsertPublishFind ==
  ASSUME TableInv, TableInv', FindInv, InsertPublish
  PROVE  FindInv'
<1>1. /\ wcur \in Entries /\ wcur \notin Published
      /\ Published' = Published \cup {wcur}
      /\ \A k \in Key : EntryOf(k)' = IF k = wkey THEN {wcur} ELSE EntryOf(k)
  BY OneMoreEntry
<1>2. wpc = "publish" /\ UNCHANGED <<hash_entries, reader>> /\ Observe
  BY DEF InsertPublish
<1>3. EntryOf(wkey) = {}
  BY <1>2 DEF TableInv, Searching
<1>4. \A k \in Key : EntryOf(k) = EntryOf(k)' \/ EntryOf(k) = {}
  BY <1>1, <1>3
<1>5. Published \subseteq Published'
  BY <1>1
<1>6. QED BY <1>2, <1>4, <1>5, TableChanges

(* The entry being filled is none that a look-up can meet. *)
LEMMA FilledUnseen ==
  ASSUME TableInv, TableInv', InsertFill
  PROVE  /\ \A e \in Published : hash_entries'[e] = hash_entries[e]
         /\ \A s \in Slot : Chain(s)' = Chain(s)
         /\ Published' = Published
         /\ \A k \in Key : EntryOf(k)' = EntryOf(k) /\ CellOf(k)' = CellOf(k)
<1> USE DEF TableInv
<1>1. /\ hash_table' = hash_table
      /\ \E x : hash_entries' = [hash_entries EXCEPT ![num_entries + 1] = x]
  BY DEF InsertFill
<1>2. num_entries \in Nat /\ Published \subseteq 1..num_entries /\ Published \subseteq Entries
  BY PublishedFacts, HashAssumption DEF TableTypes
<1>3. \A e \in Published : hash_entries'[e] = hash_entries[e]
  <2>1. \A e \in Published : e # num_entries + 1 /\ e \in Entries
    BY <1>2
  <2>2. QED BY <1>1, <2>1 DEF TableTypes
<1>4. Backwards(hash_entries')
  BY DEF Linked
<1>5. /\ \A s \in Slot : Chain(s)' = Chain(s)
      /\ Published' = Published
      /\ \A k \in Key : EntryOf(k)' = EntryOf(k)
  BY <1>1, <1>3, <1>4, SameChains
<1>6. (TableTypes /\ Linked /\ KeysInPlace =>
         \A k \in Key :
           /\ EntryOf(k) = {} => CellOf(k) = 0
           /\ \A e \in EntryOf(k) :
                /\ EntryOf(k) = {e}
                /\ CellOf(k) = IF hash_entries[e].indirect THEN hash_entries[e].data ELSE e)'
  BY CellOfEntry, PTL
<1>7. \A k \in Key : CellOf(k)' = CellOf(k)
  <2> TAKE k \in Key
  <2>1. /\ EntryOf(k) = {} => CellOf(k) = 0
        /\ \A e \in EntryOf(k) :
             CellOf(k) = IF hash_entries[e].indirect THEN hash_entries[e].data ELSE e
    BY CellOfEntry
  <2>3. /\ EntryOf(k)' = {} => CellOf(k)' = 0
        /\ \A e \in EntryOf(k)' :
             CellOf(k)' = IF hash_entries'[e].indirect THEN hash_entries'[e].data ELSE e
    BY <1>6
  <2>4. EntryOf(k)' = EntryOf(k) /\ EntryOf(k) \subseteq Published
    BY <1>5, PublishedFacts
  <2>5. CASE EntryOf(k) = {}
    BY <2>1, <2>3, <2>4, <2>5
  <2>6. ASSUME NEW e \in EntryOf(k) PROVE CellOf(k)' = CellOf(k)
    <3>1. hash_entries'[e] = hash_entries[e]
      BY <1>3, <2>4
    <3>2. QED BY <2>1, <2>3, <2>4, <3>1
  <2>7. QED BY <2>5, <2>6
<1>8. QED BY <1>3, <1>5, <1>7

LEMMA InsertFillFind ==
  ASSUME TableInv, TableInv', FindInv, InsertFill
  PROVE  FindInv'
<1>1. /\ \A e \in Published : hash_entries'[e] = hash_entries[e]
      /\ Published' = Published
      /\ \A k \in Key : EntryOf(k)' = EntryOf(k) /\ CellOf(k)' = CellOf(k)
  BY FilledUnseen
<1>2. UNCHANGED <<rpc, rkey, rcur, rdata, seen, cells>>
  BY DEF InsertFill, reader, history
<1>3. FindTypes'
  BY <1>2 DEF FindInv, FindTypes
<1>4. ASSUME NEW r \in Reader PROVE LookupInv(r)'
  <2>1. CASE rpc[r] = "idle"
    BY <2>1, <1>2 DEF FindInv, LookupInv
  <2>2. CASE rpc[r] # "idle"
    <3>1. Observed(r) /\ Finding(r)
      BY <2>2 DEF FindInv, LookupInv
    <3>2. PICK k \in Key : k = rkey[r]
      BY <3>1 DEF Observed
    <3>3. /\ CellOf(rkey[r])' = CellOf(k)' /\ CellOf(k)' = CellOf(k) /\ CellOf(rkey[r]) = CellOf(k)
          /\ EntryOf(rkey[r])' = EntryOf(k)' /\ EntryOf(k)' = EntryOf(k)
          /\ EntryOf(rkey[r]) = EntryOf(k)
      BY <3>2, <1>1, <1>2
    <3>4. Observed(r)'
      <4>1. \A c \in cells[r] : hash_entries'[c].data \in seen[r]
        BY <3>1, <1>1 DEF Observed
      <4>2. QED BY <3>1, <3>3, <4>1, <1>1, <1>2 DEF Observed
    <3>5. Finding(r)'
      <4>1. ASSUME rcur[r] \in Published \cup {0}
            PROVE  Reach(hash_entries', rcur[r]) = Reach(hash_entries, rcur[r])
        <5>1. Backwards(hash_entries) /\ Backwards(hash_entries') /\ rcur[r] \in Pointer
          BY DEF TableInv, Linked, FindInv, FindTypes
        <5>2. Published \subseteq Entries /\ Closed(hash_entries, Published)
          BY PublishedFacts DEF TableInv, Closed
        <5>3. Reach(hash_entries, rcur[r]) \subseteq Published
          BY <4>1, <5>2, ReachLeast
        <5>4. QED BY <5>1, <5>3, <1>1, ReachSame
      <4>2. EntryOf(rkey[r]) \subseteq Published
        BY <3>2, PublishedFacts DEF TableInv
      <4>3. rpc[r] = "target" => hash_entries'[rcur[r]].indirect
        BY <3>1, <4>2, <1>1 DEF Finding
      <4>4. QED BY <3>1, <3>3, <4>1, <4>3, <1>1, <1>2 DEF Finding
    <3>6. QED BY <3>4, <3>5, <2>2, <1>2 DEF LookupInv
  <2>3. QED BY <2>1, <2>2
<1>5. QED BY <1>3, <1>4 DEF FindInv

-----------------------------------------------------------------------------
(* The steps of a look-up. *)
LEMMA FindBeginFind ==
  ASSUME TableInv, FindInv, NEW r \in Reader, NEW k \in Key, FindBegin(r, k)
  PROVE  FindInv'
<1>1. /\ rpc[r] = "idle" /\ rpc' = [rpc EXCEPT ![r] = "walk"]
      /\ rkey' = [rkey EXCEPT ![r] = k] /\ rcur' = [rcur EXCEPT ![r] = hash_table[SlotOf[k]]]
      /\ cells' = [cells EXCEPT ![r] = {CellOf(k)} \ {0}]
      /\ seen' = [seen EXCEPT ![r] = {ValueOf(CellOf(k))}]
      /\ UNCHANGED <<hash_table, hash_entries, rdata>>
  BY DEF FindBegin, table
<1>2. /\ hash_table[SlotOf[k]] \in Chain(SlotOf[k]) \cup {0}
      /\ hash_table[SlotOf[k]] \in Pointer
      /\ EntryOf(k) \subseteq Reach(hash_entries, hash_table[SlotOf[k]])
  BY HeadReachesAll
<1>3. /\ SlotOf[k] \in Slot /\ Chain(SlotOf[k]) \subseteq Published /\ Published \subseteq Entries
      /\ CellOf(k) \in Published \cup {0} /\ (CellOf(k) = 0 <=> EntryOf(k) = {})
  BY PublishedFacts, CellIsPublished, HashAssumption DEF TableInv
<1>4. /\ Published' = Published
      /\ \A j : EntryOf(j)' = EntryOf(j) /\ CellOf(j)' = CellOf(j)
  BY <1>1, SameTable
<1>5. ValueOf(CellOf(k)) = (IF CellOf(k) = 0 THEN NoData ELSE hash_entries[CellOf(k)].data)
  BY DEF ValueOf
<1>6. ValueOf(CellOf(k)) \in Found
  BY <1>3, <1>5 DEF TableInv, TableTypes, Entry, Found
<1>7. FindTypes'
  <2>1. {CellOf(k)} \ {0} \in SUBSET Entries /\ {ValueOf(CellOf(k))} \in SUBSET Found
    BY <1>3, <1>6
  <2>2. QED BY <1>1, <1>2, <2>1 DEF FindInv, FindTypes
<1>8. ASSUME NEW q \in Reader, q # r PROVE LookupInv(q)'
  <2>1. /\ rpc'[q] = rpc[q] /\ rkey'[q] = rkey[q] /\ rcur'[q] = rcur[q] /\ rdata'[q] = rdata[q]
        /\ cells'[q] = cells[q] /\ seen'[q] = seen[q]
    BY <1>1, <1>8 DEF FindInv, FindTypes
  <2>2. QED BY <2>1, <1>1, LookupRests
<1>9. LookupInv(r)'
  <2>1. /\ rpc'[r] = "walk" /\ rkey'[r] = k /\ rcur'[r] = hash_table[SlotOf[k]]
        /\ cells'[r] = {CellOf(k)} \ {0} /\ seen'[r] = {ValueOf(CellOf(k))}
    BY <1>1 DEF FindInv, FindTypes
  <2>2. CellOf(rkey[r])' = CellOf(k) /\ EntryOf(rkey[r])' = EntryOf(k)
    BY <2>1, <1>4
  <2>3. Observed(r)'
    BY <2>1, <2>2, <1>1, <1>3, <1>4, <1>5 DEF Observed
  <2>4. Finding(r)'
    BY <2>1, <2>2, <1>1, <1>2, <1>3, <1>4 DEF Finding
  <2>5. QED BY <2>1, <2>3, <2>4 DEF LookupInv
<1>10. QED BY <1>7, <1>8, <1>9 DEF FindInv

(* A step of r past its beginning changes at most where r is and what it has. *)
LEMMA LookupStep ==
  ASSUME TableInv, FindInv, NEW r \in Reader, rpc[r] # "idle", rpc'[r] # "idle",
         UNCHANGED <<hash_table, hash_entries, rkey, seen, cells>>,
         \E p : rpc' = [rpc EXCEPT ![r] = p], \E c : rcur' = [rcur EXCEPT ![r] = c],
         \E d : rdata' = [rdata EXCEPT ![r] = d], FindTypes', Finding(r)'
  PROVE  FindInv'
<1>1. ASSUME NEW q \in Reader, q # r PROVE LookupInv(q)'
  <2>1. rpc'[q] = rpc[q] /\ rkey'[q] = rkey[q] /\ rcur'[q] = rcur[q] /\ rdata'[q] = rdata[q]
    BY <1>1 DEF FindInv, FindTypes
  <2>2. QED BY <2>1, LookupRests
<1>2. Observed(r)'
  <2>1. Observed(r)
    BY DEF FindInv, LookupInv
  <2>2. /\ Published' = Published
        /\ \A k : EntryOf(k)' = EntryOf(k) /\ CellOf(k)' = CellOf(k)
    BY SameTable
  <2>3. QED BY <2>1, <2>2 DEF Observed
<1>3. QED BY <1>1, <1>2 DEF FindInv, LookupInv

LEMMA FindWalkFind ==
  ASSUME TableInv, FindInv, NEW r \in Reader, FindWalk(r)
  PROVE  FindInv'
<1>1. /\ rpc[r] = "walk" /\ UNCHANGED <<hash_table, hash_entries, rkey, seen, cells>>
      /\ UNCHANGED <<table, writer, shadowed>>
  BY DEF FindWalk, table, history
<1>2. Observed(r) /\ Finding(r)
  BY <1>1 DEF FindInv, LookupInv
<1>3. PICK k \in Key : k = rkey[r]
  BY <1>2 DEF Observed
<1>4. /\ Published \subseteq Entries
      /\ \A e \in Published : hash_entries[e].next \in Published \cup {0}
      /\ \A e \in Published : hash_entries[e].key \in Key /\ e \in EntryOf(hash_entries[e].key)
  BY PublishedFacts, EntryOfKey DEF TableInv
<1>5. /\ rcur[r] \in Published \cup {0} /\ rcur[r] \in Pointer
      /\ NoData \in seen[r] \/ EntryOf(k) \subseteq Reach(hash_entries, rcur[r])
  BY <1>1, <1>2, <1>3 DEF Finding, FindInv, FindTypes
<1>6. /\ Published' = Published
      /\ \A j : EntryOf(j)' = EntryOf(j) /\ CellOf(j)' = CellOf(j)
  BY <1>1, SameTable
<1>7. CASE rcur[r] = 0
  <2>1. /\ rdata' = [rdata EXCEPT ![r] = NoData] /\ rpc' = [rpc EXCEPT ![r] = "done"]
        /\ rcur' = rcur
    BY <1>7, <1>1 DEF FindWalk
  <2>2. FindTypes' /\ rpc'[r] = "done" /\ rdata'[r] = NoData
    BY <2>1, <1>1 DEF FindInv, FindTypes, Found
  <2>3. NoData \in seen[r]
    <3>1. EntryOf(k) = {} => NoData \in seen[r]
      BY <1>2, <1>3, CellOfEntry DEF Observed, TableInv
    <3>2. QED BY <3>1, <1>5, <1>7, ReachNull
  <2>4. Finding(r)'
    BY <2>2, <2>3, <1>1 DEF Finding
  <2>5. rcur' = [rcur EXCEPT ![r] = rcur[r]]
    BY <2>1 DEF FindInv, FindTypes
  <2>6. QED BY <2>1, <2>2, <2>4, <2>5, <1>1, LookupStep
<1>8. CASE rcur[r] # 0 /\ hash_entries[rcur[r]].key = rkey[r]
  <2>1. /\ rpc' = [rpc EXCEPT ![r] = "kind"] /\ rcur' = rcur /\ rdata' = rdata
    BY <1>8, <1>1 DEF FindWalk
  <2>2. FindTypes' /\ rpc'[r] = "kind"
    BY <2>1, <1>1 DEF FindInv, FindTypes
  <2>3. rcur[r] \in EntryOf(rkey[r])
    BY <1>4, <1>5, <1>8
  <2>4. Finding(r)'
    BY <2>1, <2>2, <2>3, <1>1, <1>6 DEF Finding
  <2>5. rcur' = [rcur EXCEPT ![r] = rcur[r]] /\ rdata' = [rdata EXCEPT ![r] = rdata[r]]
    BY <2>1 DEF FindInv, FindTypes
  <2>6. QED BY <2>1, <2>2, <2>4, <2>5, <1>1, LookupStep
<1>9. CASE rcur[r] # 0 /\ hash_entries[rcur[r]].key # rkey[r]
  <2> DEFINE n == hash_entries[rcur[r]].next
  <2>1. rcur' = [rcur EXCEPT ![r] = n] /\ rpc' = rpc /\ rdata' = rdata
    BY <1>9, <1>1 DEF FindWalk, NextOf
  <2>2. n \in Published \cup {0} /\ n \in Pointer /\ rcur[r] \in Entries
    <3>1. rcur[r] \in Published
      BY <1>5, <1>9
    <3>2. n \in Published \cup {0} /\ rcur[r] \in Entries
      BY <3>1, <1>4
    <3>3. Published \subseteq Pointer /\ 0 \in Pointer
      BY <1>4, HashAssumption
    <3>4. QED BY <3>2, <3>3, Zenon
  <2> HIDE DEF n
  <2>3. FindTypes' /\ rpc'[r] = "walk" /\ rcur'[r] = n
    BY <2>1, <2>2, <1>1 DEF FindInv, FindTypes
  <2>4. NoData \in seen[r] \/ EntryOf(rkey[r]) \subseteq Reach(hash_entries, n)
    <3>1. Reach(hash_entries, rcur[r]) = {rcur[r]} \cup Reach(hash_entries, n)
      BY <2>2, ReachStep DEF TableInv, Linked, n
    <3>2. rcur[r] \notin EntryOf(rkey[r])
      BY <1>9 DEF EntryOf
    <3>3. QED BY <3>1, <3>2, <1>3, <1>5
  <2>5. Finding(r)'
    BY <2>1, <2>2, <2>3, <2>4, <1>1, <1>6 DEF Finding
  <2>6. rpc' = [rpc EXCEPT ![r] = rpc[r]] /\ rdata' = [rdata EXCEPT ![r] = rdata[r]]
    BY <2>1 DEF FindInv, FindTypes
  <2>7. QED BY <2>1, <2>3, <2>5, <2>6, <1>1, LookupStep
<1>10. QED BY <1>7, <1>8, <1>9

(* An entry is a name: then it stays one, and its target is the cell. *)
LEMMA FindKindFind ==
  ASSUME TableInv, FindInv, NEW r \in Reader, FindKind(r)
  PROVE  FindInv'
<1> DEFINE p == IF hash_entries[rcur[r]].indirect THEN "target" ELSE "data"
<1>1. /\ rpc[r] = "kind" /\ UNCHANGED <<hash_table, hash_entries, rkey, rcur, rdata, seen, cells>>
      /\ rpc' = [rpc EXCEPT ![r] = p]
  BY DEF FindKind, table, history
<1>2. Observed(r) /\ rcur[r] \in EntryOf(rkey[r])
  BY <1>1 DEF FindInv, LookupInv, Finding
<1>3. FindTypes' /\ rpc'[r] = p /\ rpc'[r] # "idle"
  BY <1>1 DEF FindInv, FindTypes
<1>4. \A j : EntryOf(j)' = EntryOf(j)
  BY <1>1, SameTable
<1>5. ~hash_entries[rcur[r]].indirect => rcur[r] \in cells[r]
  <2>1. rkey[r] \in Key /\ CellOf(rkey[r]) \in cells[r] \cup {0}
    BY <1>2 DEF Observed
  <2>2. rcur[r] # 0
    BY <1>2, <2>1, PublishedFacts DEF TableInv
  <2>3. ~hash_entries[rcur[r]].indirect => CellOf(rkey[r]) = rcur[r]
    BY <1>2, <2>1, CellOfEntry DEF TableInv
  <2>4. QED BY <2>1, <2>2, <2>3
<1>6. Finding(r)'
  BY <1>1, <1>2, <1>3, <1>4, <1>5 DEF Finding
<1>7. rcur' = [rcur EXCEPT ![r] = rcur[r]] /\ rdata' = [rdata EXCEPT ![r] = rdata[r]]
  BY <1>1 DEF FindInv, FindTypes
<1> HIDE DEF p
<1>8. QED BY <1>1, <1>3, <1>6, <1>7, LookupStep

LEMMA FindTargetFind ==
  ASSUME TableInv, FindInv, NEW r \in Reader, FindTarget(r)
  PROVE  FindInv'
<1> DEFINE c == hash_entries[rcur[r]].data
<1>1. /\ rpc[r] = "target" /\ UNCHANGED <<hash_table, hash_entries, rkey, rdata, seen, cells>>
      /\ rpc' = [rpc EXCEPT ![r] = "data"] /\ rcur' = [rcur EXCEPT ![r] = c]
  BY DEF FindTarget, Followed, table, history
<1>2. Observed(r) /\ rcur[r] \in EntryOf(rkey[r]) /\ hash_entries[rcur[r]].indirect
  BY <1>1 DEF FindInv, LookupInv, Finding
<1>3. c \in cells[r] /\ c \in Pointer
  <2>1. rkey[r] \in Key /\ CellOf(rkey[r]) \in cells[r] \cup {0} /\ cells[r] \subseteq Entries
    BY <1>2 DEF Observed, FindInv, FindTypes
  <2>2. CellOf(rkey[r]) = c
    BY <1>2, <2>1, CellOfEntry DEF TableInv
  <2>3. c # 0
    BY <1>2, <2>1, <2>2, CellIsPublished DEF TableInv
  <2>4. QED BY <2>1, <2>2, <2>3
<1> HIDE DEF c
<1>4. FindTypes' /\ rpc'[r] = "data" /\ rcur'[r] = c
  BY <1>1, <1>3 DEF FindInv, FindTypes
<1>5. Finding(r)'
  BY <1>1, <1>3, <1>4 DEF Finding
<1>6. rdata' = [rdata EXCEPT ![r] = rdata[r]]
  BY <1>1 DEF FindInv, FindTypes
<1>7. QED BY <1>1, <1>4, <1>5, <1>6, LookupStep

LEMMA FindDataFind ==
  ASSUME TableInv, FindInv, NEW r \in Reader, FindData(r)
  PROVE  FindInv'
<1> DEFINE d == hash_entries[rcur[r]].data
<1>1. /\ rpc[r] = "data" /\ UNCHANGED <<hash_table, hash_entries, rkey, rcur, seen, cells>>
      /\ rpc' = [rpc EXCEPT ![r] = "done"] /\ rdata' = [rdata EXCEPT ![r] = d]
  BY DEF FindData, table, history
<1>2. d \in seen[r] /\ d \in Found
  BY <1>1 DEF FindInv, FindTypes, LookupInv, Observed, Finding
<1> HIDE DEF d
<1>3. FindTypes' /\ rpc'[r] = "done" /\ rdata'[r] = d
  BY <1>1, <1>2 DEF FindInv, FindTypes
<1>4. Finding(r)'
  BY <1>1, <1>2, <1>3 DEF Finding
<1>5. rcur' = [rcur EXCEPT ![r] = rcur[r]]
  BY <1>1 DEF FindInv, FindTypes
<1>6. QED BY <1>1, <1>3, <1>4, <1>5, LookupStep

LEMMA FindReturnFind ==
  ASSUME TableInv, FindInv, NEW r \in Reader, FindReturn(r)
  PROVE  FindInv'
<1>1. /\ UNCHANGED <<hash_table, hash_entries>>
      /\ rpc' = [rpc EXCEPT ![r] = "idle"] /\ rkey' = [rkey EXCEPT ![r] = NoKey]
      /\ rcur' = [rcur EXCEPT ![r] = 0] /\ rdata' = [rdata EXCEPT ![r] = NoData]
      /\ seen' = [seen EXCEPT ![r] = {}] /\ cells' = [cells EXCEPT ![r] = {}]
  BY DEF FindReturn, table
<1>2. FindTypes'
  BY <1>1, HashAssumption DEF FindInv, FindTypes, Found
<1>3. ASSUME NEW q \in Reader, q # r PROVE LookupInv(q)'
  <2>1. /\ rpc'[q] = rpc[q] /\ rkey'[q] = rkey[q] /\ rcur'[q] = rcur[q] /\ rdata'[q] = rdata[q]
        /\ cells'[q] = cells[q] /\ seen'[q] = seen[q]
    BY <1>1, <1>3 DEF FindInv, FindTypes
  <2>2. QED BY <2>1, <1>1, LookupRests
<1>4. LookupInv(r)'
  BY <1>1 DEF FindInv, FindTypes, LookupInv
<1>5. QED BY <1>2, <1>3, <1>4 DEF FindInv

LEMMA FindInvStep == TableInv /\ TableInv' /\ FindInv /\ [Next]_vars => FindInv'
<1> SUFFICES ASSUME TableInv, TableInv', FindInv, [Next]_vars PROVE FindInv'
  OBVIOUS
<1>1. ASSUME NEW k \in Key, NEW r \in Reader, FindBegin(r, k) PROVE FindInv'
  BY <1>1, FindBeginFind
<1>2. ASSUME NEW r \in Reader, FindStep(r) PROVE FindInv'
  BY <1>2, FindWalkFind, FindKindFind, FindTargetFind, FindDataFind, FindReturnFind DEF FindStep
<1>3. CASE UNCHANGED <<hash_table, hash_entries, reader, seen, cells>>
  BY <1>3, LookupsRest
<1>4. ASSUME NEW k \in Key, NEW x, UpdateDirect(k, x) \/ UpdateIndirect(k, x) PROVE FindInv'
  BY <1>3, <1>4 DEF UpdateDirect, UpdateIndirect, table, history
<1>5. CASE Update
  <2>1. CASE ResolveBucket \/ SearchNext \/ InsertFull
    BY <1>3, <2>1 DEF ResolveBucket, SearchNext, InsertFull, table, history
  <2>2. CASE Replace \/ ReplaceData \/ ReplaceFlag
    BY <2>2, ReplacingFind
  <2>3. CASE InsertFill
    BY <2>3, InsertFillFind
  <2>4. CASE InsertPublish
    BY <2>4, InsertPublishFind
  <2>5. QED BY <1>5, <2>1, <2>2, <2>3, <2>4 DEF Update, Insert
<1>6. CASE Clean
  <2>1. UNCHANGED <<rpc, rkey, rcur, rdata, seen, cells>> /\ \A r \in Reader : rpc[r] = "idle"
    BY <1>6 DEF Clean, reader
  <2>2. QED BY <2>1 DEF FindInv, FindTypes, LookupInv
<1>7. CASE Crash
  BY <1>3, <1>7 DEF Crash, table, history
<1>8. CASE UNCHANGED vars
  BY <1>3, <1>8 DEF vars, table, history
<1>9. QED BY <1>1, <1>2, <1>4, <1>5, <1>6, <1>7, <1>8 DEF Next

(* "zend_accel_hash_find() does not [require the lock]": a look-up returns    *)
(* what a cell of its key held while it ran, or NULL if there was none at     *)
(* some moment, whatever the holder of the lock stored, added or renamed.     *)
THEOREM LookupsReturnValues == Spec => []FindReturnsAValue
<1>1. FindInv => FindReturnsAValue
  BY DEF FindInv, LookupInv, Finding, FindReturnsAValue
<1>2. QED BY <1>1, TableInit, TableStep, FindInit, FindInvStep, PTL DEF Spec

(* "'indirect' entries, that point to other entries": a name leads to an      *)
(* entry with data, as the look-up of a script relies on, until an entry with *)
(* data is made a name of another one.                                       *)
THEOREM NamesLeadToData == Spec => [](~shadowed => NamesPointToData)
<1>1. TableInv => (~shadowed => NamesPointToData)
  BY DEF TableInv, Names
<1>2. QED BY <1>1, TableInit, TableStep, PTL DEF Spec

-----------------------------------------------------------------------------
(* Types. *)
Bounded == updates \in 0..MaxUpdates

LEMMA BoundTypes == (Init => Bounded) /\ (Bounded /\ [Next]_vars => Bounded')
<1> USE DEF Bounded
<1>1. Init => Bounded
  BY HashAssumption DEF Init
<1>2. ASSUME Bounded, [Next]_vars PROVE Bounded'
  <2>1. updates' = updates \/ (updates < MaxUpdates /\ updates' = updates + 1)
    BY <1>2 DEF vars, Next, UpdateDirect, UpdateIndirect, Usable, FindBegin, FindStep, FindWalk,
       FindKind, FindTarget, FindData, FindReturn, Update, ResolveBucket, SearchNext, Replace,
       ReplaceData, ReplaceFlag, Insert, InsertFull, InsertFill, InsertPublish, Clean, Crash
  <2>2. QED BY <1>2, <2>1, HashAssumption
<1>3. QED BY <1>1, <1>2

(* Every variable has its type; in particular a walk never leaves the entries, *)
(* and the count of entries with data stays between 0 and the size.            *)
THEOREM TypesAreRight == Spec => []TypeOK
<1>1. TableInv /\ FindInv /\ Bounded => TypeOK
  <2> SUFFICES ASSUME TableInv, FindInv, Bounded PROVE TypeOK
    OBVIOUS
  <2>1. num_direct_entries \in Pointer
    BY HashAssumption DEF TableInv, TableTypes
  <2>2. QED BY <2>1 DEF TypeOK, TableInv, TableTypes, FindInv, FindTypes, Found, Bounded
<1>2. QED BY <1>1, TableInit, TableStep, FindInit, FindInvStep, BoundTypes, PTL DEF Spec

-----------------------------------------------------------------------------
(* The table implements the map. *)
MappedCell(k) == IF shadowed THEN 0 ELSE CellOf(k)
MappedValue(e) == IF ~shadowed /\ e \in HoldData THEN hash_entries[e].data ELSE NoData

LEMMA CellFacts ==
  TableInv =>
    \A k \in Key :
      /\ EntryOf(k) = {} => CellOf(k) = 0
      /\ \A e \in EntryOf(k) :
           CellOf(k) = IF hash_entries[e].indirect THEN hash_entries[e].data ELSE e
BY CellOfEntry DEF TableInv

LEMMA MapInit == Init => Alias!Init
<1> SUFFICES ASSUME Init PROVE Alias!Init
  OBVIOUS
<1>1. TableInv
  BY TableInit
<1>2. /\ \A s \in Slot : hash_table[s] = 0
      /\ 0 \in Pointer /\ Backwards(hash_entries)
  BY <1>1, HashAssumption DEF Init, TableInv, Linked
<1>3. \A s \in Slot : Chain(s) = {}
  BY <1>1, <1>2, ChainIsReach, ReachNull DEF TableInv
<1>4. \A k \in Key : EntryOf(k) = {}
  BY <1>3, HashAssumption DEF EntryOf
<1>5. \A k \in Key : CellOf(k) = 0
  BY <1>4 DEF CellOf
<1>6. HoldData = {}
  BY <1>3 DEF HoldData, Published
<1>7. QED BY <1>5, <1>6 DEF Alias!Init

LEMMA MapStutters ==
  ASSUME \A k \in Key : MappedCell(k)' = MappedCell(k),
         \A e \in Entries : MappedValue(e)' = MappedValue(e)
  PROVE  UNCHANGED Alias!vars
BY DEF Alias!vars, MappedCell, MappedValue

LEMMA MapStore ==
  ASSUME NEW k \in Key, NEW d \in Data, MappedCell(k) \in Entries,
         \A j \in Key : MappedCell(j)' = MappedCell(j),
         \A e \in Entries : MappedValue(e)' = IF e = MappedCell(k) THEN d ELSE MappedValue(e)
  PROVE  Alias!Next
<1> DEFINE c == [j \in Key |-> MappedCell(j)]
           v == [e \in Entries |-> MappedValue(e)]
<1>1. c[k] = MappedCell(k) /\ c[k] # 0 /\ c[k] \in Entries
  BY HashAssumption
<1>2. [j \in Key |-> MappedCell(j)'] = c
  OBVIOUS
<1>3. [e \in Entries |-> MappedValue(e)'] = [v EXCEPT ![c[k]] = d]
  BY <1>1
<1>4. Alias!Store(k, d)
  BY <1>1, <1>2, <1>3 DEF Alias!Store, MappedCell, MappedValue
<1>5. QED BY <1>4 DEF Alias!Next

LEMMA MapInsert ==
  ASSUME NEW k \in Key, NEW c \in Entries, NEW d \in Data,
         MappedCell(k) = 0, MappedValue(c) = NoData,
         \A j \in Key : MappedCell(j)' = IF j = k THEN c ELSE MappedCell(j),
         \A e \in Entries : MappedValue(e)' = IF e = c THEN d ELSE MappedValue(e)
  PROVE  Alias!Next
<1>1. Alias!Insert(k, c, d)
  BY DEF Alias!Insert, MappedCell, MappedValue
<1>2. QED BY <1>1 DEF Alias!Next

LEMMA MapAlias ==
  ASSUME NEW k \in Key, NEW l \in Key, MappedCell(l) # 0,
         \A j \in Key : MappedCell(j)' = IF j = k THEN MappedCell(l) ELSE MappedCell(j),
         \A e \in Entries : MappedValue(e)' = MappedValue(e)
  PROVE  Alias!Next
<1>1. Alias!Alias(k, l)
  BY DEF Alias!Alias, MappedCell, MappedValue
<1>2. QED BY <1>1 DEF Alias!Next

LEMMA MapClean ==
  ASSUME \A j \in Key : MappedCell(j)' = 0, \A e \in Entries : MappedValue(e)' = NoData
  PROVE  Alias!Next
<1>1. Alias!Clean
  BY DEF Alias!Clean, Alias!Init, MappedCell, MappedValue
<1>2. QED BY <1>1 DEF Alias!Next

(* What a replacing update does to the map. *)
LEMMA ReplaceMaps ==
  ASSUME TableInv, TableInv', Replace
  PROVE  Alias!Next
<1> DEFINE t == IF windirect THEN wcur ELSE StoreAt(wcur)
<1>0. /\ wpc = "search" /\ wcur # 0 /\ hash_entries[wcur].key = wkey
      /\ ~windirect \/ hash_entries[wcur].indirect
      /\ hash_entries' = [hash_entries EXCEPT ![t].data = wdata]
      /\ shadowed' = shadowed
  BY DEF Replace
<1>1. /\ wkey \in Key /\ wcur \in EntryOf(wkey) /\ wcur \in Published /\ ~shadowed
      /\ windirect => wdata \in Published /\ ~hash_entries[wdata].indirect
      /\ ~windirect => wdata \in Data
      /\ StoreAt(wcur) \in Published /\ ~hash_entries[StoreAt(wcur)].indirect
  BY <1>0, FoundEntry
<1>2. /\ t \in Published /\ t \in Entries /\ Published \subseteq Entries
      /\ IF windirect THEN hash_entries[t].indirect ELSE ~hash_entries[t].indirect
  BY <1>0, <1>1, PublishedFacts DEF TableInv
<1>3. (windirect => t = wcur) /\ (~windirect => t = StoreAt(wcur))
  OBVIOUS
<1> HIDE DEF t
<1>4. /\ hash_entries' \in [Entries -> Entry]
      /\ \A e \in Entries : /\ hash_entries'[e].indirect = hash_entries[e].indirect
                            /\ e # t => hash_entries'[e] = hash_entries[e]
      /\ hash_entries'[t].data = wdata
  BY <1>0, <1>2 DEF TableInv, TableTypes, Entry
<1>5. Published' = Published /\ \A k \in Key : EntryOf(k)' = EntryOf(k)
  <2>1. \A e \in Entries : /\ hash_entries'[e].next = hash_entries[e].next
                           /\ hash_entries'[e].key = hash_entries[e].key
    BY ReplacingKeepsLinks
  <2>2. UNCHANGED <<hash_table, num_entries, crashes>> /\ wpc # "publish" /\ wpc' # "publish"
    BY ReplacingKeepsLinks
  <2>3. QED BY <2>1, <2>2, <1>4, DataChanges
<1>6. HoldData' = HoldData
  BY <1>2, <1>4, <1>5 DEF HoldData
<1>7. /\ \A k \in Key : EntryOf(k) \subseteq Published
      /\ \A e \in Published : hash_entries[e].key \in Key /\ e \in EntryOf(hash_entries[e].key)
      /\ \A k \in Key : \A e \in EntryOf(k) : e \in EntryOf(wkey) => k = wkey
  BY PublishedFacts, EntryOfKey DEF TableInv, EntryOf
<1>8. TableInv => \A k \in Key :
          /\ EntryOf(k) = {} => CellOf(k) = 0
          /\ \A e \in EntryOf(k) :
               CellOf(k) = IF hash_entries[e].indirect THEN hash_entries[e].data ELSE e
  BY CellFacts
<1>9. (TableInv => \A k \in Key :
          /\ EntryOf(k) = {} => CellOf(k) = 0
          /\ \A e \in EntryOf(k) :
               CellOf(k) = IF hash_entries[e].indirect THEN hash_entries[e].data ELSE e)'
  BY CellFacts, PTL
<1>10. \A e \in Entries :
         MappedValue(e)' = IF ~windirect /\ e = t THEN wdata ELSE MappedValue(e)
  <2> TAKE e \in Entries
  <2>1. t \in HoldData <=> ~windirect
    BY <1>2 DEF HoldData
  <2>2. MappedValue(e)' = IF e \in HoldData THEN hash_entries'[e].data ELSE NoData
    BY <1>0, <1>1, <1>6 DEF MappedValue
  <2>3. MappedValue(e) = IF e \in HoldData THEN hash_entries[e].data ELSE NoData
    BY <1>1 DEF MappedValue
  <2>4. CASE e = t
    BY <2>1, <2>2, <2>3, <2>4, <1>4
  <2>5. CASE e # t
    BY <2>2, <2>3, <2>5, <1>4
  <2>6. QED BY <2>4, <2>5
<1>11. CASE ~windirect
  <2>1. ASSUME NEW k \in Key PROVE CellOf(k)' = CellOf(k)
    <3>1. CASE EntryOf(k) = {}
      BY <3>1, <1>5, <1>8, <1>9
    <3>2. ASSUME NEW e \in EntryOf(k) PROVE CellOf(k)' = CellOf(k)
      <4>1. e \in Entries /\ EntryOf(k)' = EntryOf(k)
        BY <1>2, <1>5, <1>7
      <4>2. hash_entries[e].indirect => hash_entries'[e] = hash_entries[e]
        BY <4>1, <1>2, <1>4, <1>11
      <4>3. CellOf(k) = IF hash_entries[e].indirect THEN hash_entries[e].data ELSE e
        BY <1>8
      <4>4. CellOf(k)' = IF hash_entries'[e].indirect THEN hash_entries'[e].data ELSE e
        BY <4>1, <1>9
      <4>5. hash_entries'[e].indirect = hash_entries[e].indirect
        BY <4>1, <1>4
      <4>6. QED BY <4>2, <4>3, <4>4, <4>5
    <3>3. QED BY <3>1, <3>2
  <2>2. \A k \in Key : MappedCell(k)' = MappedCell(k)
    BY <2>1, <1>0, <1>1 DEF MappedCell
  <2>3. MappedCell(wkey) = t
    <3>1. CellOf(wkey) = IF hash_entries[wcur].indirect THEN hash_entries[wcur].data ELSE wcur
      BY <1>1, <1>8
    <3>2. QED BY <3>1, <1>1, <1>3, <1>11 DEF MappedCell, StoreAt
  <2>4. QED
    <3>1. PICK k \in Key, d \in Data : k = wkey /\ d = wdata
      BY <1>1, <1>11
    <3>2. /\ MappedCell(k) \in Entries
          /\ \A e \in Entries : MappedValue(e)' = IF e = MappedCell(k) THEN d ELSE MappedValue(e)
      BY <3>1, <2>3, <1>2, <1>10, <1>11
    <3>3. QED BY <3>2, <2>2, MapStore
<1>12. CASE windirect
  <2>1. /\ wdata \in Published /\ ~hash_entries[wdata].indirect /\ t = wcur
        /\ hash_entries[wcur].indirect /\ wdata \in Entries
    BY <1>0, <1>1, <1>2, <1>3, <1>12
  <2>2. PICK l \in Key : l = hash_entries[wdata].key
    BY <2>1, <1>7
  <2>3. PICK k \in Key : k = wkey
    BY <1>1
  <2>4. CellOf(l) = wdata
    BY <2>1, <2>2, <1>7, <1>8
  <2>5. CellOf(k)' = wdata
    <3>1. wcur \in EntryOf(k)'
      BY <2>3, <1>1, <1>5
    <3>2. CellOf(k)' = IF hash_entries'[wcur].indirect THEN hash_entries'[wcur].data ELSE wcur
      BY <3>1, <1>9
    <3>3. QED BY <3>2, <2>1, <1>2, <1>4
  <2>6. ASSUME NEW j \in Key, j # k PROVE CellOf(j)' = CellOf(j)
    <3>1. CASE EntryOf(j) = {}
      BY <3>1, <1>5, <1>8, <1>9
    <3>2. ASSUME NEW e \in EntryOf(j) PROVE CellOf(j)' = CellOf(j)
      <4>1. e \in Entries /\ e # wcur /\ EntryOf(j)' = EntryOf(j)
        BY <2>3, <2>6, <1>1, <1>2, <1>5, <1>7
      <4>2. hash_entries'[e] = hash_entries[e]
        BY <4>1, <2>1, <1>4
      <4>3. CellOf(j) = IF hash_entries[e].indirect THEN hash_entries[e].data ELSE e
        BY <1>8
      <4>4. CellOf(j)' = IF hash_entries'[e].indirect THEN hash_entries'[e].data ELSE e
        BY <4>1, <1>9
      <4>5. QED BY <4>2, <4>3, <4>4
    <3>3. QED BY <3>1, <3>2
  <2>7. MappedCell(l) # 0 /\ MappedCell(l) = wdata
    BY <2>1, <2>4, <1>1, HashAssumption DEF MappedCell
  <2>8. \A j \in Key : MappedCell(j)' = IF j = k THEN MappedCell(l) ELSE MappedCell(j)
    BY <2>5, <2>6, <2>7, <1>0, <1>1 DEF MappedCell
  <2>9. \A e \in Entries : MappedValue(e)' = MappedValue(e)
    BY <1>10, <1>12
  <2>10. QED BY <2>7, <2>8, <2>9, MapAlias
<1>13. QED BY <1>11, <1>12

LEMMA InsertPublishMaps ==
  ASSUME TableInv, TableInv', InsertPublish
  PROVE  Alias!Next
<1>0. wpc = "publish" /\ UNCHANGED <<hash_entries, shadowed, windirect, wdata, wcur, wkey>>
  BY DEF InsertPublish
<1>1. /\ wcur \in Entries /\ wcur \notin Published
      /\ Published' = Published \cup {wcur}
      /\ \A k \in Key : EntryOf(k)' = IF k = wkey THEN {wcur} ELSE EntryOf(k)
  BY OneMoreEntry
<1>2. /\ wkey \in Key /\ EntryOf(wkey) = {} /\ ~shadowed
      /\ hash_entries[wcur].key = wkey /\ hash_entries[wcur].indirect = windirect
      /\ hash_entries[wcur].data = wdata
      /\ windirect => wdata \in Published /\ ~hash_entries[wdata].indirect
      /\ ~windirect => wdata \in Data
  BY <1>0 DEF TableInv, Searching, Names
<1>3. TableInv => \A k \in Key :
          /\ EntryOf(k) = {} => CellOf(k) = 0
          /\ \A e \in EntryOf(k) :
               CellOf(k) = IF hash_entries[e].indirect THEN hash_entries[e].data ELSE e
  BY CellFacts
<1>4. (TableInv => \A k \in Key :
          /\ EntryOf(k) = {} => CellOf(k) = 0
          /\ \A e \in EntryOf(k) :
               CellOf(k) = IF hash_entries[e].indirect THEN hash_entries[e].data ELSE e)'
  BY CellFacts, PTL
<1>5. PICK k \in Key : k = wkey
  BY <1>2
<1>6. ASSUME NEW j \in Key, j # k PROVE CellOf(j)' = CellOf(j)
  <2>1. EntryOf(j)' = EntryOf(j)
    BY <1>1, <1>5, <1>6
  <2>2. CASE EntryOf(j) = {}
    BY <2>1, <2>2, <1>3, <1>4
  <2>3. ASSUME NEW e \in EntryOf(j) PROVE CellOf(j)' = CellOf(j)
    BY <2>1, <1>0, <1>3, <1>4
  <2>4. QED BY <2>2, <2>3
<1>7. CellOf(k) = 0 /\ CellOf(k)' = IF windirect THEN wdata ELSE wcur
  <2>1. EntryOf(k) = {} /\ wcur \in EntryOf(k)'
    BY <1>1, <1>2, <1>5
  <2>2. CellOf(k)' = IF hash_entries'[wcur].indirect THEN hash_entries'[wcur].data ELSE wcur
    BY <2>1, <1>4
  <2>3. QED BY <2>1, <2>2, <1>0, <1>2, <1>3
<1>8. \A j \in Key : MappedCell(j)' = IF j = k THEN (IF windirect THEN wdata ELSE wcur)
                                      ELSE MappedCell(j)
  BY <1>0, <1>2, <1>6, <1>7 DEF MappedCell
<1>9. \A e \in Entries : MappedValue(e)' =
        IF e = wcur /\ ~windirect THEN wdata ELSE MappedValue(e)
  <2> TAKE e \in Entries
  <2>1. e \in HoldData' <=> e \in HoldData \/ (e = wcur /\ ~windirect)
    BY <1>0, <1>1, <1>2 DEF HoldData
  <2>2. wcur \notin HoldData
    BY <1>1 DEF HoldData
  <2>3. MappedValue(e)' = IF e \in HoldData' THEN hash_entries[e].data ELSE NoData
    BY <1>0, <1>2 DEF MappedValue
  <2>4. MappedValue(e) = IF e \in HoldData THEN hash_entries[e].data ELSE NoData
    BY <1>2 DEF MappedValue
  <2>5. CASE e = wcur /\ ~windirect
    BY <2>1, <2>3, <2>5, <1>2
  <2>6. CASE ~(e = wcur /\ ~windirect)
    <3>1. e \in HoldData' <=> e \in HoldData
      BY <2>1, <2>6
    <3>2. QED BY <3>1, <2>3, <2>4, <2>6
  <2>7. QED BY <2>5, <2>6
<1>10. CASE windirect
  <2>1. wdata \in Published /\ ~hash_entries[wdata].indirect /\ wdata # 0
    BY <1>2, <1>10, PublishedFacts, HashAssumption DEF TableInv
  <2>2. hash_entries[wdata].key \in Key /\ wdata \in EntryOf(hash_entries[wdata].key)
    BY <2>1, EntryOfKey DEF TableInv
  <2>3. PICK l \in Key : l = hash_entries[wdata].key
    BY <2>2
  <2>4. CellOf(l) = wdata
    BY <2>1, <2>2, <2>3, <1>3
  <2>5. MappedCell(l) # 0 /\ MappedCell(l) = wdata
    BY <2>1, <2>4, <1>2 DEF MappedCell
  <2>6. \A j \in Key : MappedCell(j)' = IF j = k THEN MappedCell(l) ELSE MappedCell(j)
    BY <2>5, <1>8, <1>10
  <2>7. \A e \in Entries : MappedValue(e)' = MappedValue(e)
    BY <1>9, <1>10
  <2>8. QED BY <2>5, <2>6, <2>7, MapAlias
<1>11. CASE ~windirect
  <2>1. PICK c \in Entries, d \in Data : c = wcur /\ d = wdata
    BY <1>1, <1>2, <1>11
  <2>2. MappedCell(k) = 0
    BY <1>2, <1>7 DEF MappedCell
  <2>3. MappedValue(c) = NoData
    BY <2>1, <1>1 DEF MappedValue, HoldData
  <2>4. /\ \A j \in Key : MappedCell(j)' = IF j = k THEN c ELSE MappedCell(j)
        /\ \A e \in Entries : MappedValue(e)' = IF e = c THEN d ELSE MappedValue(e)
    BY <2>1, <1>8, <1>9, <1>11
  <2>5. QED BY <2>2, <2>3, <2>4, MapInsert
<1>12. QED BY <1>10, <1>11

(* Every step of the table is a step of the map, or none. *)
LEMMA MapStep ==
  ASSUME TableInv, TableInv', [Next]_vars
  PROVE  [Alias!Next]_(Alias!vars)
<1>1. CASE UNCHANGED <<hash_table, hash_entries, shadowed>>
  <2>1. HoldData' = HoldData /\ \A k : CellOf(k)' = CellOf(k)
    BY <1>1, SameTable
  <2>2. /\ \A k \in Key : MappedCell(k)' = MappedCell(k)
        /\ \A e \in Entries : MappedValue(e)' = MappedValue(e)
    BY <1>1, <2>1 DEF MappedCell, MappedValue
  <2>3. QED BY <2>2, MapStutters
<1>2. CASE Replace
  BY <1>2, ReplaceMaps
<1>3. CASE InsertPublish
  BY <1>3, InsertPublishMaps
<1>4. CASE InsertFill
  <2>1. /\ \A e \in Published : hash_entries'[e] = hash_entries[e]
        /\ Published' = Published /\ \A k \in Key : CellOf(k)' = CellOf(k)
    BY <1>4, FilledUnseen
  <2>2. shadowed' = shadowed
    BY <1>4 DEF InsertFill, history
  <2>3. HoldData' = HoldData
    BY <2>1 DEF HoldData
  <2>4. /\ \A k \in Key : MappedCell(k)' = MappedCell(k)
        /\ \A e \in Entries : MappedValue(e)' = MappedValue(e)
    BY <2>1, <2>2, <2>3 DEF MappedCell, MappedValue, HoldData
  <2>5. QED BY <2>4, MapStutters
<1>5. CASE ReplaceData
  <2>1. shadowed' = TRUE
    BY <1>5 DEF ReplaceData
  <2>2. /\ \A k \in Key : MappedCell(k)' = 0
        /\ \A e \in Entries : MappedValue(e)' = NoData
    BY <2>1 DEF MappedCell, MappedValue
  <2>3. QED BY <2>2, MapClean
<1>6. CASE ReplaceFlag
  <2>1. shadowed /\ shadowed' = shadowed
    BY <1>6 DEF ReplaceFlag, TableInv, Names
  <2>2. /\ \A k \in Key : MappedCell(k)' = MappedCell(k)
        /\ \A e \in Entries : MappedValue(e)' = MappedValue(e)
    BY <2>1 DEF MappedCell, MappedValue
  <2>3. QED BY <2>2, MapStutters
<1>7. CASE Clean
  <2>1. Published' = {} /\ \A k \in Key : EntryOf(k)' = {}
    BY <1>7, NoEntries DEF TableInv
  <2>2. \A k \in Key : CellOf(k)' = 0
    BY <2>1 DEF CellOf
  <2>3. /\ \A k \in Key : MappedCell(k)' = 0
        /\ \A e \in Entries : MappedValue(e)' = NoData
    BY <2>1, <2>2 DEF MappedCell, MappedValue, HoldData
  <2>4. QED BY <2>3, MapClean
<1>8. CASE ResolveBucket \/ SearchNext \/ InsertFull \/ Crash
  BY <1>1, <1>8 DEF ResolveBucket, SearchNext, InsertFull, Crash, table, history
<1>9. ASSUME NEW k \in Key, NEW x, UpdateDirect(k, x) \/ UpdateIndirect(k, x)
      PROVE  [Alias!Next]_(Alias!vars)
  BY <1>1, <1>9 DEF UpdateDirect, UpdateIndirect, table, history
<1>10. ASSUME NEW r \in Reader, FindStep(r) \/ \E k \in Key : FindBegin(r, k)
       PROVE  [Alias!Next]_(Alias!vars)
  BY <1>1, <1>10 DEF FindBegin, FindStep, FindWalk, FindKind, FindTarget, FindData, FindReturn,
     table, history
<1>11. CASE UNCHANGED vars
  BY <1>1, <1>11 DEF vars, table, history
<1>12. QED BY <1>2, <1>3, <1>4, <1>5, <1>6, <1>7, <1>8, <1>9, <1>10, <1>11
              DEF Next, Update, Insert

(* Access by access, with look-ups at any moment and with crashes, the table  *)
(* is the map of AccelAlias: a stored script, a new key and a new name appear *)
(* in one step each.                                                          *)
THEOREM TableImplementsMap == Spec => ImplementsAlias
<1>1. TableInv /\ TableInv' /\ [Next]_vars => [Alias!Next]_(Alias!vars)
  BY MapStep
<1>2. QED BY <1>1, TableInit, TableStep, MapInit, PTL DEF Spec, ImplementsAlias, Alias!Spec

-----------------------------------------------------------------------------
(* The count of entries with data, which between its own step and that of    *)
(* the table is one ahead or one behind.                                     *)
Balanced(n, c, p, w) ==
  n + (IF p = "flag" THEN 1 ELSE 0) = c + (IF p = "publish" /\ ~w THEN 1 ELSE 0)
DirectInv ==
  /\ crashes = 0 => Balanced(num_direct_entries, Cardinality(HoldData), wpc, windirect)
  /\ wpc = "flag" => wcur \in HoldData

LEMMA HoldDataIsFinite ==
  ASSUME TableInv PROVE IsFiniteSet(HoldData) /\ Cardinality(HoldData) \in Nat
<1>1. IsFiniteSet(Published) /\ HoldData \in SUBSET Published
  BY PublishedFacts DEF TableInv, HoldData
<1>2. IsFiniteSet(HoldData)
  BY <1>1, FS_Subset
<1>3. QED BY <1>2, FS_CardinalityType

LEMMA NothingHeld == Init => HoldData = {}
<1> SUFFICES ASSUME Init PROVE HoldData = {}
  OBVIOUS
<1>1. TableInv
  BY TableInit
<1>2. /\ \A s \in Slot : hash_table[s] = 0
      /\ 0 \in Pointer /\ Backwards(hash_entries)
  BY <1>1, HashAssumption DEF Init, TableInv, Linked
<1>3. \A s \in Slot : Chain(s) = {}
  BY <1>1, <1>2, ChainIsReach, ReachNull DEF TableInv
<1>4. QED BY <1>3 DEF HoldData, Published

(* Which entries hold data after a step that writes to published ones. *)
LEMMA ReplaceHolds == ASSUME TableInv, TableInv', Replace PROVE HoldData' = HoldData
<1> DEFINE t == IF windirect THEN wcur ELSE StoreAt(wcur)
<1>1. /\ wpc = "search" /\ wpc' = "idle" /\ wcur # 0 /\ hash_entries[wcur].key = wkey
      /\ ~windirect \/ hash_entries[wcur].indirect
      /\ hash_entries' = [hash_entries EXCEPT ![t].data = wdata]
      /\ UNCHANGED <<hash_table, num_entries, crashes>>
  BY DEF Replace
<1>2. /\ wcur \in Published /\ StoreAt(wcur) \in Published /\ Published \subseteq Entries
  BY <1>1, FoundEntry, PublishedFacts DEF TableInv
<1>3. t \in Entries
  BY <1>2
<1> HIDE DEF t
<1>4. /\ hash_entries' \in [Entries -> Entry]
      /\ \A e \in Entries : /\ hash_entries'[e].next = hash_entries[e].next
                            /\ hash_entries'[e].key = hash_entries[e].key
                            /\ hash_entries'[e].indirect = hash_entries[e].indirect
  BY <1>1, <1>3 DEF TableInv, TableTypes, Entry
<1>5. Published' = Published
  BY <1>1, <1>4, DataChanges
<1>6. QED BY <1>2, <1>4, <1>5 DEF HoldData

LEMMA ReplaceDataHolds ==
  ASSUME TableInv, TableInv', ReplaceData
  PROVE  HoldData' = HoldData /\ wcur \in HoldData
<1>1. /\ wpc = "search" /\ wpc' = "flag" /\ wcur # 0 /\ hash_entries[wcur].key = wkey
      /\ hash_entries' = [hash_entries EXCEPT ![wcur].data = wdata]
      /\ ~hash_entries[wcur].indirect
      /\ UNCHANGED <<hash_table, num_entries, crashes>>
  BY DEF ReplaceData
<1>2. wcur \in Published /\ wcur \in Entries /\ Published \subseteq Entries
  BY <1>1, FoundEntry, PublishedFacts DEF TableInv
<1>3. /\ hash_entries' \in [Entries -> Entry]
      /\ \A e \in Entries : /\ hash_entries'[e].next = hash_entries[e].next
                            /\ hash_entries'[e].key = hash_entries[e].key
                            /\ hash_entries'[e].indirect = hash_entries[e].indirect
  BY <1>1, <1>2 DEF TableInv, TableTypes, Entry
<1>4. Published' = Published
  BY <1>1, <1>3, DataChanges
<1>5. QED BY <1>1, <1>2, <1>3, <1>4 DEF HoldData

LEMMA ReplaceFlagHolds ==
  ASSUME TableInv, TableInv', DirectInv, ReplaceFlag
  PROVE  wcur \in HoldData /\ HoldData' = HoldData \ {wcur}
<1>1. /\ wpc = "flag" /\ wpc' = "idle"
      /\ hash_entries' = [hash_entries EXCEPT ![wcur].indirect = TRUE]
      /\ UNCHANGED <<hash_table, num_entries, crashes>>
  BY DEF ReplaceFlag
<1>2. wcur \in HoldData /\ wcur \in Entries /\ Published \subseteq Entries
  BY <1>1, PublishedFacts DEF TableInv, DirectInv, HoldData
<1>3. /\ hash_entries' \in [Entries -> Entry]
      /\ \A e \in Entries : /\ hash_entries'[e].next = hash_entries[e].next
                            /\ hash_entries'[e].key = hash_entries[e].key
                            /\ e # wcur => hash_entries'[e] = hash_entries[e]
      /\ hash_entries'[wcur].indirect
  <2> DEFINE new == [hash_entries[wcur] EXCEPT !.indirect = TRUE]
  <2>1. hash_entries \in [Entries -> Entry] /\ hash_entries[wcur] \in Entry
    BY <1>2 DEF TableInv, TableTypes
  <2>2. /\ new.next = hash_entries[wcur].next /\ new.key = hash_entries[wcur].key /\ new.indirect
    BY <2>1 DEF Entry
  <2>3. hash_entries' = [hash_entries EXCEPT ![wcur] = new]
    BY <1>1, <1>2, <2>1
  <2>4. hash_entries' \in [Entries -> Entry]
    BY DEF TableInv, TableTypes
  <2> HIDE DEF new
  <2>5. QED BY <1>2, <2>1, <2>2, <2>3, <2>4
<1>4. Published' = Published
  BY <1>1, <1>3, DataChanges
<1>5. QED BY <1>2, <1>3, <1>4 DEF HoldData

LEMMA InsertPublishHolds ==
  ASSUME TableInv, TableInv', InsertPublish
  PROVE  /\ wcur \notin HoldData
         /\ HoldData' = IF windirect THEN HoldData ELSE HoldData \cup {wcur}
<1>1. wpc = "publish" /\ UNCHANGED <<hash_entries, windirect, wcur>>
  BY DEF InsertPublish
<1>2. wcur \notin Published /\ Published' = Published \cup {wcur}
  BY OneMoreEntry
<1>3. hash_entries[wcur].indirect = windirect
  BY <1>1 DEF TableInv, Searching
<1>4. QED BY <1>1, <1>2, <1>3 DEF HoldData

(* Steps after which the same entries hold data. *)
LEMMA DirectStutters ==
  ASSUME TableInv, DirectInv, HoldData' = HoldData,
         UNCHANGED <<num_direct_entries, crashes>>,
         wpc \notin {"publish", "flag"}, wpc' \notin {"publish", "flag"}
  PROVE  DirectInv'
BY DEF DirectInv, Balanced

LEMMA DirectCounted == ASSUME TableInv, TableInv', DirectInv, [Next]_vars PROVE DirectInv'
<1>1. Cardinality(HoldData) \in Nat /\ IsFiniteSet(HoldData) /\ num_direct_entries \in Nat
  BY HoldDataIsFinite, HashAssumption DEF TableInv, TableTypes
<1>2. CASE UNCHANGED <<table, writer, crashes>>
  <2>1. HoldData' = HoldData
    BY <1>2, SameTable DEF table
  <2>2. QED BY <1>2, <2>1 DEF DirectInv, table, writer
<1>3. CASE \/ ResolveBucket \/ SearchNext \/ InsertFull
           \/ \E k \in Key : \/ \E d \in Data : UpdateDirect(k, d)
                             \/ \E b \in Entries : UpdateIndirect(k, b)
  <2>1. /\ UNCHANGED <<table, crashes>>
        /\ wpc \notin {"publish", "flag"} /\ wpc' \notin {"publish", "flag"}
    BY <1>3 DEF ResolveBucket, SearchNext, InsertFull, UpdateDirect, UpdateIndirect
  <2>2. HoldData' = HoldData
    BY <2>1, SameTable DEF table
  <2>3. QED BY <2>1, <2>2, DirectStutters DEF table
<1>4. CASE Crash
  <2>1. crashes' = crashes + 1 /\ crashes \in Nat
    BY <1>4, HashAssumption DEF Crash, TableInv, TableTypes
  <2>2. crashes' # 0 /\ wpc' = "idle"
    BY <1>4, <2>1 DEF Crash
  <2>3. QED BY <2>2 DEF DirectInv
<1>5. CASE Clean
  <2>1. Published' = {}
    BY <1>5, NoEntries DEF TableInv
  <2>2. HoldData' = {}
    BY <2>1 DEF HoldData
  <2>3. num_direct_entries' = 0 /\ wpc' = "idle"
    BY <1>5 DEF Clean, writer
  <2>4. Cardinality(HoldData') = 0
    BY <2>2, FS_EmptySet
  <2>5. QED BY <2>3, <2>4 DEF DirectInv, Balanced
<1>6. CASE Replace
  <2>1. HoldData' = HoldData
    BY <1>6, ReplaceHolds
  <2>2. QED BY <1>6, <2>1, DirectStutters DEF Replace
<1>7. CASE ReplaceData
  <2>1. HoldData' = HoldData /\ wcur \in HoldData
    BY <1>7, ReplaceDataHolds
  <2>2. /\ num_direct_entries' = num_direct_entries - 1 /\ crashes' = crashes
        /\ wpc = "search" /\ wpc' = "flag" /\ UNCHANGED <<windirect, wcur>>
    BY <1>7 DEF ReplaceData
  <2>3. QED BY <1>1, <2>1, <2>2 DEF DirectInv, Balanced
<1>8. CASE ReplaceFlag
  <2>1. wcur \in HoldData /\ HoldData' = HoldData \ {wcur}
    BY <1>8, ReplaceFlagHolds
  <2>2. /\ UNCHANGED <<num_direct_entries, crashes, windirect>>
        /\ wpc = "flag" /\ wpc' = "idle"
    BY <1>8 DEF ReplaceFlag
  <2>3. Cardinality(HoldData') = Cardinality(HoldData) - 1
    BY <1>1, <2>1, FS_RemoveElement
  <2>4. QED BY <1>1, <2>2, <2>3 DEF DirectInv, Balanced
<1>9. CASE InsertFill
  <2>1. HoldData' = HoldData
    BY <1>9, FilledUnseen DEF HoldData
  <2>2. /\ num_direct_entries' = num_direct_entries + (IF windirect THEN 0 ELSE 1)
        /\ wpc = "search" /\ wpc' = "publish" /\ UNCHANGED <<windirect, crashes>>
    BY <1>9 DEF InsertFill, Counts
  <2>3. QED BY <1>1, <2>1, <2>2 DEF DirectInv, Balanced
<1>10. CASE InsertPublish
  <2>1. /\ wcur \notin HoldData
        /\ HoldData' = IF windirect THEN HoldData ELSE HoldData \cup {wcur}
    BY <1>10, InsertPublishHolds
  <2>2. /\ UNCHANGED <<num_direct_entries, crashes, windirect>>
        /\ wpc = "publish" /\ wpc' = "idle"
    BY <1>10 DEF InsertPublish
  <2>3. Cardinality(HoldData') = Cardinality(HoldData) + (IF windirect THEN 0 ELSE 1)
    BY <1>1, <2>1, FS_AddElement
  <2>4. QED BY <1>1, <2>2, <2>3 DEF DirectInv, Balanced
<1>11. CASE \/ UNCHANGED vars
            \/ \E r \in Reader : FindStep(r) \/ \E k \in Key : FindBegin(r, k)
  BY <1>2, <1>11 DEF vars, FindBegin, FindStep, FindWalk, FindKind, FindTarget, FindData, FindReturn
<1>12. QED BY <1>3, <1>4, <1>5, <1>6, <1>7, <1>8, <1>9, <1>10, <1>11 DEF Next, Update, Insert

(* The count that opcache_get_status() reports as the number of cached       *)
(* scripts is the number of published entries with data whenever nobody      *)
(* updates the table and nobody has died in an update.                       *)
THEOREM DirectEntriesAreCounted == Spec => []DirectEntriesCounted
<1>1. Init => DirectInv
  <2> SUFFICES ASSUME Init PROVE DirectInv
    OBVIOUS
  <2>1. HoldData = {}
    BY NothingHeld
  <2>2. num_direct_entries = 0 /\ wpc = "idle"
    BY DEF Init
  <2>3. QED BY <2>1, <2>2, FS_EmptySet DEF DirectInv, Balanced
<1>2. TableInv /\ TableInv' /\ DirectInv /\ [Next]_vars => DirectInv'
  BY DirectCounted
<1>3. TableInv /\ DirectInv => DirectEntriesCounted
  <2> SUFFICES ASSUME TableInv, DirectInv, crashes = 0, wpc = "idle"
               PROVE  num_direct_entries = Cardinality(HoldData)
    BY DEF DirectEntriesCounted, HoldData
  <2>1. Cardinality(HoldData) \in Nat /\ num_direct_entries \in Nat
    BY HoldDataIsFinite, HashAssumption DEF TableInv, TableTypes
  <2>2. QED BY <2>1 DEF DirectInv, Balanced
<1>4. QED BY <1>1, <1>2, <1>3, TableInit, TableStep, PTL DEF Spec
=============================================================================
