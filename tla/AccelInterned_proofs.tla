------------------------ MODULE AccelInterned_proofs ------------------------
(***************************************************************************)
(* Theorems about the interned strings, for any number of processes and    *)
(* strings, any sizes and any hash.                                        *)
(*                                                                         *)
(* The buffer only grows, and a bucket is put in front of its slot, so a   *)
(* chain goes through the buckets of its slot from the highest address to  *)
(* the lowest and leaves out none.  That is what makes a walk see a string *)
(* that is there, and what makes the buckets saved at startup the buckets  *)
(* below the saved top.                                                    *)
(***************************************************************************)
EXTENDS AccelInterned, TLAPS

USE DEF Go, Forget, Pointer, Top, table, local, cs, users, history, Addr, Place, Linking, Same, FirstOf,
        RestoreTop, RestoreBuckets

-----------------------------------------------------------------------------
(* Types.                                                                    *)
LEMMA BucketTypes ==
  /\ EmptyBucket \in Bucket
  /\ \A b \in Bucket : /\ b.key \in String \cup {NoString} /\ b.pNext \in Pointer
                       /\ b.pListNext \in Pointer /\ b.pListLast \in Pointer
  /\ \A b \in Bucket, n \in Pointer : /\ [b EXCEPT !.pNext = n] \in Bucket
                                  /\ [b EXCEPT !.pListNext = n] \in Bucket
                                  /\ [b EXCEPT !.pListLast = n] \in Bucket
  /\ \A b \in Bucket, s \in String : [b EXCEPT !.key = s] \in Bucket
<1>1. EmptyBucket \in Bucket
  BY InternedAssumption DEF EmptyBucket, Bucket
<1>2. ASSUME NEW b \in Bucket
      PROVE  /\ b.key \in String \cup {NoString} /\ b.pNext \in Pointer
             /\ b.pListNext \in Pointer /\ b.pListLast \in Pointer
  BY DEF Bucket
<1>3. ASSUME NEW b \in Bucket, NEW n \in Pointer
      PROVE  /\ [b EXCEPT !.pNext = n] \in Bucket
             /\ [b EXCEPT !.pListNext = n] \in Bucket
             /\ [b EXCEPT !.pListLast = n] \in Bucket
  BY DEF Bucket
<1>4. ASSUME NEW b \in Bucket, NEW s \in String PROVE [b EXCEPT !.key = s] \in Bucket
  BY DEF Bucket
<1>5. QED BY <1>1, <1>2, <1>3, <1>4

(* The process in the critical section has a string, and a bucket for it    *)
(* once it has made one.                                                     *)
HasString == /\ pc # "next" => str \in String
             /\ pc \notin {"next", "walk"} => new # 0

Typed == TypeOK /\ HasString

(* Both hold at first and every step keeps them.                             *)
LEMMA TypesHold == (Init => Typed) /\ (Typed /\ [Next]_vars => Typed')
<1> USE InternedAssumption DEF TypeOK
<1>1. Init => TypeOK /\ HasString
  <2> SUFFICES ASSUME Init PROVE TypeOK /\ HasString
    OBVIOUS
  <2>1. bucket \in [Addr -> Bucket] /\ [h \in Slot |-> 0] \in [Slot -> Pointer]
    BY BucketTypes DEF Init
  <2>2. saved \in Table
    BY DEF Init, Table
  <2>3. got \subseteq Place /\ refs \in [Process -> SUBSET Place]
    BY DEF Init
  <2>4. HasString
    BY DEF Init, HasString
  <2>5. pc \in {"next", "walk", "fill", "chain"} \cup Linking /\ torn \in BOOLEAN
    BY DEF Init
  <2>6. arBuckets \in [Slot -> Pointer] /\ pListHead \in Pointer /\ pListTail \in Pointer /\ top \in Top
    BY <2>1 DEF Init
  <2>7. lock \in Process \cup {Parent, NoString} /\ todo \subseteq String
        /\ str \in String \cup {NoString} /\ at \in Pointer /\ new \in Pointer
    BY DEF Init
  <2>8. engine \subseteq Place /\ scripts \subseteq Place /\ mem_usage \subseteq Process
        /\ linked \subseteq Addr /\ restarts \in Nat /\ deaths \in Nat
    BY DEF Init
  <2>9. QED BY <2>1, <2>2, <2>3, <2>4, <2>5, <2>6, <2>7, <2>8
<1>2. TypeOK /\ HasString /\ [Next]_vars => HasString'
  <2> SUFFICES ASSUME TypeOK, HasString, [Next]_vars PROVE HasString'
    OBVIOUS
  <2> USE DEF HasString
  <2>1. CASE NewInternedString
    BY <2>1 DEF NewInternedString, NextString, WalkOn, WalkFinds, WalkOverflows, Bump, Fill,
       LinkNext, LinkHead, ListTail, ListNext, ListHead
  <2>2. CASE SaveState \/ Restart \/ UNCHANGED vars
    BY <2>2 DEF SaveState, Restart, vars
  <2>3. ASSUME NEW p \in Process, Request(p) PROVE HasString'
    BY <2>3 DEF Request, Activate, LoadScript, PersistCalc, Persist, Deactivate, Die
  <2>4. QED BY <2>1, <2>2, <2>3 DEF Next
<1>3. TypeOK /\ HasString /\ [Next]_vars => TypeOK'
  <2> SUFFICES ASSUME TypeOK, HasString, [Next]_vars PROVE TypeOK'
    OBVIOUS
  <2> USE DEF HasString
  <2>1. CASE NextString
    BY <2>1 DEF NextString
  <2>2. CASE WalkOn
    <3>1. at' \in Pointer
      BY <2>2, BucketTypes DEF WalkOn
    <3>2. QED BY <2>2, <3>1 DEF WalkOn
  <2>3. CASE WalkFinds
    <3>1. got' \subseteq Place
      BY <2>3 DEF WalkFinds
    <3>2. QED BY <2>3, <3>1 DEF WalkFinds
  <2>4. CASE WalkOverflows
    BY <2>4 DEF WalkOverflows
  <2>5. CASE Bump
    <3>1. size[str] \in Nat \ {0}
      BY <2>5 DEF Bump
    <3>2. new' \in Pointer /\ top' \in Top
      BY <2>5, <3>1 DEF Bump, Fits
    <3>3. QED BY <2>5, <3>2 DEF Bump
  <2>6. CASE Fill
    <3>1. bucket' \in [Addr -> Bucket]
      <4> DEFINE B(a) == CASE a = new -> [EmptyBucket EXCEPT !.key = str]
                           [] a \in (new + 1)..(new + size[str] - 1) -> EmptyBucket
                           [] OTHER -> bucket[a]
      <4>1. bucket' = [a \in Addr |-> B(a)]
        BY <2>6 DEF Fill
      <4>2. [EmptyBucket EXCEPT !.key = str] \in Bucket /\ EmptyBucket \in Bucket
        BY <2>6, BucketTypes DEF Fill
      <4>3. \A a \in Addr : B(a) \in Bucket
        BY <4>2
      <4> HIDE DEF B
      <4>4. QED BY <4>1, <4>3
    <3>2. QED BY <2>6, <3>1 DEF Fill
  <2>7. CASE LinkNext
    <3>1. arBuckets[hash[str]] \in Pointer /\ new \in Addr
      BY <2>7 DEF LinkNext
    <3>2. [bucket[new] EXCEPT !.pNext = arBuckets[hash[str]]] \in Bucket
      BY <3>1, BucketTypes
    <3>3. bucket' \in [Addr -> Bucket]
      BY <2>7, <3>1, <3>2 DEF LinkNext
    <3>4. QED BY <2>7, <3>3 DEF LinkNext
  <2>8. CASE LinkHead
    BY <2>8 DEF LinkHead
  <2>9. CASE ListTail
    <3>1. [bucket[new] EXCEPT !.pListLast = pListTail] \in Bucket
      <4>1. bucket[new] \in Bucket
        BY <2>9 DEF ListTail
      <4>2. QED BY <4>1, BucketTypes
    <3>2. bucket' \in [Addr -> Bucket]
      BY <2>9, <3>1 DEF ListTail
    <3>3. QED BY <2>9, <3>2 DEF ListTail
  <2>10. CASE ListNext
    <3>1. bucket' \in [Addr -> Bucket]
      <4> DEFINE B(a) == CASE a = new -> [bucket[a] EXCEPT !.pListNext = 0]
                           [] a = bucket[new].pListLast /\ a # new ->
                                [bucket[a] EXCEPT !.pListNext = new]
                           [] OTHER -> bucket[a]
      <4>1. bucket' = [a \in Addr |-> B(a)]
        BY <2>10, Zenon DEF ListNext
      <4>2. new \in Pointer /\ 0 \in Pointer
        OBVIOUS
      <4>3. \A a \in Addr : B(a) \in Bucket
        BY <4>2, BucketTypes
      <4> HIDE DEF B
      <4>4. QED BY <4>1, <4>3
    <3>2. QED BY <2>10, <3>1 DEF ListNext
  <2>11. CASE ListHead
    <3>1. got' \subseteq Place
      BY <2>11 DEF ListHead
    <3>2. QED BY <2>11, <3>1 DEF ListHead
  <2>12. CASE SaveState
    BY <2>12 DEF SaveState, Table
  <2>13. CASE Restart
    <3>1. /\ saved.arBuckets \in [Slot -> Pointer] /\ saved.pListHead \in Pointer
          /\ saved.pListTail \in Pointer /\ saved.top \in Top
      BY DEF Table
    <3>2. CutList \in [Addr -> Bucket]
      <4>1. CASE saved.pListTail = 0
        BY <4>1 DEF CutList
      <4>2. CASE saved.pListTail # 0
        <5>1. [bucket[saved.pListTail] EXCEPT !.pListNext = 0] \in Bucket
          <6>1. bucket[saved.pListTail] \in Bucket
            BY <3>1, <4>2
          <6>2. 0 \in Pointer
            OBVIOUS
          <6>3. QED BY <6>1, <6>2, BucketTypes
        <5>2. CutList = [bucket EXCEPT ![saved.pListTail] =
                             [bucket[saved.pListTail] EXCEPT !.pListNext = 0]]
          BY <4>2 DEF CutList
        <5>3. QED BY <5>1, <5>2
      <4>3. QED BY <4>1, <4>2
    <3>3. linked' \subseteq Addr /\ torn' \in BOOLEAN
      BY <2>13 DEF Restart
    <3>4. QED BY <2>13, <3>1, <3>2, <3>3 DEF Restart
  <2>14. ASSUME NEW p \in Process, Request(p) PROVE TypeOK'
    <3>1. CASE Activate(p)
      BY <3>1 DEF Activate
    <3>2. CASE LoadScript(p)
      BY <3>2 DEF LoadScript
    <3>3. CASE PersistCalc(p)
      BY <3>3 DEF PersistCalc
    <3>4. ASSUME NEW stored \in BOOLEAN, Persist(p, stored) PROVE TypeOK'
      <4>1. scripts' \subseteq Place
        BY <3>4 DEF Persist
      <4>2. QED BY <3>4, <4>1 DEF Persist
    <3>5. CASE Deactivate(p)
      BY <3>5 DEF Deactivate
    <3>6. CASE Die(p)
      <4>1. /\ mem_usage' \subseteq Process /\ refs' \in [Process -> SUBSET Place]
            /\ deaths' \in Nat
        BY <3>6 DEF Die
      <4>2. torn' \in BOOLEAN
        BY <3>6, Zenon DEF Die
      <4>3. UNCHANGED <<bucket, table, saved, engine, scripts, linked, restarts>>
        BY <3>6 DEF Die
      <4>4. CASE lock = p
        BY <3>6, <4>1, <4>2, <4>3, <4>4 DEF Die
      <4>5. CASE lock # p
        BY <3>6, <4>1, <4>2, <4>3, <4>5 DEF Die
      <4>6. QED BY <4>4, <4>5
    <3>7. QED BY <2>14, <3>1, <3>2, <3>3, <3>4, <3>5, <3>6 DEF Request
  <2>15. CASE UNCHANGED vars
    BY <2>15 DEF vars
  <2>16. QED
    BY <2>1, <2>2, <2>3, <2>4, <2>5, <2>6, <2>7, <2>8, <2>9, <2>10, <2>11, <2>12, <2>13,
       <2>14, <2>15 DEF Next, NewInternedString
<1>4. QED BY <1>1, <1>2, <1>3 DEF Typed

(* Type correctness: what a process writes into a bucket, a slot or the list *)
(* is the address of a bucket or NULL, whatever it was interning when the    *)
(* one before it died.                                                       *)
THEOREM InternedTypeCorrect == Spec => []TypeOK
<1>1. Typed => TypeOK
  BY DEF Typed
<1>2. QED BY <1>1, TypesHold, PTL DEF Spec

-----------------------------------------------------------------------------
(* The chains.                                                               *)
InSlot(h) == {a \in linked : hash[bucket[a].key] = h}

(* q is the bucket of slot h with the highest address below a limit, or NULL. *)
Highest(q, h, limit) ==
  /\ q # 0 => q \in InSlot(h) /\ q < limit
  /\ \A a \in InSlot(h) : a < limit => a <= q

(* A slot leads to its highest bucket and a bucket to the next lower one; the *)
(* saved slots lead to what lies below the saved top.                        *)
Chained ==
  /\ \A a \in linked : bucket[a].key \in String /\ a < top
  /\ saved.top <= top
  /\ \A h \in Slot : Highest(arBuckets[h], h, Units + 1)
  /\ \A h \in Slot : Highest(saved.arBuckets[h], h, saved.top)
  /\ \A h \in Slot : \A a \in InSlot(h) : Highest(bucket[a].pNext, h, a)

(* The critical section: a walk has left behind it only other strings; a new  *)
(* bucket lies above all that are linked, none of which has its string.      *)
Walking == pc = "walk" =>
  /\ at # 0 => at \in InSlot(hash[str])
  /\ \A a \in InSlot(hash[str]) : at < a => bucket[a].key # str
Adding == pc \in {"fill", "chain", "bucket"} =>
  /\ saved.top <= new /\ new < top
  /\ \A a \in linked : a < new /\ bucket[a].key # str
  /\ pc # "fill" => bucket[new].key = str
  /\ pc = "bucket" => bucket[new].pNext = arBuckets[hash[str]]
Added == pc \in {"list", "listnext", "listhead"} =>
  /\ new \in linked /\ bucket[new].key = str
  /\ saved.top <= new
Critical ==
  /\ lock = NoString => pc = "next" /\ got = {} /\ todo = {}
  /\ lock \in Process => lock \in mem_usage
  /\ Walking /\ Adding /\ Added

(* The pointers: those of PHP itself lie below the saved top, a process that   *)
(* does not use the cache has none.                                          *)
Leads(r) == r[1] \in linked /\ bucket[r[1]].key = r[2]
Sound ==
  /\ \A r \in engine : Leads(r) /\ r[1] < saved.top
  /\ \A r \in scripts : Leads(r)
  /\ \A r \in got : Leads(r)
  /\ \A p \in Process : \A r \in refs[p] : Leads(r)
  /\ \A p \in Process : p \notin mem_usage => refs[p] = {}

Safe == Typed /\ Chained /\ OncePerString /\ Critical /\ Sound

LEMMA SafeInit == Init => Safe
<1> SUFFICES ASSUME Init PROVE Safe
  OBVIOUS
<1>1. Typed
  BY TypesHold
<1>2. linked = {} /\ saved.top = 1 /\ top = 1 /\ saved.arBuckets = [h \in Slot |-> 0]
  BY DEF Init
<1>3. Chained /\ OncePerString
  BY <1>2 DEF Init, Chained, OncePerString, InSlot, Highest
<1>4. Critical
  BY InternedAssumption DEF Init, Critical, Walking, Adding, Added
<1>5. Sound
  BY DEF Init, Sound
<1>6. QED BY <1>1, <1>3, <1>4, <1>5 DEF Safe

(* Writes that touch no key and no pNext of a linked bucket keep the chains    *)
(* and the strings that pointers lead to.                                    *)
LEMMA MemoryKept ==
  ASSUME Safe, linked' = linked, saved' = saved, arBuckets' = arBuckets,
         top' \in Top, top <= top',
         \A a \in linked : /\ bucket'[a].key = bucket[a].key
                           /\ bucket'[a].pNext = bucket[a].pNext
  PROVE  /\ Chained' /\ OncePerString'
         /\ \A h \in Slot : InSlot(h)' = InSlot(h)
         /\ \A r : Leads(r) => Leads(r)'
<1>1. \A h \in Slot : InSlot(h)' = InSlot(h)
  BY DEF InSlot
<1>2. OncePerString'
  BY DEF Safe, OncePerString
<1>3. \A r : Leads(r) => Leads(r)'
  BY DEF Leads
<1>4. Chained'
  <2>1. \A a \in linked' : bucket'[a].key \in String /\ a < top'
    BY InternedAssumption DEF Safe, Typed, TypeOK, Chained
  <2>2. saved'.top <= top'
    BY InternedAssumption DEF Safe, Typed, TypeOK, Table, Chained
  <2>3. \A h \in Slot : Highest(arBuckets[h], h, Units + 1)'
    BY <1>1 DEF Safe, Chained, Highest
  <2>4. \A h \in Slot : Highest(saved.arBuckets[h], h, saved.top)'
    BY <1>1 DEF Safe, Chained, Highest
  <2>5. \A h \in Slot : \A a \in InSlot(h)' : Highest(bucket[a].pNext, h, a)'
    <3> SUFFICES ASSUME NEW h \in Slot, NEW a \in InSlot(h) PROVE Highest(bucket[a].pNext, h, a)'
      BY <1>1
    <3>1. Highest(bucket[a].pNext, h, a) /\ bucket'[a].pNext = bucket[a].pNext
      BY DEF Safe, Chained, InSlot
    <3>2. QED BY <1>1, <3>1 DEF Highest
  <2>6. QED BY <2>1, <2>2, <2>3, <2>4, <2>5 DEF Chained
<1>5. QED BY <1>1, <1>2, <1>3, <1>4

(* The steps of accel_new_interned_string.                                   *)
LEMMA InterningIsSafe == Safe /\ Typed' /\ NewInternedString => Safe'
<1> SUFFICES ASSUME Safe, Typed', NewInternedString PROVE Safe'
  OBVIOUS
<1> USE InternedAssumption
<1>0. /\ arBuckets \in [Slot -> Pointer] /\ top \in Top /\ saved.top \in Top
      /\ linked \subseteq Addr /\ (pc # "next" => str \in String)
  BY DEF Safe, Typed, TypeOK, HasString, Table
<1>k. ASSUME UNCHANGED <<bucket, arBuckets, top, saved, linked>>
      PROVE  /\ Chained' /\ OncePerString' /\ \A h \in Slot : InSlot(h)' = InSlot(h)
             /\ \A r : Leads(r) => Leads(r)'
  <2>1. /\ linked' = linked /\ saved' = saved /\ arBuckets' = arBuckets
        /\ top' \in Top /\ top <= top'
    BY <1>0, <1>k DEF Top
  <2>2. \A a \in linked : /\ bucket'[a].key = bucket[a].key
                        /\ bucket'[a].pNext = bucket[a].pNext
    BY <1>0, <1>k
  <2>3. QED BY <2>1, <2>2, MemoryKept, Zenon
<1>1. CASE NextString
  <2>1. UNCHANGED <<bucket, arBuckets, top, saved, lock, linked, got, users>>
    BY <1>1 DEF NextString
  <2>2. PICK s \in String : str' = s /\ at' = arBuckets[hash[s]] /\ pc' = "walk"
    BY <1>1 DEF NextString, Safe, Typed, TypeOK
  <2>3. Highest(at', hash[s], Units + 1)
    BY <2>2 DEF Safe, Chained
  <2>4. Walking'
    <3>1. InSlot(hash[s])' = InSlot(hash[s])
      BY <2>1, <1>k
    <3>2. \A a \in InSlot(hash[s]) : a \in Addr /\ a <= at'
      BY <2>3, <1>0 DEF Highest, InSlot
    <3>3. at' \in Pointer
      BY DEF Typed, TypeOK
    <3>4. \A a \in InSlot(hash[s]) : ~(at' < a)
      BY <3>2, <3>3
    <3>5. QED BY <2>2, <2>3, <3>1, <3>4 DEF Walking, Highest
  <2>5. lock # NoString
    BY <1>1 DEF NextString, Safe, Critical
  <2>6. Critical'
    BY <2>1, <2>2, <2>4, <2>5 DEF Critical, Adding, Added, Safe
  <2>7. Sound'
    BY <2>1, <1>k DEF Sound, Safe
  <2>8. QED BY <2>1, <2>6, <2>7, <1>k DEF Safe
<1>2. CASE WalkOn
  <2>1. UNCHANGED <<bucket, arBuckets, top, saved, lock, linked, got, users, str, pc>>
    BY <1>2 DEF WalkOn
  <2>2. /\ pc = "walk" /\ at # 0 /\ bucket[at].key # str /\ at' = bucket[at].pNext
    BY <1>2 DEF WalkOn
  <2>3. /\ str \in String /\ at \in InSlot(hash[str])
        /\ \A a \in InSlot(hash[str]) : at < a => bucket[a].key # str
    BY <2>2, <1>0 DEF Safe, Critical, Walking
  <2>4. Highest(at', hash[str], at)
    BY <2>2, <2>3 DEF Safe, Chained
  <2>5. \A a \in InSlot(hash[str]) : at' < a => bucket[a].key # str
    <3> SUFFICES ASSUME NEW a \in InSlot(hash[str]), at' < a PROVE bucket[a].key # str
      OBVIOUS
    <3>1. at \in Addr /\ a \in Addr /\ at' \in Pointer
      BY <2>3, <1>0 DEF InSlot, Typed, TypeOK
    <3>2. ~(a < at)
      BY <2>4, <3>1 DEF Highest
    <3>3. a = at \/ at < a
      BY <3>1, <3>2
    <3>4. QED BY <3>3, <2>2, <2>3
  <2>6. Walking'
    <3>1. InSlot(hash[str])' = InSlot(hash[str])
      BY <2>1, <2>3, <1>k
    <3>2. QED BY <2>1, <2>4, <2>5, <3>1 DEF Walking, Highest
  <2>7. Critical'
    BY <2>1, <2>2, <2>6 DEF Critical, Adding, Added, Safe
  <2>8. Sound'
    BY <2>1, <1>k DEF Sound, Safe
  <2>9. QED BY <2>1, <2>7, <2>8, <1>k DEF Safe
<1>3. CASE WalkFinds
  <2>1. UNCHANGED <<bucket, arBuckets, top, saved, lock, linked, users>>
    BY <1>3 DEF WalkFinds
  <2>2. Leads(<<at, str>>)
    BY <1>3 DEF WalkFinds, Safe, Critical, Walking, InSlot, Leads
  <2>3. got' = got \cup {<<at, str>>} /\ pc' = "next" /\ pc = "walk"
    BY <1>3 DEF WalkFinds
  <2>4. Critical'
    BY <2>1, <2>3 DEF Critical, Walking, Adding, Added, Safe
  <2>5. Sound'
    BY <2>1, <2>2, <2>3, <1>k DEF Sound, Safe
  <2>6. QED BY <2>1, <2>4, <2>5, <1>k DEF Safe
<1>4. CASE WalkOverflows
  <2>1. UNCHANGED <<bucket, arBuckets, top, saved, lock, linked, users, got>>
    BY <1>4 DEF WalkOverflows
  <2>2. pc = "walk" /\ pc' = "next"
    BY <1>4 DEF WalkOverflows
  <2>3. Critical'
    BY <2>1, <2>2 DEF Critical, Walking, Adding, Added, Safe
  <2>4. Sound'
    BY <2>1, <1>k DEF Sound, Safe
  <2>5. QED BY <2>1, <2>3, <2>4, <1>k DEF Safe
<1>5. CASE Bump
  <2>1. UNCHANGED <<bucket, arBuckets, saved, lock, linked, users, got, str>>
    BY <1>5 DEF Bump
  <2>2. /\ pc = "walk" /\ pc' = "fill" /\ at = 0 /\ new' = top /\ top' = top + size[str]
        /\ str \in String
    BY <1>5, <1>0 DEF Bump
  <2>3. top < top' /\ top' \in Top
    BY <2>2, <1>0 DEF Typed, TypeOK
  <2>4. /\ Chained' /\ OncePerString' /\ \A r : Leads(r) => Leads(r)'
    <3>1. /\ linked' = linked /\ saved' = saved /\ arBuckets' = arBuckets
          /\ top' \in Top /\ top <= top'
      BY <2>1, <2>3, <1>0 DEF Top
    <3>2. \A a \in linked : /\ bucket'[a].key = bucket[a].key
                          /\ bucket'[a].pNext = bucket[a].pNext
      BY <2>1, <2>3, <1>0
    <3>3. QED BY <3>1, <3>2, MemoryKept, Zenon
  <2>5. \A a \in linked : a < top /\ bucket[a].key # str
    <3> SUFFICES ASSUME NEW a \in linked PROVE bucket[a].key # str
      BY DEF Safe, Chained
    <3>1. CASE a \in InSlot(hash[str])
      BY <3>1, <2>2, <1>0 DEF Safe, Critical, Walking
    <3>2. CASE a \notin InSlot(hash[str])
      BY <3>2 DEF InSlot
    <3>3. QED BY <3>1, <3>2
  <2>6. Adding'
    <3>1. saved'.top <= new' /\ new' < top'
      BY <2>1, <2>2, <2>3 DEF Safe, Chained
    <3>2. \A a \in linked' : a < new' /\ bucket'[a].key # str'
      BY <2>1, <2>2, <2>5
    <3>3. QED BY <2>2, <3>1, <3>2 DEF Adding
  <2>7. Critical'
    BY <2>1, <2>2, <2>6 DEF Critical, Walking, Added, Safe
  <2>8. Sound'
    BY <2>1, <2>4 DEF Sound, Safe
  <2>9. QED BY <2>4, <2>7, <2>8 DEF Safe
<1>6. CASE Fill
  <2>1. UNCHANGED <<arBuckets, top, saved, lock, linked, users, got, str, new>>
    BY <1>6 DEF Fill
  <2>2. pc = "fill" /\ pc' = "chain"
    BY <1>6 DEF Fill
  <2>3. /\ str \in String /\ new \in Addr /\ size[str] \in Nat \ {0}
        /\ \A a \in linked : a < new /\ bucket[a].key # str
    BY <2>2, <1>0 DEF Safe, Critical, Adding, Typed, TypeOK, HasString
  <2>4. \A a \in linked : bucket'[a] = bucket[a]
    <3> SUFFICES ASSUME NEW a \in linked PROVE bucket'[a] = bucket[a]
      OBVIOUS
    <3>1. a \in Addr /\ a < new
      BY <2>3, <1>0
    <3>2. a # new /\ a \notin (new + 1)..(new + size[str] - 1)
      BY <2>3, <3>1
    <3>3. QED BY <1>6, <3>1, <3>2 DEF Fill
  <2>5. bucket'[new].key = str
    <3>1. bucket'[new] = [EmptyBucket EXCEPT !.key = str]
      BY <1>6, <2>3 DEF Fill
    <3>2. [EmptyBucket EXCEPT !.key = str].key = str
      BY DEF EmptyBucket
    <3>3. QED BY <3>1, <3>2
  <2>6. /\ Chained' /\ OncePerString' /\ \A r : Leads(r) => Leads(r)'
    <3>1. /\ linked' = linked /\ saved' = saved /\ arBuckets' = arBuckets
          /\ top' \in Top /\ top <= top'
      BY <2>1, <2>4, <1>0 DEF Top
    <3>2. \A a \in linked : /\ bucket'[a].key = bucket[a].key
                          /\ bucket'[a].pNext = bucket[a].pNext
      BY <2>1, <2>4, <1>0
    <3>3. QED BY <3>1, <3>2, MemoryKept, Zenon
  <2>7. Adding'
    BY <2>1, <2>2, <2>3, <2>4, <2>5 DEF Adding, Safe, Critical
  <2>8. Critical'
    BY <2>1, <2>2, <2>7 DEF Critical, Walking, Added, Safe
  <2>9. Sound'
    BY <2>1, <2>6 DEF Sound, Safe
  <2>10. QED BY <2>6, <2>8, <2>9 DEF Safe
<1>7. CASE LinkNext
  <2>1. UNCHANGED <<arBuckets, top, saved, lock, linked, users, got, str, new>>
    BY <1>7 DEF LinkNext
  <2>2. pc = "chain" /\ pc' = "bucket"
    BY <1>7 DEF LinkNext
  <2>3. /\ str \in String /\ new \in Addr /\ bucket[new].key = str
        /\ \A a \in linked : a < new /\ bucket[a].key # str
    BY <2>2, <1>0 DEF Safe, Critical, Adding, Typed, TypeOK, HasString
  <2>4. /\ \A a \in linked : bucket'[a] = bucket[a]
        /\ bucket'[new].key = str /\ bucket'[new].pNext = arBuckets[hash[str]]
    BY <1>7, <2>3, <1>0 DEF LinkNext, Safe, Typed, TypeOK, Bucket
  <2>5. /\ Chained' /\ OncePerString' /\ \A r : Leads(r) => Leads(r)'
    <3>1. /\ linked' = linked /\ saved' = saved /\ arBuckets' = arBuckets
          /\ top' \in Top /\ top <= top'
      BY <2>1, <2>4, <1>0 DEF Top
    <3>2. \A a \in linked : /\ bucket'[a].key = bucket[a].key
                          /\ bucket'[a].pNext = bucket[a].pNext
      BY <2>1, <2>4, <1>0
    <3>3. QED BY <3>1, <3>2, MemoryKept, Zenon
  <2>6. Adding'
    BY <2>1, <2>2, <2>3, <2>4 DEF Adding, Safe, Critical
  <2>7. Critical'
    BY <2>1, <2>2, <2>6 DEF Critical, Walking, Added, Safe
  <2>8. Sound'
    BY <2>1, <2>5 DEF Sound, Safe
  <2>9. QED BY <2>5, <2>7, <2>8 DEF Safe
<1>8. CASE LinkHead
  <2>1. UNCHANGED <<bucket, top, saved, lock, users, got, str, new>>
    BY <1>8 DEF LinkHead
  <2>2. /\ pc = "bucket" /\ pc' = "list" /\ linked' = linked \cup {new}
        /\ arBuckets' = [arBuckets EXCEPT ![hash[str]] = new]
    BY <1>8 DEF LinkHead
  <2>3. /\ str \in String /\ new \in Addr /\ bucket[new].key = str
        /\ saved.top <= new /\ new < top
        /\ bucket[new].pNext = arBuckets[hash[str]]
        /\ \A a \in linked : a < new /\ bucket[a].key # str
    BY <2>2, <1>0 DEF Safe, Critical, Adding, Typed, TypeOK, HasString
  <2>4. OncePerString'
    BY <2>1, <2>2, <2>3 DEF OncePerString, Safe
  <2>5. \A r : Leads(r) => Leads(r)'
    BY <2>1, <2>2 DEF Leads
  <2>6. Chained'
    <3>1. \A h \in Slot : InSlot(h)' = IF h = hash[str] THEN InSlot(h) \cup {new} ELSE InSlot(h)
      BY <2>1, <2>2, <2>3 DEF InSlot
    <3>2. \A a \in linked' : bucket'[a].key \in String /\ a < top'
      BY <2>1, <2>2, <2>3 DEF Safe, Chained
    <3>3. \A h \in Slot : Highest(arBuckets[h], h, Units + 1)'
      <4> SUFFICES ASSUME NEW h \in Slot PROVE Highest(arBuckets[h], h, Units + 1)'
        OBVIOUS
      <4>1. CASE h = hash[str]
        <5>1. arBuckets'[h] = new /\ new < Units + 1 /\ new \in InSlot(h)'
          BY <4>1, <3>1, <2>2, <2>3, <1>0
        <5>2. \A a \in InSlot(h)' : a <= new
          <6>1. \A a \in InSlot(h) : a \in Addr /\ a < new
            BY <2>3, <1>0 DEF InSlot
          <6>2. \A a \in InSlot(h)' : a = new \/ a \in InSlot(h)
            BY <4>1, <3>1
          <6>3. QED BY <6>1, <6>2, <2>3
        <5>3. QED BY <5>1, <5>2 DEF Highest
      <4>2. CASE h # hash[str]
        <5>1. arBuckets'[h] = arBuckets[h] /\ InSlot(h)' = InSlot(h)
          BY <4>2, <3>1, <2>2, <1>0
        <5>2. QED BY <5>1 DEF Highest, Safe, Chained
      <4>3. QED BY <4>1, <4>2
    <3>4. \A h \in Slot : Highest(saved.arBuckets[h], h, saved.top)'
      <4> SUFFICES ASSUME NEW h \in Slot PROVE Highest(saved.arBuckets[h], h, saved.top)'
        OBVIOUS
      <4>1. Highest(saved.arBuckets[h], h, saved.top)
        BY DEF Safe, Chained
      <4>2. InSlot(h) \subseteq InSlot(h)' /\ \A a \in InSlot(h)' : a < saved.top => a \in InSlot(h)
        BY <3>1, <2>3, <1>0
      <4>3. QED BY <4>1, <4>2, <2>1 DEF Highest
    <3>5. \A h \in Slot : \A a \in InSlot(h)' : Highest(bucket[a].pNext, h, a)'
      <4> SUFFICES ASSUME NEW h \in Slot, NEW a \in InSlot(h)' PROVE Highest(bucket[a].pNext, h, a)'
        OBVIOUS
      <4>1. CASE a = new
        <5>1. h = hash[str]
          BY <4>1, <2>1, <2>3 DEF InSlot
        <5>2. Highest(arBuckets[h], h, Units + 1)
          BY DEF Safe, Chained
        <5>3. \A b \in InSlot(h) : b < new /\ b < Units + 1
          BY <2>3, <1>0 DEF InSlot
        <5>4. Highest(arBuckets[h], h, new)
          BY <5>2, <5>3 DEF Highest
        <5>5. \A b \in InSlot(h)' : b < new => b \in InSlot(h)
          BY <3>1, <2>3, <1>0
        <5>6. InSlot(h) \subseteq InSlot(h)' /\ bucket'[a].pNext = arBuckets[h]
          BY <3>1, <5>1, <4>1, <2>1, <2>3
        <5>7. QED BY <5>4, <5>5, <5>6, <4>1 DEF Highest
      <4>2. CASE a # new
        <5>1. a \in InSlot(h) /\ a < new
          BY <4>2, <3>1, <2>3 DEF InSlot
        <5>2. Highest(bucket[a].pNext, h, a)
          BY <5>1 DEF Safe, Chained
        <5>3. \A b \in InSlot(h)' : b < a => b \in InSlot(h)
          BY <3>1, <2>3, <5>1, <1>0 DEF InSlot
        <5>4. InSlot(h) \subseteq InSlot(h)'
          BY <3>1
        <5>5. QED BY <5>2, <5>3, <5>4, <2>1 DEF Highest
      <4>3. QED BY <4>1, <4>2
    <3>6. QED BY <3>2, <3>3, <3>4, <3>5, <2>1 DEF Chained, Safe
  <2>7. Added'
    BY <2>1, <2>2, <2>3 DEF Added
  <2>8. Critical'
    BY <2>1, <2>2, <2>7 DEF Critical, Walking, Adding, Safe
  <2>9. Sound'
    BY <2>1, <2>5 DEF Sound, Safe
  <2>10. QED BY <2>4, <2>6, <2>8, <2>9 DEF Safe
<1>9. CASE ListTail
  <2>1. UNCHANGED <<arBuckets, top, saved, lock, linked, users, got, str, new>>
    BY <1>9 DEF ListTail
  <2>2. pc = "list" /\ pc' = "listnext"
    BY <1>9 DEF ListTail
  <2>3. \A a \in Addr : bucket'[a].key = bucket[a].key /\ bucket'[a].pNext = bucket[a].pNext
    BY <1>9 DEF ListTail, Safe, Typed, TypeOK, Bucket
  <2>4. /\ Chained' /\ OncePerString' /\ \A r : Leads(r) => Leads(r)'
    <3>1. /\ linked' = linked /\ saved' = saved /\ arBuckets' = arBuckets
          /\ top' \in Top /\ top <= top'
      BY <2>1, <2>3, <1>0 DEF Top
    <3>2. \A a \in linked : /\ bucket'[a].key = bucket[a].key
                          /\ bucket'[a].pNext = bucket[a].pNext
      BY <2>1, <2>3, <1>0
    <3>3. QED BY <3>1, <3>2, MemoryKept, Zenon
  <2>5. Added'
    BY <2>1, <2>2, <2>3, <1>0 DEF Added, Safe, Critical
  <2>6. Critical'
    BY <2>1, <2>2, <2>5 DEF Critical, Walking, Adding, Safe
  <2>7. Sound'
    BY <2>1, <2>4 DEF Sound, Safe
  <2>8. QED BY <2>4, <2>6, <2>7 DEF Safe
<1>10. CASE ListNext
  <2>1. UNCHANGED <<arBuckets, top, saved, lock, linked, users, got, str, new>>
    BY <1>10 DEF ListNext
  <2>2. pc = "listnext" /\ pc' = "listhead"
    BY <1>10 DEF ListNext
  <2>3. \A a \in Addr : bucket'[a].key = bucket[a].key /\ bucket'[a].pNext = bucket[a].pNext
    <3> SUFFICES ASSUME NEW a \in Addr
                 PROVE  bucket'[a].key = bucket[a].key /\ bucket'[a].pNext = bucket[a].pNext
      OBVIOUS
    <3>1. bucket[a] \in Bucket
      BY DEF Safe, Typed, TypeOK
    <3>2. \/ bucket'[a] = bucket[a]
          \/ bucket'[a] = [bucket[a] EXCEPT !.pListNext = 0]
          \/ bucket'[a] = [bucket[a] EXCEPT !.pListNext = new]
      BY <1>10 DEF ListNext
    <3>3. QED BY <3>1, <3>2 DEF Bucket
  <2>4. /\ Chained' /\ OncePerString' /\ \A r : Leads(r) => Leads(r)'
    <3>1. /\ linked' = linked /\ saved' = saved /\ arBuckets' = arBuckets
          /\ top' \in Top /\ top <= top'
      BY <2>1, <2>3, <1>0 DEF Top
    <3>2. \A a \in linked : /\ bucket'[a].key = bucket[a].key
                          /\ bucket'[a].pNext = bucket[a].pNext
      BY <2>1, <2>3, <1>0
    <3>3. QED BY <3>1, <3>2, MemoryKept, Zenon
  <2>5. Added'
    BY <2>1, <2>2, <2>3, <1>0 DEF Added, Safe, Critical
  <2>6. Critical'
    BY <2>1, <2>2, <2>5 DEF Critical, Walking, Adding, Safe
  <2>7. Sound'
    BY <2>1, <2>4 DEF Sound, Safe
  <2>8. QED BY <2>4, <2>6, <2>7 DEF Safe
<1>11. CASE ListHead
  <2>1. UNCHANGED <<bucket, arBuckets, top, saved, lock, linked, users>>
    BY <1>11 DEF ListHead
  <2>2. pc = "listhead" /\ pc' = "next" /\ got' = got \cup {<<new, str>>}
    BY <1>11 DEF ListHead
  <2>3. Leads(<<new, str>>)
    BY <2>2 DEF Safe, Critical, Added, Leads
  <2>4. Critical'
    BY <2>1, <2>2 DEF Critical, Walking, Adding, Added, Safe
  <2>5. Sound'
    BY <2>1, <2>2, <2>3, <1>k DEF Sound, Safe
  <2>6. QED BY <2>1, <2>4, <2>5, <1>k DEF Safe
<1>12. QED
  BY <1>1, <1>2, <1>3, <1>4, <1>5, <1>6, <1>7, <1>8, <1>9, <1>10, <1>11 DEF NewInternedString

(* The steps that leave the buffer alone: all but a restart.                 *)
LEMMA UsersAreSafe ==
  ASSUME Safe, Typed', SaveState \/ (\E p \in Process : Request(p)) \/ UNCHANGED vars
  PROVE  Safe'
<1> USE InternedAssumption
<1>0. UNCHANGED <<bucket, arBuckets, top, linked>>
  BY DEF SaveState, Request, Activate, LoadScript, PersistCalc, Persist, Deactivate, Die, vars
<1>n. /\ arBuckets \in [Slot -> Pointer] /\ top \in Top /\ saved.top \in Top
      /\ linked \subseteq Addr /\ refs \in [Process -> SUBSET Place]
  BY DEF Safe, Typed, TypeOK, Table
<1>k. ASSUME UNCHANGED saved
      PROVE  /\ Chained' /\ OncePerString' /\ \A h \in Slot : InSlot(h)' = InSlot(h)
             /\ \A r : Leads(r) => Leads(r)'
  <2>1. /\ linked' = linked /\ saved' = saved /\ arBuckets' = arBuckets
        /\ top' \in Top /\ top <= top'
    BY <1>0, <1>n, <1>k DEF Top
  <2>2. \A a \in linked : /\ bucket'[a].key = bucket[a].key
                        /\ bucket'[a].pNext = bucket[a].pNext
    BY <1>0, <1>n, <1>k
  <2>3. QED BY <2>1, <2>2, MemoryKept, Zenon
<1>1. CASE SaveState
  <2>1. /\ UNCHANGED <<scripts, refs, mem_usage>> /\ engine' = got /\ got' = {}
        /\ lock' = NoString /\ pc = "next" /\ pc' = "next" /\ todo = {} /\ todo' = {}
    BY <1>1 DEF SaveState
  <2>2. saved'.arBuckets = arBuckets /\ saved'.top = top
    BY <1>1 DEF SaveState
  <2>3. OncePerString'
    BY <1>0 DEF OncePerString, Safe
  <2>4. \A r : Leads(r) => Leads(r)' /\ r[1] < saved'.top
    BY <1>0, <2>2 DEF Leads, Safe, Chained
  <2>5. \A h \in Slot : InSlot(h)' = InSlot(h)
    BY <1>0 DEF InSlot
  <2>6. Chained'
    <3>1. \A h \in Slot : Highest(arBuckets[h], h, Units + 1)'
      BY <1>0, <2>5 DEF Safe, Chained, Highest
    <3>2. \A h \in Slot : Highest(saved.arBuckets[h], h, saved.top)'
      <4>1. \A h \in Slot : \A a \in InSlot(h) : a < Units + 1 /\ a < top
        BY <1>n DEF InSlot, Safe, Chained
      <4>2. QED BY <2>2, <2>5, <4>1 DEF Safe, Chained, Highest
    <3>3. \A h \in Slot : \A a \in InSlot(h)' : Highest(bucket[a].pNext, h, a)'
      BY <1>0, <2>5 DEF Safe, Chained, Highest
    <3>4. saved'.top <= top'
      BY <1>0, <2>2, <1>n
    <3>5. \A a \in linked' : bucket'[a].key \in String /\ a < top'
      BY <1>0 DEF Safe, Chained
    <3>6. QED BY <3>1, <3>2, <3>3, <3>4, <3>5 DEF Chained
  <2>7. Critical'
    BY <2>1 DEF Critical, Walking, Adding, Added, Safe
  <2>8. Sound'
    BY <2>1, <2>4 DEF Sound, Safe
  <2>9. QED BY <2>3, <2>6, <2>7, <2>8 DEF Safe
<1>2. ASSUME NEW p \in Process, Request(p) PROVE Safe'
  <2>0. UNCHANGED <<saved, engine>>
    BY <1>2 DEF Request, Activate, LoadScript, PersistCalc, Persist, Deactivate, Die
  <2>1. CASE Activate(p)
    <3>1. UNCHANGED <<lock, cs, scripts, refs>> /\ mem_usage' = mem_usage \cup {p}
      BY <2>1 DEF Activate
    <3>2. \A h \in Slot : InSlot(h)' = InSlot(h)
      BY <2>0, <1>k
    <3>3. Walking'
      BY <3>1, <1>0 DEF Walking, InSlot, Safe, Critical
    <3>4. Critical'
      BY <3>1, <3>3, <1>0, <2>0 DEF Critical, Adding, Added, Safe
    <3>5. Sound'
      BY <3>1, <2>0, <1>k DEF Sound, Safe
    <3>6. QED BY <3>4, <3>5, <2>0, <1>k DEF Safe
  <2>2. CASE LoadScript(p)
    <3>1. UNCHANGED <<lock, cs, scripts, mem_usage>> /\ p \in mem_usage
          /\ refs' = [refs EXCEPT ![p] = @ \cup scripts]
      BY <2>2 DEF LoadScript
    <3>2. Critical'
      BY <3>1, <1>0, <2>0 DEF Critical, Walking, InSlot, Adding, Added, Safe
    <3>3. Sound'
      BY <3>1, <2>0, <1>k, <1>n DEF Sound, Safe
    <3>4. QED BY <3>2, <3>3, <2>0, <1>k DEF Safe
  <2>3. CASE PersistCalc(p)
    <3>1. UNCHANGED <<got, local, scripts, refs, mem_usage>> /\ p \in mem_usage
          /\ lock' = p /\ pc' = "next" /\ lock = NoString
      BY <2>3 DEF PersistCalc
    <3>2. Critical'
      BY <3>1 DEF Critical, Walking, Adding, Added, Safe
    <3>3. Sound'
      BY <3>1, <2>0, <1>k DEF Sound, Safe
    <3>4. QED BY <3>2, <3>3, <2>0, <1>k DEF Safe
  <2>4. ASSUME NEW stored \in BOOLEAN, Persist(p, stored) PROVE Safe'
    <3>1. UNCHANGED <<todo, mem_usage>> /\ lock = p /\ lock' = NoString /\ pc' = "next"
          /\ got' = {} /\ todo = {} /\ refs' = [refs EXCEPT ![p] = @ \cup got]
      BY <2>4 DEF Persist
    <3>2. \A r \in scripts' : r \in scripts \/ r \in got
      BY <2>4 DEF Persist
    <3>3. p \in mem_usage
      BY <3>1 DEF Safe, Critical
    <3>4. Critical'
      BY <3>1 DEF Critical, Walking, Adding, Added, Safe
    <3>5. Sound'
      BY <3>1, <3>2, <3>3, <2>0, <1>k, <1>n DEF Sound, Safe
    <3>6. QED BY <3>4, <3>5, <2>0, <1>k DEF Safe
  <2>5. CASE Deactivate(p)
    <3>1. UNCHANGED <<lock, cs, scripts>> /\ mem_usage' = mem_usage \ {p} /\ lock # p
          /\ refs' = [refs EXCEPT ![p] = {}]
      BY <2>5 DEF Deactivate
    <3>2. Critical'
      BY <3>1, <1>0, <2>0 DEF Critical, Walking, InSlot, Adding, Added, Safe
    <3>3. Sound'
      BY <3>1, <2>0, <1>k, <1>n DEF Sound, Safe
    <3>4. QED BY <3>2, <3>3, <2>0, <1>k DEF Safe
  <2>6. CASE Die(p)
    <3>1. UNCHANGED scripts /\ mem_usage' = mem_usage \ {p} /\ refs' = [refs EXCEPT ![p] = {}]
      BY <2>6 DEF Die
    <3>2. CASE lock = p
      <4>1. lock' = NoString /\ pc' = "next" /\ todo' = {} /\ got' = {}
        BY <2>6, <3>2 DEF Die
      <4>2. Critical'
        BY <4>1 DEF Critical, Walking, Adding, Added, Safe
      <4>3. Sound'
        BY <3>1, <4>1, <2>0, <1>k, <1>n DEF Sound, Safe
      <4>4. QED BY <4>2, <4>3, <2>0, <1>k DEF Safe
    <3>3. CASE lock # p
      <4>1. UNCHANGED <<lock, cs>>
        BY <2>6, <3>3 DEF Die
      <4>2. Critical'
        BY <3>1, <3>3, <4>1, <1>0, <2>0 DEF Critical, Walking, InSlot, Adding, Added, Safe
      <4>3. Sound'
        BY <3>1, <4>1, <2>0, <1>k, <1>n DEF Sound, Safe
      <4>4. QED BY <4>2, <4>3, <2>0, <1>k DEF Safe
    <3>4. QED BY <3>2, <3>3
  <2>7. QED BY <1>2, <2>1, <2>2, <2>3, <2>4, <2>5, <2>6 DEF Request
<1>3. CASE UNCHANGED vars
  <2>1. UNCHANGED <<saved, lock, cs, users>>
    BY <1>3 DEF vars
  <2>2. Critical'
    BY <2>1, <1>0 DEF Critical, Walking, InSlot, Adding, Added, Safe
  <2>3. Sound'
    BY <2>1, <1>k DEF Sound, Safe
  <2>4. QED BY <2>1, <2>2, <2>3, <1>k DEF Safe
<1>4. QED BY <1>1, <1>2, <1>3

(* A restart leaves what was there when the state was saved.  Nobody uses the *)
(* cache, so nobody misses the rest.                                         *)
LEMMA RestartIsSafe ==
  ASSUME Safe, Typed', Restart
  PROVE  Safe'
<1> USE InternedAssumption
<1>0. /\ top \in Top /\ saved.top \in Top /\ linked \subseteq Addr
      /\ saved.arBuckets \in [Slot -> Pointer] /\ bucket \in [Addr -> Bucket]
  BY DEF Safe, Typed, TypeOK, Table
<1>1. /\ lock = NoString /\ mem_usage = {} /\ scripts' = {} /\ top' = saved.top
      /\ arBuckets' = saved.arBuckets /\ linked' = {a \in linked : a < saved.top}
      /\ UNCHANGED <<saved, lock, cs, engine, refs, mem_usage>> /\ bucket' = CutList
  BY DEF Restart
<1>2. \A a \in Addr : bucket'[a].key = bucket[a].key /\ bucket'[a].pNext = bucket[a].pNext
  <2> SUFFICES ASSUME NEW a \in Addr
               PROVE  bucket'[a].key = bucket[a].key /\ bucket'[a].pNext = bucket[a].pNext
    OBVIOUS
  <2>1. bucket[a] \in Bucket
    BY <1>0
  <2>2. bucket'[a] = bucket[a] \/ bucket'[a] = [bucket[a] EXCEPT !.pListNext = 0]
    BY <1>0, <1>1 DEF CutList
  <2>3. QED BY <2>1, <2>2 DEF Bucket
<1>3. \A h \in Slot : InSlot(h)' = {a \in InSlot(h) : a < saved.top}
  BY <1>0, <1>1, <1>2 DEF InSlot
<1>4. OncePerString'
  <2>1. \A a \in linked' : a \in linked /\ bucket'[a].key = bucket[a].key
    BY <1>0, <1>1, <1>2
  <2>2. \A a, b \in linked : bucket[a].key = bucket[b].key => a = b
    BY DEF Safe, OncePerString
  <2>3. QED BY <2>1, <2>2 DEF OncePerString
<1>5. Chained'
  <2>1. \A h \in Slot : Highest(saved.arBuckets[h], h, saved.top)
    BY DEF Safe, Chained
  <2>2. \A h \in Slot : Highest(arBuckets[h], h, Units + 1)'
    <3> SUFFICES ASSUME NEW h \in Slot PROVE Highest(arBuckets[h], h, Units + 1)'
      OBVIOUS
    <3>1. \A a \in InSlot(h)' : a \in InSlot(h) /\ a < saved.top
      BY <1>3
    <3>2. \A a \in InSlot(h) : a \in Addr /\ a < Units + 1
      <4>1. \A a \in Addr : a < Units + 1
        OBVIOUS
      <4>2. QED BY <4>1, <1>0 DEF InSlot
    <3>3. arBuckets'[h] # 0 => arBuckets'[h] \in InSlot(h)' /\ arBuckets'[h] < Units + 1
      BY <1>1, <1>3, <2>1, <3>2 DEF Highest
    <3>4. QED BY <1>1, <2>1, <3>1, <3>3 DEF Highest
  <2>3. \A h \in Slot : Highest(saved.arBuckets[h], h, saved.top)'
    BY <1>1, <1>3, <2>1 DEF Highest
  <2>4. \A h \in Slot : \A a \in InSlot(h)' : Highest(bucket[a].pNext, h, a)'
    <3> SUFFICES ASSUME NEW h \in Slot, NEW a \in InSlot(h)' PROVE Highest(bucket[a].pNext, h, a)'
      OBVIOUS
    <3>1. a \in InSlot(h) /\ a < saved.top /\ a \in Addr
      BY <1>0, <1>3 DEF InSlot
    <3>2. Highest(bucket[a].pNext, h, a) /\ bucket'[a].pNext = bucket[a].pNext
      BY <3>1, <1>2 DEF Safe, Chained
    <3>3. \A b \in InSlot(h) : b \in Addr
      BY <1>0 DEF InSlot
    <3>4. bucket[a].pNext # 0 => bucket[a].pNext \in InSlot(h)'
      <4> SUFFICES ASSUME bucket[a].pNext # 0 PROVE bucket[a].pNext \in InSlot(h)'
        OBVIOUS
      <4>1. bucket[a].pNext \in InSlot(h) /\ bucket[a].pNext < a
        BY <3>2 DEF Highest
      <4>2. bucket[a].pNext < saved.top
        <5>1. \A x, y \in Addr, z \in Top : x < y /\ y < z => x < z
          OBVIOUS
        <5>2. bucket[a].pNext \in Addr /\ a < saved.top
          BY <4>1, <3>1, <3>3
        <5>3. QED BY <4>1, <5>1, <5>2, <3>1, <1>0, Zenon
      <4>3. QED BY <4>1, <4>2, <1>3
    <3>5. \A b \in InSlot(h)' : b \in InSlot(h)
      BY <1>3
    <3>6. QED BY <3>2, <3>4, <3>5 DEF Highest
  <2>5. \A a \in linked' : bucket'[a].key \in String /\ a < top'
    BY <1>0, <1>1, <1>2 DEF Safe, Chained
  <2>6. saved'.top <= top'
    BY <1>0, <1>1
  <2>7. QED BY <2>2, <2>3, <2>4, <2>5, <2>6 DEF Chained
<1>6. Critical'
  BY <1>1 DEF Critical, Walking, Adding, Added, Safe
<1>7. Sound'
  <2>1. \A r \in engine' : Leads(r)' /\ r[1] < saved'.top
    BY <1>0, <1>1, <1>2 DEF Sound, Safe, Leads
  <2>2. got' = {} /\ \A p \in Process : refs'[p] = {}
    BY <1>1 DEF Sound, Safe, Critical
  <2>3. QED BY <1>1, <2>1, <2>2 DEF Sound
<1>8. QED BY <1>4, <1>5, <1>6, <1>7 DEF Safe

(* Safe is inductive.                                                        *)
LEMMA AlwaysSafe == Spec => []Safe
<1>1. Safe /\ [Next]_vars => Safe'
  <2> SUFFICES ASSUME Safe, [Next]_vars PROVE Safe'
    OBVIOUS
  <2>1. Typed'
    BY TypesHold DEF Safe
  <2>2. CASE NewInternedString
    BY <2>1, <2>2, InterningIsSafe
  <2>3. CASE Restart
    BY <2>1, <2>3, RestartIsSafe
  <2>4. CASE SaveState \/ (\E p \in Process : Request(p)) \/ UNCHANGED vars
    BY <2>1, <2>4, UsersAreSafe
  <2>5. QED BY <2>2, <2>3, <2>4 DEF Next
<1>2. QED BY <1>1, SafeInit, PTL DEF Spec

(* A pointer that PHP, a cached script or a request holds leads to the string *)
(* it was interned for, whatever dies and however often the cache restarts.  *)
THEOREM PointersStayValid == Spec => []StringsStay
<1>1. Safe => StringsStay
  <2> SUFFICES ASSUME Safe, NEW r \in Pointers PROVE r[1] \in Addr /\ bucket[r[1]].key = r[2]
    BY DEF StringsStay
  <2>1. Leads(r)
    BY DEF Pointers, Safe, Sound
  <2>2. linked \subseteq Addr
    BY DEF Safe, Typed, TypeOK
  <2>3. QED BY <2>1, <2>2 DEF Leads
<1>2. QED BY <1>1, AlwaysSafe, PTL

(* No string is stored twice, so pointers to interned strings may be compared *)
(* instead of the strings.                                                   *)
THEOREM InternedOnce == Spec => []OncePerString
<1>1. Safe => OncePerString
  BY DEF Safe
<1>2. QED BY <1>1, AlwaysSafe, PTL

-----------------------------------------------------------------------------
(* The list.  In a set L of addresses, q follows a, or is NULL; and q is the   *)
(* end of the set, or NULL.                                                  *)
Follows(q, a, L) ==
  /\ q # 0 => q \in L /\ a < q
  /\ \A b \in L : a < b => q # 0 /\ q <= b
EndOf(q, L) ==
  /\ q # 0 => q \in L
  /\ \A b \in L : b <= q

AddingToList == {"list", "listnext", "listhead"}
Before == linked \ {new}
SavedLinks == {a \in linked : a < saved.top}

(* The list is whole, or what it lacks is what the process has yet to write.  *)
ListBetween ==
  ~torn /\ pc \notin AddingToList =>
    /\ Follows(pListHead, 0, linked) /\ EndOf(pListTail, linked)
    /\ \A a \in linked : Follows(bucket[a].pListNext, a, linked)
ListDuring ==
  /\ pc \in AddingToList => \A a \in linked : a <= new
  /\ ~torn /\ pc \in AddingToList => Follows(pListHead, 0, Before)
  /\ ~torn /\ pc = "list" => EndOf(pListTail, Before)
  /\ ~torn /\ pc = "listnext" => EndOf(bucket[new].pListLast, Before)
  /\ ~torn /\ pc \in {"listnext", "listhead"} => pListTail = new
  /\ ~torn /\ pc \in {"list", "listnext"} =>
       \A a \in Before : Follows(bucket[a].pListNext, a, Before)
  /\ ~torn /\ pc = "listhead" => \A a \in linked : Follows(bucket[a].pListNext, a, linked)

(* Even a torn list has the saved one in it, up to the successor of its last. *)
LaterThanSaved(q) == q = saved.pListTail \/ saved.top <= q
SavedList ==
  /\ Follows(saved.pListHead, 0, SavedLinks) /\ EndOf(saved.pListTail, SavedLinks)
  /\ \A a \in SavedLinks : a # saved.pListTail => Follows(bucket[a].pListNext, a, SavedLinks)
  /\ LaterThanSaved(pListTail)
  /\ pc = "listnext" => LaterThanSaved(bucket[new].pListLast)
ParentIsAlone == lock = Parent => ~torn /\ mem_usage = {}

Listed == ListBetween /\ ListDuring /\ SavedList /\ ParentIsAlone

LEMMA ListedInit == Init => Listed
BY InternedAssumption DEF Init, Listed, ListBetween, ListDuring, SavedList, ParentIsAlone, Follows,
   EndOf, AddingToList, Before, SavedLinks, LaterThanSaved

LEMMA ListedAddresses ==
  Safe => /\ linked \subseteq Addr /\ top \in Top /\ saved.top \in Top /\ new \in Pointer
          /\ pListTail \in Pointer /\ pListHead \in Pointer /\ saved.pListTail \in Pointer
          /\ saved.pListHead \in Pointer /\ bucket \in [Addr -> Bucket]
          /\ \A a \in Addr : bucket[a].pListNext \in Pointer /\ bucket[a].pListLast \in Pointer
BY BucketTypes DEF Safe, Typed, TypeOK, Table

(* Steps that write neither the list nor linked keep it, when they do not     *)
(* begin or end an insertion.                                                *)
LEMMA ListKept ==
  ASSUME Safe, Listed, UNCHANGED <<linked, saved, pListHead, pListTail, torn>>,
         pc' \notin AddingToList, pc \notin AddingToList,
         \A a \in linked : bucket'[a].pListNext = bucket[a].pListNext,
         ParentIsAlone'
  PROVE  Listed'
<1>1. ListBetween'
  BY DEF Listed, ListBetween, Follows, EndOf
<1>2. ListDuring'
  BY DEF Listed, ListDuring, AddingToList
<1>3. SavedList'
  BY DEF Listed, SavedList, SavedLinks, Follows, EndOf, LaterThanSaved, AddingToList
<1>4. QED BY <1>1, <1>2, <1>3 DEF Listed

LEMMA InterningKeepsTheList == Safe /\ Safe' /\ Listed /\ NewInternedString => Listed'
<1> SUFFICES ASSUME Safe, Safe', Listed, NewInternedString PROVE Listed'
  OBVIOUS
<1> USE InternedAssumption, ListedAddresses
<1>1. CASE NextString \/ WalkOn \/ WalkFinds \/ WalkOverflows \/ Bump
  <2>1. UNCHANGED <<bucket, linked, saved, pListHead, pListTail, torn, lock, mem_usage>>
    BY <1>1 DEF NextString, WalkOn, WalkFinds, WalkOverflows, Bump
  <2>2. pc \in {"next", "walk"} /\ pc' \in {"next", "walk", "fill"}
    BY <1>1 DEF NextString, WalkOn, WalkFinds, WalkOverflows, Bump
  <2>3. ParentIsAlone'
    BY <2>1 DEF Listed, ParentIsAlone
  <2>4. QED BY <2>1, <2>2, <2>3, ListKept DEF AddingToList
<1>2. CASE Fill
  <2>1. UNCHANGED <<linked, saved, pListHead, pListTail, torn, lock, mem_usage>>
    BY <1>2 DEF Fill
  <2>2. pc = "fill" /\ pc' = "chain" /\ str \in String /\ new \in Addr
    BY <1>2 DEF Fill, Safe, Typed, TypeOK, HasString
  <2>3. \A a \in linked : bucket'[a].pListNext = bucket[a].pListNext
    <3> SUFFICES ASSUME NEW a \in linked PROVE bucket'[a] = bucket[a]
      OBVIOUS
    <3>1. a \in Addr /\ a < new /\ size[str] \in Nat
      BY <2>2 DEF Safe, Critical, Adding
    <3>2. a # new /\ a \notin (new + 1)..(new + size[str] - 1)
      BY <2>2, <3>1
    <3>3. QED BY <1>2, <3>1, <3>2 DEF Fill
  <2>4. ParentIsAlone'
    BY <2>1 DEF Listed, ParentIsAlone
  <2>5. QED BY <2>1, <2>2, <2>3, <2>4, ListKept DEF AddingToList
<1>3. CASE LinkNext
  <2>1. UNCHANGED <<linked, saved, pListHead, pListTail, torn, lock, mem_usage>>
    BY <1>3 DEF LinkNext
  <2>2. pc = "chain" /\ pc' = "bucket" /\ new \in Addr
    BY <1>3 DEF LinkNext, Safe, Typed, TypeOK, HasString
  <2>3. \A a \in linked : bucket'[a].pListNext = bucket[a].pListNext
    <3>1. \A a \in linked : a \in Addr /\ a # new
      BY <2>2 DEF Safe, Critical, Adding
    <3>2. QED BY <1>3, <3>1 DEF LinkNext
  <2>4. ParentIsAlone'
    BY <2>1 DEF Listed, ParentIsAlone
  <2>5. QED BY <2>1, <2>2, <2>3, <2>4, ListKept DEF AddingToList
<1>4. CASE LinkHead
  <2>1. UNCHANGED <<bucket, saved, pListHead, pListTail, torn, lock, mem_usage, new>>
    BY <1>4 DEF LinkHead
  <2>2. pc = "bucket" /\ pc' = "list" /\ linked' = linked \cup {new}
    BY <1>4 DEF LinkHead
  <2>3. new \in Addr /\ saved.top <= new /\ \A a \in linked : a < new
    BY <2>2 DEF Safe, Typed, TypeOK, HasString, Critical, Adding
  <2>4. Before' = linked /\ SavedLinks' = SavedLinks
    BY <2>1, <2>2, <2>3 DEF Before, SavedLinks
  <2>5. ListDuring'
    <3>1. ~torn => /\ Follows(pListHead, 0, linked) /\ EndOf(pListTail, linked)
                   /\ \A a \in linked : Follows(bucket[a].pListNext, a, linked)
      BY <2>2 DEF Listed, ListBetween, AddingToList
    <3>2. \A a \in linked' : a <= new'
      BY <2>1, <2>2, <2>3
    <3>3. QED BY <2>1, <2>2, <2>4, <3>1, <3>2 DEF ListDuring, Follows, EndOf
  <2>6. SavedList'
    BY <2>1, <2>2, <2>4 DEF Listed, SavedList, Follows, EndOf, LaterThanSaved
  <2>7. QED BY <2>1, <2>2, <2>5, <2>6 DEF Listed, ListBetween, AddingToList, ParentIsAlone
<1>5. CASE ListTail
  <2>1. UNCHANGED <<linked, saved, pListHead, torn, lock, mem_usage, new>>
    BY <1>5 DEF ListTail
  <2>2. pc = "list" /\ pc' = "listnext" /\ pListTail' = new /\ new \in Addr /\ saved.top <= new
    BY <1>5 DEF ListTail, Safe, Typed, TypeOK, HasString, Critical, Added
  <2>3. /\ \A a \in Addr : bucket'[a].pListNext = bucket[a].pListNext
        /\ bucket'[new].pListLast = pListTail
    BY <1>5, <2>2 DEF ListTail, Bucket
  <2>4. Before' = Before /\ SavedLinks' = SavedLinks /\ Before \subseteq Addr /\ SavedLinks \subseteq Addr
    BY <2>1 DEF Before, SavedLinks
  <2>5. ListDuring'
    BY <2>1, <2>2, <2>3, <2>4 DEF Listed, ListDuring, AddingToList, Follows, EndOf
  <2>6. SavedList'
    BY <2>1, <2>2, <2>3, <2>4 DEF Listed, SavedList, Follows, EndOf, LaterThanSaved
  <2>7. QED BY <2>1, <2>2, <2>5, <2>6 DEF Listed, ListBetween, AddingToList, ParentIsAlone
<1>6. CASE ListNext
  <2>1. UNCHANGED <<linked, saved, pListHead, pListTail, torn, lock, mem_usage, new>>
    BY <1>6 DEF ListNext
  <2>2. /\ pc = "listnext" /\ pc' = "listhead" /\ new \in Addr /\ new \in linked /\ saved.top <= new
        /\ \A a \in linked : a <= new
    BY <1>6 DEF ListNext, Safe, Typed, TypeOK, HasString, Critical, Added, Listed, ListDuring,
       AddingToList
  <2> DEFINE last == bucket[new].pListLast
  <2>3. /\ bucket'[new].pListNext = 0
        /\ last \in Addr /\ last # new => bucket'[last].pListNext = new
        /\ \A a \in Addr : a # new /\ a # last => bucket'[a] = bucket[a]
    BY <1>6, <2>2 DEF ListNext, Bucket
  <2>4. last \in Pointer /\ LaterThanSaved(last)
    BY <2>2 DEF Listed, SavedList
  <2> HIDE DEF last
  <2>5. SavedList'
    <3>1. SavedLinks' = SavedLinks /\ SavedLinks \subseteq Addr
      BY <2>1 DEF SavedLinks
    <3>2. \A a \in SavedLinks : a # new /\ (a = last => a = saved.pListTail)
      BY <2>2, <2>4 DEF SavedLinks, LaterThanSaved
    <3>3. \A a \in SavedLinks : a # saved.pListTail => bucket'[a] = bucket[a]
      BY <3>1, <3>2, <2>3
    <3>4. QED BY <2>1, <2>2, <3>1, <3>3 DEF Listed, SavedList, Follows, EndOf, LaterThanSaved
  <2>6. ASSUME ~torn, NEW a \in linked PROVE Follows(bucket'[a].pListNext, a, linked)
    <3>1. EndOf(last, Before) /\ \A b \in Before : Follows(bucket[b].pListNext, b, Before)
      BY <2>2, <2>6 DEF Listed, ListDuring, last
    <3>2. \A b \in Before : b < new /\ b \in Addr /\ b <= last
      BY <2>2, <3>1 DEF Before, EndOf
    <3>3. CASE a = new
      BY <3>3, <2>2, <2>3 DEF Follows
    <3>4. CASE a # new /\ a = last
      <4>1. bucket'[a].pListNext = new /\ a \in Before
        BY <3>4, <2>3 DEF Before
      <4>2. \A b \in linked : a < b => b = new
        BY <3>2, <3>4, <4>1 DEF Before
      <4>3. QED BY <4>1, <4>2, <3>2, <2>2 DEF Follows
    <3>5. CASE a # new /\ a # last
      <4>1. bucket'[a] = bucket[a] /\ a \in Before /\ a < last
        BY <3>5, <3>2, <2>3, <2>4 DEF Before
      <4>2. Follows(bucket[a].pListNext, a, Before) /\ last \in Before
        BY <4>1, <3>1, <2>4 DEF EndOf
      <4>3. bucket[a].pListNext \in Before /\ a < bucket[a].pListNext
        BY <4>1, <4>2 DEF Follows
      <4>4. \A b \in linked : a < b => bucket[a].pListNext <= b
        BY <4>2, <4>3, <3>2 DEF Follows, Before
      <4>5. QED BY <4>1, <4>3, <4>4 DEF Follows, Before
    <3>6. QED BY <3>3, <3>4, <3>5
  <2>7. ListDuring'
    <3>1. Before' = Before
      BY <2>1 DEF Before
    <3>2. QED BY <2>1, <2>2, <2>6, <3>1 DEF Listed, ListDuring, AddingToList, Follows
  <2>8. QED BY <2>1, <2>2, <2>5, <2>7 DEF Listed, ListBetween, AddingToList, ParentIsAlone
<1>7. CASE ListHead
  <2>1. UNCHANGED <<bucket, linked, saved, pListTail, torn, lock, mem_usage>>
    BY <1>7 DEF ListHead
  <2>2. /\ pc = "listhead" /\ pc' = "next" /\ new \in linked /\ new \in Addr
        /\ \A a \in linked : a <= new
        /\ pListHead' = IF pListHead = 0 THEN new ELSE pListHead
    BY <1>7 DEF ListHead, Safe, Typed, TypeOK, HasString, Critical, Added, Listed, ListDuring,
       AddingToList
  <2>3. ASSUME ~torn PROVE Follows(pListHead', 0, linked) /\ EndOf(pListTail, linked)
    <3>1. Follows(pListHead, 0, Before) /\ pListTail = new
      BY <2>2, <2>3 DEF Listed, ListDuring, AddingToList
    <3>2. EndOf(pListTail, linked)
      BY <3>1, <2>2 DEF EndOf
    <3>3. CASE pListHead = 0
      <4>1. \A b \in linked : b = new
        BY <3>1, <3>3 DEF Follows, Before
      <4>2. QED BY <4>1, <3>2, <3>3, <2>2 DEF Follows
    <3>4. CASE pListHead # 0
      <4>1. pListHead \in Before /\ \A b \in Before : pListHead <= b
        BY <3>1, <3>4 DEF Follows, Before
      <4>2. QED BY <4>1, <3>2, <3>4, <2>2 DEF Follows, Before
    <3>5. QED BY <3>3, <3>4
  <2>4. ListBetween'
    BY <2>1, <2>2, <2>3 DEF Listed, ListDuring, ListBetween, Follows, EndOf
  <2>5. SavedList'
    BY <2>1, <2>2 DEF Listed, SavedList, SavedLinks, Follows, EndOf, LaterThanSaved
  <2>6. QED BY <2>1, <2>2, <2>4, <2>5 DEF Listed, ListDuring, AddingToList, ParentIsAlone
<1>8. QED
  BY <1>1, <1>2, <1>3, <1>4, <1>5, <1>6, <1>7 DEF NewInternedString

(* The saved list is the list of the parent, and a restart brings it back.   *)
LEMMA OthersKeepTheList ==
  ASSUME Safe, Listed, SaveState \/ Restart \/ (\E p \in Process : Request(p)) \/ UNCHANGED vars
  PROVE  Listed'
<1> USE InternedAssumption, ListedAddresses
<1>1. CASE SaveState
  <2>1. /\ UNCHANGED <<bucket, linked, pListHead, pListTail, torn, mem_usage>> /\ lock = Parent
        /\ pc = "next" /\ pc' = "next" /\ lock' = NoString
    BY <1>1 DEF SaveState
  <2>2. saved'.pListHead = pListHead /\ saved'.pListTail = pListTail /\ saved'.top = top
    BY <1>1 DEF SaveState
  <2>3. SavedLinks' = linked
    BY <2>1, <2>2 DEF SavedLinks, Safe, Chained
  <2>4. /\ Follows(pListHead, 0, linked) /\ EndOf(pListTail, linked)
        /\ \A a \in linked : Follows(bucket[a].pListNext, a, linked)
    BY <2>1 DEF Listed, ParentIsAlone, ListBetween, AddingToList
  <2>5. ListBetween' /\ ListDuring'
    BY <2>1, <2>4 DEF ListBetween, ListDuring, AddingToList, Follows, EndOf
  <2>6. SavedList'
    BY <2>1, <2>2, <2>3, <2>4 DEF SavedList, Follows, EndOf, LaterThanSaved
  <2>7. ParentIsAlone'
    BY <2>1 DEF ParentIsAlone
  <2>8. QED BY <2>5, <2>6, <2>7 DEF Listed
<1>2. CASE Restart
  <2>1. /\ UNCHANGED <<saved, lock, pc>> /\ lock = NoString /\ bucket' = CutList
        /\ pListHead' = saved.pListHead /\ pListTail' = saved.pListTail /\ linked' = SavedLinks
    BY <1>2 DEF Restart, SavedLinks
  <2>2. pc = "next" /\ pc' = "next"
    BY <2>1 DEF Safe, Critical
  <2>3. SavedLinks' = SavedLinks /\ SavedLinks \subseteq Addr
    BY <2>1 DEF SavedLinks
  <2>4. /\ Follows(saved.pListHead, 0, SavedLinks) /\ EndOf(saved.pListTail, SavedLinks)
        /\ \A a \in SavedLinks : a # saved.pListTail => Follows(bucket[a].pListNext, a, SavedLinks)
    BY DEF Listed, SavedList
  <2>5. \A a \in SavedLinks : Follows(bucket'[a].pListNext, a, SavedLinks)
    <3> SUFFICES ASSUME NEW a \in SavedLinks PROVE Follows(bucket'[a].pListNext, a, SavedLinks)
      OBVIOUS
    <3>1. CASE a = saved.pListTail
      <4>1. bucket'[a].pListNext = 0
        BY <3>1, <2>1, <2>3 DEF CutList, Bucket
      <4>2. \A b \in SavedLinks : ~(a < b)
        BY <3>1, <2>3, <2>4 DEF EndOf
      <4>3. QED BY <4>1, <4>2 DEF Follows
    <3>2. CASE a # saved.pListTail
      <4>1. bucket'[a] = bucket[a]
        BY <3>2, <2>1, <2>3 DEF CutList
      <4>2. QED BY <3>2, <4>1, <2>4
    <3>3. QED BY <3>1, <3>2
  <2>6. ListBetween'
    BY <2>1, <2>4, <2>5 DEF ListBetween, Follows, EndOf
  <2>7. SavedList'
    BY <2>1, <2>2, <2>3, <2>4, <2>5 DEF SavedList, Follows, EndOf, LaterThanSaved
  <2>8. ListDuring' /\ ParentIsAlone'
    BY <2>1, <2>2 DEF ListDuring, AddingToList, ParentIsAlone
  <2>9. QED BY <2>6, <2>7, <2>8 DEF Listed
<1>3. ASSUME NEW p \in Process, Request(p) PROVE Listed'
  <2>0. UNCHANGED <<bucket, pListHead, pListTail, saved, linked>>
    BY <1>3 DEF Request, Activate, LoadScript, PersistCalc, Persist, Deactivate, Die
  <2>1. CASE Die(p) /\ lock = p
    <3>1. /\ pc' = "next" /\ lock' = NoString
          /\ torn' = (torn \/ pc \in {"list", "listnext", "listhead"})
      BY <2>1 DEF Die
    <3>2. ListBetween'
      BY <2>0, <3>1 DEF Listed, ListBetween, AddingToList, Follows, EndOf
    <3>3. SavedList'
      BY <2>0, <3>1 DEF Listed, SavedList, SavedLinks, Follows, EndOf, LaterThanSaved
    <3>4. QED BY <3>1, <3>2, <3>3 DEF Listed, ListDuring, AddingToList, ParentIsAlone
  <2>2. CASE ~(Die(p) /\ lock = p)
    <3>1. UNCHANGED torn
      BY <1>3, <2>2 DEF Request, Activate, LoadScript, PersistCalc, Persist, Deactivate, Die
    <3>2. \/ UNCHANGED <<pc, new>>
          \/ pc = "next" /\ pc' = "next"
      BY <1>3, <2>2 DEF Request, Activate, LoadScript, PersistCalc, Persist, Deactivate, Die, Safe,
         Critical
    <3>3. ParentIsAlone'
      <4>1. lock' = Parent => lock = Parent /\ ~Activate(p)
        BY <1>3 DEF Request, Activate, LoadScript, PersistCalc, Persist, Deactivate, Die
      <4>2. ~Activate(p) => mem_usage' \subseteq mem_usage
        BY <1>3 DEF Request, LoadScript, PersistCalc, Persist, Deactivate, Die
      <4>3. QED BY <4>1, <4>2, <3>1 DEF Listed, ParentIsAlone
    <3>4. CASE UNCHANGED <<pc, new>>
      BY <2>0, <3>1, <3>3, <3>4 DEF Listed, ListBetween, ListDuring, SavedList, SavedLinks, Before,
         Follows, EndOf, LaterThanSaved
    <3>5. CASE pc = "next" /\ pc' = "next"
      BY <2>0, <3>1, <3>3, <3>5, ListKept DEF AddingToList
    <3>6. QED BY <3>2, <3>4, <3>5
  <2>3. QED BY <2>1, <2>2
<1>4. CASE UNCHANGED vars
  BY <1>4 DEF vars, Listed, ListBetween, ListDuring, SavedList, SavedLinks, Before, Follows, EndOf,
     LaterThanSaved, ParentIsAlone
<1>5. QED BY <1>1, <1>2, <1>3, <1>4

(* The list visits all strings in the order they came, unless a process died  *)
(* while it linked one, and after a restart it does so again.                *)
THEOREM StringListIsWhole == Spec => []ListIsWhole
<1>1. Safe /\ Safe' /\ Listed /\ [Next]_vars => Listed'
  BY InterningKeepsTheList, OthersKeepTheList DEF Next
<1>2. Safe /\ Listed => ListIsWhole
  <2> SUFFICES ASSUME Safe, Listed, ~torn, pc \notin Linking
               PROVE  pListHead = Following(0) /\ \A a \in linked : bucket[a].pListNext = Following(a)
    BY DEF ListIsWhole
  <2> USE InternedAssumption, ListedAddresses
  <2>1. /\ Follows(pListHead, 0, linked)
        /\ \A a \in linked : Follows(bucket[a].pListNext, a, linked)
    BY DEF Listed, ListBetween, AddingToList
  <2>2. ASSUME NEW a \in Pointer, NEW q \in Pointer, Follows(q, a, linked) PROVE q = Following(a)
    <3>1. CASE Later(a) = {}
      BY <3>1, <2>2 DEF Later, Following, Follows
    <3>2. CASE Later(a) # {}
      <4>1. q \in Later(a) /\ \A c \in Later(a) : q <= c
        BY <3>2, <2>2 DEF Later, Follows
      <4>2. \A b \in Later(a) : (\A c \in Later(a) : b <= c) => b = q
        BY <4>1 DEF Later
      <4>3. QED BY <3>2, <4>1, <4>2 DEF Following
    <3>3. QED BY <3>1, <3>2
  <2>3. QED BY <2>1, <2>2
<1>3. QED BY <1>1, <1>2, AlwaysSafe, ListedInit, PTL DEF Spec
=============================================================================
