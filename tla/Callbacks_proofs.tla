-------------------------- MODULE Callbacks_proofs --------------------------
(***************************************************************************)
(* Theorems about the two parts whose own work a function of the script    *)
(* may interrupt, a callback in the one and the function of a signal in    *)
(* the other.                                                              *)
(*                                                                         *)
(* PcreCache, for any expressions, locales, memory, limit and bounds:      *)
(* types, counted users, entries kept under their users, and the limit of  *)
(* the cache.  The count of an entry is the reason that its users keep it: *)
(* an entry with a user has a count that is not 0, and pcre_clean_cache    *)
(* passes it.                                                              *)
(*                                                                         *)
(* PcntlSignals, for any signals, batches and bounds: types, and, as long  *)
(* as the mask is what the dispatcher made it and no signal arrives in the *)
(* midst of an allocation, the records and the order of the signals.  The  *)
(* live records are in four places apart: in the hand of the dispatcher,   *)
(* to be played, queued, and spare; the fields of the records link each of *)
(* these lists to its end.                                                 *)
(***************************************************************************)
EXTENDS PcreCache, PcntlSignals, FiniteSetTheorems, SequenceTheorems, WellFoundedInduction, TLAPS

Distinct(s) == \A i, j \in DOMAIN s : s[i] = s[j] => i = j

Typed ==
  /\ pcre_cache \in Seq(Entry) /\ Distinct(pcre_cache)
  /\ \A e, f \in Cached : entry[e].regex = entry[f].regex => e = f
  /\ entry \in [Entry -> Content]
  /\ locale \in Locale
  /\ calls \in Seq(Use) /\ iterators \in [Iterator -> Entry \cup {NoEntry}]
  /\ gen \in Nat /\ bailouts \in Nat /\ pinned \in [Entry -> Nat]
  /\ replaced \subseteq Entry /\ overfull \in BOOLEAN

-----------------------------------------------------------------------------
(* Every set of numbers that is not empty has a least one. *)
LEMMA LeastNumber == \A T \in SUBSET Nat : T # {} => \E x \in T : \A y \in T : x <= y
<1> SUFFICES ASSUME NEW T \in SUBSET Nat, T # {} PROVE \E x \in T : \A y \in T : x <= y
  OBVIOUS
<1>1. \E x \in T : \A y \in T : <<y, x>> \notin OpToRel(<, Nat)
  BY NatLessThanWellFounded, WFMin, Zenon
<1>2. PICK x \in T : \A y \in T : <<y, x>> \notin OpToRel(<, Nat)
  BY <1>1
<1>3. \A y \in T : ~(y < x)
  BY <1>2 DEF OpToRel
<1>4. QED BY <1>3

Ordered(K, f) ==
  /\ f \in [1..Cardinality(K) -> K]
  /\ \A m, n \in 1..Cardinality(K) : m < n => f[m] < f[n]

(* A finite set of numbers can be put in order: its least member first.     *)
LEMMA OrderExists ==
  \A K \in SUBSET Nat : IsFiniteSet(K) => \E f : Ordered(K, f)
<1> DEFINE Bad(K) == IsFiniteSet(K) /\ ~\E f : Ordered(K, f)
           T == {k \in Nat : \E K \in SUBSET Nat : Bad(K) /\ Cardinality(K) = k}
<1>1. SUFFICES T = {}
  <2>1. \A K \in SUBSET Nat : IsFiniteSet(K) => Cardinality(K) \in Nat
    BY FS_CardinalityType
  <2>2. QED BY <2>1
<1>2. SUFFICES ASSUME NEW k \in T, \A y \in T : k <= y PROVE FALSE
  BY LeastNumber, Zenon
<1>3. PICK K \in SUBSET Nat : Bad(K) /\ Cardinality(K) = k
  OBVIOUS
<1>4. K # {}
  <2> SUFFICES ASSUME K = {} PROVE FALSE
    OBVIOUS
  <2>1. Cardinality(K) = 0
    BY FS_EmptySet
  <2>2. Ordered(K, [i \in 1..0 |-> 0])
    BY <2>1 DEF Ordered
  <2>3. QED BY <1>3, <2>2
<1>5. PICK a \in K : \A y \in K : a <= y
  BY <1>4, LeastNumber
<1> DEFINE L == K \ {a}
<1>6. IsFiniteSet(L) /\ Cardinality(L) = k - 1 /\ k \in Nat
  BY <1>3, FS_RemoveElement
<1>7. Cardinality(L) \in Nat
  BY <1>6, FS_CardinalityType
<1>8. k - 1 \notin T
  BY <1>2, <1>6
<1>9. PICK f : Ordered(L, f)
  BY <1>6, <1>7, <1>8
<1> DEFINE g == [i \in 1..k |-> IF i = 1 THEN a ELSE f[i - 1]]
<1>10. \A i \in 1..k : i # 1 => i - 1 \in 1..(k - 1) /\ f[i - 1] \in L
  <2> SUFFICES ASSUME NEW i \in 1..k, i # 1
               PROVE  i - 1 \in 1..(k - 1) /\ f[i - 1] \in L
    OBVIOUS
  <2>1. i - 1 \in 1..(k - 1)
    BY <1>6
  <2>2. f \in [1..(k - 1) -> L]
    BY <1>6, <1>9 DEF Ordered
  <2>3. QED BY <2>1, <2>2
<1>11. g \in [1..k -> K]
  BY <1>10
<1>12. \A m, n \in 1..k : m < n => g[m] < g[n]
  <2> SUFFICES ASSUME NEW m \in 1..k, NEW n \in 1..k, m < n PROVE g[m] < g[n]
    OBVIOUS
  <2>1. n # 1 /\ f[n - 1] \in L /\ n - 1 \in 1..(k - 1)
    BY <1>6, <1>10
  <2>2. CASE m = 1
    <3>1. g[m] = a /\ g[n] = f[n - 1]
      BY <2>1, <2>2
    <3>2. a <= f[n - 1] /\ a # f[n - 1] /\ a \in Nat /\ f[n - 1] \in Nat
      BY <1>5, <2>1
    <3>3. QED BY <3>1, <3>2
  <2>3. CASE m # 1
    <3>1. g[m] = f[m - 1] /\ g[n] = f[n - 1]
      BY <2>1, <2>3
    <3>2. m - 1 \in 1..(k - 1) /\ m - 1 < n - 1
      BY <1>6, <2>3
    <3>3. f[m - 1] < f[n - 1]
      BY <1>6, <1>9, <2>1, <3>2 DEF Ordered
    <3>4. QED BY <3>1, <3>3
  <2>4. QED BY <2>2, <2>3
<1>13. Ordered(K, g)
  BY <1>3, <1>11, <1>12 DEF Ordered
<1>14. QED BY <1>3, <1>13

(* What InOrder returns: every member once, in order. *)
LEMMA InOrderOrders ==
  ASSUME NEW n \in Nat, NEW K \in SUBSET (1..n)
  PROVE  /\ Cardinality(K) \in Nat /\ Cardinality(K) <= n
         /\ Ordered(K, InOrder(K))
         /\ \A x \in K : \E m \in 1..Cardinality(K) : InOrder(K)[m] = x
<1>1. IsFiniteSet(1..n) /\ Cardinality(1..n) = n
  BY FS_Interval
<1>2. IsFiniteSet(K) /\ Cardinality(K) <= n
  BY <1>1, FS_Subset
<1>3. Cardinality(K) \in Nat
  BY <1>2, FS_CardinalityType
<1>4. K \in SUBSET Nat
  OBVIOUS
<1>5. PICK f : Ordered(K, f)
  BY <1>2, <1>4, OrderExists
<1>6. /\ f \in [1..Cardinality(K) -> K]
      /\ \A a, b \in DOMAIN f : a < b => f[a] < f[b]
  BY <1>5 DEF Ordered
<1>7. /\ InOrder(K) \in [1..Cardinality(K) -> K]
      /\ \A a, b \in DOMAIN InOrder(K) : a < b => InOrder(K)[a] < InOrder(K)[b]
  BY <1>6, Zenon DEF InOrder
<1>8. Ordered(K, InOrder(K))
  BY <1>7 DEF Ordered
<1>9. InOrder(K) \in Injection(1..Cardinality(K), K)
  <2> DEFINE g == InOrder(K)
  <2>1. \A a, b \in 1..Cardinality(K) : g[a] = g[b] => a = b
    <3> SUFFICES ASSUME NEW a \in 1..Cardinality(K), NEW b \in 1..Cardinality(K),
                        g[a] = g[b], a # b
                 PROVE  FALSE
      OBVIOUS
    <3> HIDE DEF g
    <3>1. g[a] \in Nat /\ g[b] \in Nat
      <4>1. g[a] \in K /\ g[b] \in K
        BY <1>7 DEF g
      <4>2. QED BY <1>4, <4>1
    <3>2. a < b \/ b < a
      BY <1>3
    <3>3. g[a] < g[b] \/ g[b] < g[a]
      BY <1>8, <3>2 DEF Ordered, g
    <3>4. QED BY <3>1, <3>3
  <2>2. QED BY <1>7, <2>1 DEF Injection, IsInjective
<1>10. InOrder(K) \in Surjection(1..Cardinality(K), K)
  <2>1. Cardinality(1..Cardinality(K)) = Cardinality(K)
    BY <1>3, FS_Interval
  <2>2. QED BY <1>2, <1>9, <2>1, FS_Injection
<1>11. \A x \in K : \E m \in 1..Cardinality(K) : InOrder(K)[m] = x
  BY <1>10 DEF Surjection
<1>12. QED BY <1>2, <1>3, <1>8, <1>11

(* Cleaning keeps the order, adds nothing, and passes what is in use. *)
LEMMA CleanedKeeps ==
  ASSUME pcre_cache \in Seq(Entry), Distinct(pcre_cache)
  PROVE  /\ Cleaned \in Seq(Entry) /\ Distinct(Cleaned)
         /\ Len(Cleaned) <= Len(pcre_cache)
         /\ Members(Cleaned) \subseteq Cached
         /\ \A e \in Cached : ~Removable(e) => e \in Members(Cleaned)
<1> DEFINE n == Len(pcre_cache)
           K == {i \in DOMAIN pcre_cache : Stays(i)}
           k == Cardinality(K)
           order == InOrder(K)
           s == [m \in DOMAIN order |-> pcre_cache[order[m]]]
<1>1. n \in Nat /\ DOMAIN pcre_cache = 1..n /\ \A i \in 1..n : pcre_cache[i] \in Entry
  OBVIOUS
<1>2. K \in SUBSET (1..n)
  BY <1>1
<1>3. /\ k \in Nat /\ k <= n
      /\ Ordered(K, order)
      /\ \A x \in K : \E m \in 1..k : order[m] = x
  <2> HIDE DEF K, n
  <2>1. QED BY <1>1, <1>2, InOrderOrders
<1>4. Cleaned = s
  BY DEF Cleaned
<1>5. \A i \in 1..n : ~Removable(pcre_cache[i]) => i \in K
  BY <1>1 DEF Stays
<1> HIDE DEF K, n, order
<1>6. /\ DOMAIN order = 1..k /\ \A m \in 1..k : order[m] \in K
      /\ \A a, b \in 1..k : a < b => order[a] < order[b]
  BY <1>3 DEF Ordered
<1>7. \A a, b \in 1..k : order[a] = order[b] => a = b
  <2> SUFFICES ASSUME NEW a \in 1..k, NEW b \in 1..k, order[a] = order[b], a # b
               PROVE  FALSE
    OBVIOUS
  <2>1. a < b \/ b < a
    BY <1>3
  <2>2. order[a] \in Nat /\ order[b] \in Nat
    <3>1. order[a] \in K /\ order[b] \in K
      BY <1>6
    <3>2. \A x \in K : x \in Nat
      BY <1>1, <1>2
    <3>3. QED BY <3>1, <3>2, Zenon
  <2>3. QED BY <1>6, <2>1, <2>2
<1>8. s \in [1..k -> Entry]
  BY <1>1, <1>2, <1>6
<1>9. s \in Seq(Entry) /\ Len(s) = k /\ DOMAIN s = 1..k
  <2> HIDE DEF s
  <2>1. s \in Seq(Entry)
    BY <1>3, <1>8, SeqDef
  <2>2. QED BY <1>3, <1>8, <2>1
<1>10. Distinct(s)
  <2> SUFFICES ASSUME NEW a \in 1..k, NEW b \in 1..k, s[a] = s[b] PROVE a = b
    BY <1>9, Zenon DEF Distinct
  <2>1. pcre_cache[order[a]] = pcre_cache[order[b]]
    BY <1>6
  <2>2. order[a] \in DOMAIN pcre_cache /\ order[b] \in DOMAIN pcre_cache
    BY <1>1, <1>2, <1>6
  <2>3. order[a] = order[b]
    BY <2>1, <2>2 DEF Distinct
  <2>4. QED BY <1>7, <2>3
<1>11. Members(s) \subseteq Cached
  <2> SUFFICES ASSUME NEW m \in 1..k PROVE s[m] \in Cached
    BY <1>9 DEF Members
  <2>1. s[m] = pcre_cache[order[m]] /\ order[m] \in DOMAIN pcre_cache
    BY <1>1, <1>2, <1>6
  <2>2. QED BY <2>1 DEF Cached, Members
<1>12. \A e \in Cached : ~Removable(e) => e \in Members(s)
  <2> SUFFICES ASSUME NEW i \in 1..n, ~Removable(pcre_cache[i])
               PROVE  pcre_cache[i] \in Members(s)
    BY <1>1 DEF Cached, Members
  <2>1. PICK m \in 1..k : order[m] = i
    BY <1>3, <1>5
  <2>2. s[m] = pcre_cache[i]
    BY <1>6, <2>1
  <2>3. QED BY <1>9, <2>2 DEF Members
<1>13. QED
  <2> HIDE DEF s
  <2>1. Len(Cleaned) <= Len(pcre_cache)
    BY <1>3, <1>4, <1>9 DEF n
  <2>2. QED BY <1>4, <1>9, <1>10, <1>11, <1>12, <2>1

-----------------------------------------------------------------------------
(* The users of an entry. *)
CallsIn(c, e) == Cardinality({i \in DOMAIN c : c[i].pce = e})
IteratorsIn(f, e) == Cardinality({i \in Iterator : f[i] = e})

(* Of a count n, all but u are users, or were abandoned. *)
Owes(n, c, f, p, u, e) == n = CallsIn(c, e) + IteratorsIn(f, e) + p[e] + u

LEMMA CallsAreCounted ==
  ASSUME NEW c \in Seq(Use), NEW e
  PROVE  /\ CallsIn(c, e) \in Nat
         /\ (\E i \in DOMAIN c : c[i].pce = e) <=> CallsIn(c, e) # 0
<1> DEFINE n == Len(c)
           K == {i \in DOMAIN c : c[i].pce = e}
<1>1. n \in Nat /\ DOMAIN c = 1..n
  OBVIOUS
<1>2. IsFiniteSet(1..n)
  BY <1>1, FS_Interval
<1>3. K \in SUBSET (1..n)
  BY <1>1
<1> HIDE DEF K
<1>4. IsFiniteSet(K)
  BY <1>2, <1>3, FS_Subset
<1>5. Cardinality(K) \in Nat /\ (Cardinality(K) = 0 <=> K = {})
  BY <1>4, FS_CardinalityType, FS_EmptySet
<1>6. QED BY <1>5 DEF K, CallsIn

LEMMA IteratorsAreCounted ==
  ASSUME NEW f, NEW e
  PROVE  /\ IteratorsIn(f, e) \in Nat
         /\ (\E i \in Iterator : f[i] = e) <=> IteratorsIn(f, e) # 0
<1> DEFINE K == {i \in Iterator : f[i] = e}
<1>1. K \in SUBSET Iterator /\ IsFiniteSet(Iterator)
  BY PcreAssumption
<1> HIDE DEF K
<1>2. IsFiniteSet(K)
  BY <1>1, FS_Subset
<1>3. Cardinality(K) \in Nat /\ (Cardinality(K) = 0 <=> K = {})
  BY <1>2, FS_CardinalityType, FS_EmptySet
<1>4. QED BY <1>3 DEF K, IteratorsIn

(* A call more at the end: d is c and one call. *)
LEMMA CallCounts ==
  ASSUME NEW c \in Seq(Use), NEW d \in Seq(Use), Len(d) = Len(c) + 1,
         \A i \in 1..Len(c) : d[i] = c[i], NEW e
  PROVE  CallsIn(d, e) = IF d[Len(d)].pce = e THEN CallsIn(c, e) + 1 ELSE CallsIn(c, e)
<1> DEFINE n == Len(c)
           K == {i \in DOMAIN c : c[i].pce = e}
           M == {i \in DOMAIN d : d[i].pce = e}
<1>1. n \in Nat /\ DOMAIN c = 1..n /\ DOMAIN d = 1..(n + 1) /\ Len(d) = n + 1
  OBVIOUS
<1>2. M = IF d[n + 1].pce = e THEN K \cup {n + 1} ELSE K
  <2>1. \A i : i \in M <=> i \in K \/ (i = n + 1 /\ d[n + 1].pce = e)
    BY <1>1
  <2> HIDE DEF K, M
  <2>2. QED BY <2>1
<1>3. n + 1 \notin K
  BY <1>1
<1>4. IsFiniteSet(K)
  <2>1. IsFiniteSet(1..n)
    BY <1>1, FS_Interval
  <2>2. K \in SUBSET (1..n)
    BY <1>1
  <2> HIDE DEF K
  <2>3. QED BY <2>1, <2>2, FS_Subset
<1> HIDE DEF K, M
<1>5. Cardinality(K \cup {n + 1}) = Cardinality(K) + 1
  BY <1>3, <1>4, FS_AddElement
<1>6. Cardinality(M) = IF d[n + 1].pce = e THEN Cardinality(K) + 1 ELSE Cardinality(K)
  BY <1>2, <1>5
<1>7. QED BY <1>1, <1>6 DEF K, M, CallsIn

OneMore(f, h, i, e) ==
  f[i] # e /\ h[i] = e /\ \A j \in Iterator \ {i} : h[j] = f[j]

(* An iterator more: in h the iterator i has e, in f it has not. *)
LEMMA IteratorCounts ==
  ASSUME NEW f, NEW h, NEW i \in Iterator, NEW e, OneMore(f, h, i, e)
  PROVE  IteratorsIn(h, e) = IteratorsIn(f, e) + 1
<1> DEFINE K == {j \in Iterator : f[j] = e}
           M == {j \in Iterator : h[j] = e}
<1>1. M = K \cup {i} /\ i \notin K
  BY DEF OneMore
<1>2. IsFiniteSet(Iterator) /\ K \in SUBSET Iterator
  BY PcreAssumption
<1> HIDE DEF K, M
<1>3. IsFiniteSet(K)
  BY <1>2, FS_Subset
<1>4. Cardinality(M) = Cardinality(K) + 1
  BY <1>1, <1>3, FS_AddElement
<1>5. QED BY <1>4 DEF K, M, IteratorsIn

LEMMA IteratorsSame ==
  ASSUME NEW f, NEW h, NEW e, \A j \in Iterator : h[j] = e <=> f[j] = e
  PROVE  IteratorsIn(h, e) = IteratorsIn(f, e)
<1>1. {j \in Iterator : h[j] = e} = {j \in Iterator : f[j] = e}
  OBVIOUS
<1>2. QED BY <1>1 DEF IteratorsIn

(* A count that is owed one user is settled by a call, or by an iterator.   *)
LEMMA OwesCall ==
  ASSUME NEW n \in Int, NEW c \in Seq(Use), NEW d \in Seq(Use), NEW f, NEW e,
         NEW p, p[e] \in Nat, Len(d) = Len(c) + 1, \A i \in 1..Len(c) : d[i] = c[i]
  PROVE  /\ d[Len(d)].pce = e => (Owes(n, c, f, p, 1, e) <=> Owes(n, d, f, p, 0, e))
         /\ d[Len(d)].pce # e => (Owes(n, c, f, p, 0, e) <=> Owes(n, d, f, p, 0, e))
<1>1. CallsIn(c, e) \in Nat
  BY CallsAreCounted
<1>2. IteratorsIn(f, e) \in Nat
  BY IteratorsAreCounted
<1>3. CallsIn(d, e) = IF d[Len(d)].pce = e THEN CallsIn(c, e) + 1 ELSE CallsIn(c, e)
  BY CallCounts
<1>4. QED BY <1>1, <1>2, <1>3 DEF Owes

LEMMA OwesIterator ==
  ASSUME NEW n \in Int, NEW c \in Seq(Use), NEW f, NEW h, NEW i \in Iterator, NEW e,
         NEW p, p[e] \in Nat, OneMore(f, h, i, e)
  PROVE  Owes(n, c, f, p, 1, e) <=> Owes(n, c, h, p, 0, e)
<1>1. CallsIn(c, e) \in Nat
  BY CallsAreCounted
<1>2. IteratorsIn(f, e) \in Nat
  BY IteratorsAreCounted
<1>3. IteratorsIn(h, e) = IteratorsIn(f, e) + 1
  BY IteratorCounts, Zenon
<1>4. QED BY <1>1, <1>2, <1>3 DEF Owes

LEMMA OwesOther ==
  ASSUME NEW n, NEW c, NEW f, NEW h, NEW e, NEW p, \A j \in Iterator : h[j] = e <=> f[j] = e
  PROVE  Owes(n, c, f, p, 0, e) <=> Owes(n, c, h, p, 0, e)
BY IteratorsSame DEF Owes

(* What is owed a user, and what has one, has a count. *)
LEMMA OwesNothing ==
  ASSUME NEW n \in Int, NEW c \in Seq(Use), NEW f, NEW e, NEW p, p[e] \in Nat,
         Owes(n, c, f, p, 0, e)
  PROVE  /\ n \in Nat
         /\ (\E i \in DOMAIN c : c[i].pce = e) => n # 0
         /\ (\E i \in Iterator : f[i] = e) => n # 0
         /\ n = 0 => p[e] = 0
<1>1. CallsIn(c, e) \in Nat /\ ((\E i \in DOMAIN c : c[i].pce = e) <=> CallsIn(c, e) # 0)
  BY CallsAreCounted
<1>2. IteratorsIn(f, e) \in Nat /\ ((\E i \in Iterator : f[i] = e) <=> IteratorsIn(f, e) # 0)
  BY IteratorsAreCounted
<1>3. QED BY <1>1, <1>2 DEF Owes

-----------------------------------------------------------------------------
(* Compiled, in terms of what the cleaning left. *)
Rest == IF IsFull THEN Cleaned ELSE pcre_cache
Old(r) == EntriesOf(r) \cap Members(Rest)
Kept == Members(Rest) \cup InUse

LEMMA RestKeeps ==
  ASSUME pcre_cache \in Seq(Entry), Distinct(pcre_cache)
  PROVE  /\ Rest \in Seq(Entry) /\ Distinct(Rest)
         /\ Len(Rest) <= Len(pcre_cache)
         /\ Members(Rest) \subseteq Cached
         /\ \A e \in Cached : ~Removable(e) => e \in Members(Rest)
<1>1. CASE IsFull
  <2>1. Rest = Cleaned
    BY <1>1 DEF Rest
  <2>2. QED BY <2>1, CleanedKeeps
<1>2. CASE ~IsFull
  <2>1. Rest = pcre_cache
    BY <1>2 DEF Rest
  <2>2. Len(pcre_cache) \in Nat
    OBVIOUS
  <2>3. QED BY <2>1, <2>2 DEF Cached
<1>3. QED BY <1>1, <1>2

LEMMA MembersAppend ==
  ASSUME NEW S, NEW s \in Seq(S), NEW x \in S
  PROVE  /\ Members(Append(s, x)) = Members(s) \cup {x}
         /\ Distinct(s) /\ x \notin Members(s) => Distinct(Append(s, x))
<1> DEFINE t == Append(s, x)
           n == Len(s)
<1>1. /\ n \in Nat /\ DOMAIN s = 1..n /\ DOMAIN t = 1..(n + 1)
      /\ \A i \in 1..n : t[i] = s[i]
      /\ t[n + 1] = x
  OBVIOUS
<1> HIDE DEF t, n
<1>2. Members(t) = Members(s) \cup {x}
  BY <1>1 DEF Members
<1>3. Distinct(s) /\ x \notin Members(s) => Distinct(t)
  BY <1>1 DEF Members, Distinct
<1>4. QED BY <1>2, <1>3 DEF t

LEMMA CompiledIs ==
  ASSUME NEW r, NEW e, NEW uses, Compiled(r, e, uses)
  PROVE  /\ \A o \in EntriesOf(r) : ~Usable(o)
         /\ Old(r) # {} => e \in Old(r)
         /\ Old(r) = {} => e \notin Kept
         /\ pcre_cache' = IF Old(r) # {} THEN Rest ELSE Append(Rest, e)
         /\ entry' = [f \in Entry |->
              CASE f = e -> [regex |-> r, locale |-> locale, refcount |-> uses,
                             key |-> IF Old(r) # {} THEN entry[e].key ELSE NewKey]
                [] f \in Kept \ {e} -> entry[f]
                [] OTHER -> NoContent]
         /\ pinned' = [f \in Entry |-> IF f \in Kept \ {e} THEN pinned[f] ELSE 0]
         /\ replaced' = (replaced \cap Kept) \cup {f \in Old(r) : entry[f].refcount # 0}
         /\ overfull' = (overfull \/ (IsFull /\ Old(r) = {} /\ Len(Rest) = PCRE_CACHE_SIZE))
BY DEF Compiled, Rest, Old, Kept

(* What the look-up returns has the expression, for the locale; others are   *)
(* as they were, or gone.                                                    *)
LEMMA CompiledEntries ==
  ASSUME Typed, NEW r \in Regex, NEW e \in Entry, NEW uses \in {0, 1}, Compiled(r, e, uses)
  PROVE  /\ entry' \in [Entry -> Content] /\ pinned' \in [Entry -> Nat]
         /\ entry'[e].regex = r /\ entry'[e].locale = locale /\ entry'[e].refcount = uses
         /\ pinned'[e] = 0
         /\ \A f \in Kept \ {e} : entry'[f] = entry[f] /\ pinned'[f] = pinned[f]
<1> DEFINE new == [regex |-> r, locale |-> locale, refcount |-> uses,
                   key |-> IF Old(r) # {} THEN entry[e].key ELSE NewKey]
<1>1. entry' = [f \in Entry |-> CASE f = e -> new
                                 [] f \in Kept \ {e} -> entry[f]
                                 [] OTHER -> NoContent]
  BY CompiledIs
<1>2. pinned' = [f \in Entry |-> IF f \in Kept \ {e} THEN pinned[f] ELSE 0]
  BY CompiledIs
<1>3. Kept \subseteq Entry
  <2>1. Members(Rest) \subseteq Entry
    BY RestKeeps DEF Typed, Cached, Members
  <2>2. InUse \subseteq Entry
    <3>1. Members(calls) \subseteq Use
      BY DEF Typed, Members
    <3>2. \A u \in Use : u.pce \in Entry
      BY DEF Use
    <3>3. \A i \in Iterator : iterators[i] \in Entry \cup {NoEntry}
      BY DEF Typed
    <3>4. QED BY <3>1, <3>2, <3>3 DEF InUse
  <2>3. QED BY <2>1, <2>2 DEF Kept
<1>4. new.key \in Int
  BY DEF Typed, Content, NewKey, Own
<1>5. new \in Content /\ new.regex = r /\ new.locale = locale /\ new.refcount = uses
  BY <1>4 DEF Typed, Content
<1>6. NoContent \in Content
  BY PcreAssumption DEF NoContent, Content, Own
<1> HIDE DEF new
<1>7. entry' \in [Entry -> Content]
  BY <1>1, <1>5, <1>6 DEF Typed
<1>8. pinned' \in [Entry -> Nat]
  BY <1>2 DEF Typed
<1>9. entry'[e] = new /\ pinned'[e] = 0
  BY <1>1, <1>2
<1>10. \A f \in Kept \ {e} : entry'[f] = entry[f] /\ pinned'[f] = pinned[f]
  BY <1>1, <1>2, <1>3
<1>11. QED BY <1>5, <1>7, <1>8, <1>9, <1>10

LEMMA CompiledCache ==
  ASSUME Typed, NEW r \in Regex, NEW e \in Entry, NEW uses \in {0, 1}, Compiled(r, e, uses)
  PROVE  /\ pcre_cache' \in Seq(Entry) /\ Distinct(pcre_cache')
         /\ Cached' = Members(Rest) \cup {e}
         /\ \A f \in Members(Rest) : entry[f].regex = r <=> f \in Old(r)
<1>1. /\ Rest \in Seq(Entry) /\ Distinct(Rest)
      /\ Members(Rest) \subseteq Cached
  BY RestKeeps DEF Typed
<1>2. /\ Old(r) # {} => e \in Old(r)
      /\ Old(r) = {} => e \notin Kept
      /\ pcre_cache' = IF Old(r) # {} THEN Rest ELSE Append(Rest, e)
  BY CompiledIs
<1>3. \A f \in Members(Rest) : entry[f].regex = r <=> f \in Old(r)
  BY <1>1 DEF Old, EntriesOf
<1>4. CASE Old(r) # {}
  <2>1. pcre_cache' = Rest /\ e \in Members(Rest)
    BY <1>2, <1>4 DEF Old
  <2>2. Cached' = Members(Rest)
    BY <2>1 DEF Cached
  <2>3. QED BY <1>1, <1>3, <2>1, <2>2
<1>5. CASE Old(r) = {}
  <2>1. pcre_cache' = Append(Rest, e) /\ e \notin Members(Rest)
    BY <1>2, <1>5 DEF Kept
  <2>2. /\ Members(Append(Rest, e)) = Members(Rest) \cup {e}
        /\ Distinct(Append(Rest, e))
    BY <1>1, <2>1, MembersAppend
  <2>3. Append(Rest, e) \in Seq(Entry)
    BY <1>1
  <2>4. Cached' = Members(Append(Rest, e))
    BY <2>1 DEF Cached
  <2>5. QED BY <1>3, <2>1, <2>2, <2>3, <2>4
<1>6. QED BY <1>4, <1>5

LEMMA GotTypes ==
  ASSUME Typed, NEW r \in Regex, NEW e \in Entry, NEW uses \in {0, 1},
         GetCompiledRegex(r, e, uses)
  PROVE  /\ pcre_cache' \in Seq(Entry) /\ Distinct(pcre_cache')
         /\ \A f, g \in Cached' : entry'[f].regex = entry'[g].regex => f = g
         /\ entry' \in [Entry -> Content] /\ pinned' \in [Entry -> Nat]
         /\ replaced' \subseteq Entry /\ overfull' \in BOOLEAN
         /\ e \in Cached' /\ entry'[e].regex = r /\ entry'[e].locale = locale
<1>1. CASE Found(r, e, uses)
  <2>1. UNCHANGED <<pcre_cache, pinned, replaced, overfull>> /\ Cached' = Cached
    BY <1>1 DEF Found, history, Cached
  <2>2. /\ e \in Cached /\ entry[e].regex = r /\ entry[e].locale = locale
        /\ entry' = [entry EXCEPT ![e].refcount = @ + uses]
    BY <1>1 DEF Found, EntriesOf, Usable
  <2>3. entry[e] \in Content /\ entry[e].refcount + uses \in Int
    BY DEF Typed, Content
  <2>4. entry' \in [Entry -> Content]
    BY <2>2, <2>3 DEF Typed, Content
  <2>5. \A f \in Entry : entry'[f].regex = entry[f].regex /\ entry'[f].locale = entry[f].locale
    BY <2>2 DEF Typed, Content
  <2>6. Cached \subseteq Entry
    BY DEF Typed, Cached, Members
  <2>7. \A f, g \in Cached' : entry'[f].regex = entry'[g].regex => f = g
    BY <2>1, <2>5, <2>6 DEF Typed
  <2>8. QED BY <2>1, <2>2, <2>4, <2>5, <2>7 DEF Typed
<1>2. CASE Compiled(r, e, uses)
  <2>1. /\ entry' \in [Entry -> Content] /\ pinned' \in [Entry -> Nat]
        /\ entry'[e].regex = r /\ entry'[e].locale = locale
        /\ \A f \in Kept \ {e} : entry'[f] = entry[f]
    BY <1>2, CompiledEntries
  <2>2. /\ pcre_cache' \in Seq(Entry) /\ Distinct(pcre_cache')
        /\ Cached' = Members(Rest) \cup {e}
        /\ \A f \in Members(Rest) : entry[f].regex = r <=> f \in Old(r)
    BY <1>2, CompiledCache
  <2>3. /\ Old(r) # {} => e \in Old(r)
        /\ replaced' = (replaced \cap Kept) \cup {f \in Old(r) : entry[f].refcount # 0}
        /\ overfull' = (overfull \/ (IsFull /\ Old(r) = {} /\ Len(Rest) = PCRE_CACHE_SIZE))
    BY <1>2, CompiledIs
  <2>4. Members(Rest) \subseteq Cached /\ Cached \subseteq Entry /\ Old(r) \subseteq Entry
    <3>1. Members(Rest) \subseteq Cached
      BY RestKeeps DEF Typed
    <3>2. Cached \subseteq Entry
      BY DEF Typed, Cached, Members
    <3>3. QED BY <3>1, <3>2 DEF Old
  <2>5. \A f \in Members(Rest) \ {e} : entry'[f].regex = entry[f].regex /\ entry[f].regex # r
    <3> TAKE f \in Members(Rest) \ {e}
    <3>1. entry'[f] = entry[f]
      BY <2>1 DEF Kept
    <3>2. f \notin Old(r)
      <4> SUFFICES ASSUME f \in Old(r) PROVE FALSE
        OBVIOUS
      <4>1. e \in Old(r) /\ e \in Cached /\ f \in Cached
        BY <2>3, <2>4 DEF Old
      <4>2. entry[e].regex = r /\ entry[f].regex = r
        BY <4>1 DEF Old, EntriesOf
      <4>3. QED BY <4>1, <4>2 DEF Typed
    <3>3. QED BY <2>2, <3>1, <3>2
  <2>6. \A f, g \in Cached' : entry'[f].regex = entry'[g].regex => f = g
    <3> SUFFICES ASSUME NEW f \in Cached', NEW g \in Cached', entry'[f].regex = entry'[g].regex
                 PROVE  f = g
      OBVIOUS
    <3>1. CASE f = e \/ g = e
      BY <2>1, <2>2, <2>5, <3>1
    <3>2. CASE f # e /\ g # e
      BY <2>2, <2>4, <2>5, <3>2 DEF Typed
    <3>3. QED BY <3>1, <3>2
  <2>7. replaced' \subseteq Entry /\ overfull' \in BOOLEAN
    BY <2>3, <2>4 DEF Typed
  <2>8. QED BY <2>1, <2>2, <2>6, <2>7
<1>3. QED BY <1>1, <1>2 DEF GetCompiledRegex

-----------------------------------------------------------------------------
LEMMA TypesInit == Init => Typed
<1> SUFFICES ASSUME Init PROVE Typed
  OBVIOUS
<1>1. NoContent \in Content
  BY PcreAssumption DEF NoContent, Content, Own
<1>2. pcre_cache = <<>> /\ calls = <<>> /\ Cached = {}
  BY DEF Init, Cached, Members
<1>3. pcre_cache \in Seq(Entry) /\ calls \in Seq(Use) /\ Distinct(pcre_cache)
  BY <1>2 DEF Distinct
<1>4. entry \in [Entry -> Content]
  BY <1>1 DEF Init
<1>5. locale \in Locale /\ replaced \subseteq Entry /\ overfull \in BOOLEAN
  BY PcreAssumption DEF Init
<1>6. iterators \in [Iterator -> Entry \cup {NoEntry}] /\ pinned \in [Entry -> Nat]
  BY DEF Init
<1>7. gen \in Nat /\ bailouts \in Nat
  BY DEF Init
<1>8. QED BY <1>2, <1>3, <1>4, <1>5, <1>6, <1>7 DEF Typed

(* A step that leaves the cache alone and changes counts only. *)
LEMMA CountsChange ==
  ASSUME Typed, pcre_cache' = pcre_cache, entry' \in [Entry -> Content],
         \A f \in Entry : entry'[f].regex = entry[f].regex
  PROVE  /\ pcre_cache' \in Seq(Entry) /\ Distinct(pcre_cache') /\ Cached' = Cached
         /\ \A f, g \in Cached' : entry'[f].regex = entry'[g].regex => f = g
<1>1. Cached' = Cached /\ Cached \subseteq Entry
  BY DEF Typed, Cached, Members
<1>2. QED BY <1>1 DEF Typed

LEMMA FrontOf ==
  ASSUME NEW S, NEW s \in Seq(S), s # <<>>
  PROVE  /\ SubSeq(s, 1, Len(s) - 1) \in Seq(S)
         /\ Len(s) = Len(SubSeq(s, 1, Len(s) - 1)) + 1
         /\ \A i \in 1..Len(SubSeq(s, 1, Len(s) - 1)) : s[i] = SubSeq(s, 1, Len(s) - 1)[i]
         /\ s[Len(s)] \in S
         /\ Members(SubSeq(s, 1, Len(s) - 1)) \subseteq Members(s)
         /\ Len(s) \in DOMAIN s
<1> DEFINE n == Len(s)
           t == SubSeq(s, 1, n - 1)
<1>1. n \in Nat /\ n > 0 /\ DOMAIN s = 1..n /\ \A i \in 1..n : s[i] \in S
  BY EmptySeq
<1>2. /\ t \in Seq(S)
      /\ Len(t) = IF 1 <= n - 1 THEN n - 1 - 1 + 1 ELSE 0
      /\ \A i \in 1..(n - 1 - 1 + 1) : t[i] = s[1 + i - 1]
  <2>1. \A i \in 1..(n - 1) : s[i] \in S
    BY <1>1
  <2>2. 1 \in Int /\ n - 1 \in Int
    BY <1>1
  <2> HIDE DEF n
  <2>3. QED BY <2>1, <2>2, SubSeqProperties
<1> HIDE DEF n, t
<1>3. Len(t) = n - 1 /\ \A i \in 1..(n - 1) : t[i] = s[i]
  BY <1>1, <1>2
<1>4. DOMAIN t = 1..(n - 1)
  BY <1>2, <1>3
<1>5. Members(t) \subseteq Members(s)
  BY <1>1, <1>3, <1>4 DEF Members
<1>6. n \in 1..n /\ n = n - 1 + 1
  BY <1>1
<1>7. t \in Seq(S) /\ n = Len(t) + 1 /\ \A i \in 1..Len(t) : s[i] = t[i]
  BY <1>2, <1>3, <1>6
<1>8. s[n] \in S /\ n \in DOMAIN s
  BY <1>1, <1>6
<1>9. QED BY <1>5, <1>7, <1>8 DEF n, t

LEMMA TypesStep == Typed /\ [Next]_vars => Typed'
<1> SUFFICES ASSUME Typed, [Next]_vars PROVE Typed'
  OBVIOUS
<1> DEFINE Rests == /\ locale' \in Locale /\ calls' \in Seq(Use)
                    /\ iterators' \in [Iterator -> Entry \cup {NoEntry}]
                    /\ gen' \in Nat /\ bailouts' \in Nat
<1>1. ASSUME NEW r \in Regex, NEW e \in Entry, NEW uses \in {0, 1},
             GetCompiledRegex(r, e, uses), Rests
      PROVE  Typed'
  BY <1>1, GotTypes DEF Typed
<1>2. ASSUME NEW r \in Regex, NEW e \in Entry, Call(r, e) PROVE Typed'
  <2>1. [pce |-> e, regex |-> r, locale |-> locale] \in Use
    BY DEF Typed, Use
  <2>2. GetCompiledRegex(r, e, 1) /\ Rests
    BY <1>2, <2>1 DEF Call, Typed
  <2>3. QED BY <1>1, <2>2
<1>3. ASSUME NEW r \in Regex, NEW e \in Entry, GetOnly(r, e) PROVE Typed'
  <2>1. GetCompiledRegex(r, e, 0) /\ Rests
    BY <1>3 DEF GetOnly, Typed
  <2>2. QED BY <1>1, <2>1
<1>4. ASSUME NEW i \in Iterator, NEW r \in Regex, NEW e \in Entry, NewIterator(i, r, e)
      PROVE  Typed'
  <2>1. GetCompiledRegex(r, e, 1) /\ Rests
    BY <1>4 DEF NewIterator, Typed
  <2>2. QED BY <1>1, <2>1
<1>5. ASSUME NEW f \in Entry,
             entry' = [entry EXCEPT ![f].refcount = @ - 1],
             UNCHANGED <<pcre_cache, history>>, Rests
      PROVE  Typed'
  <2>1. entry[f] \in Content /\ entry[f].refcount - 1 \in Int
    BY DEF Typed, Content
  <2>2. entry' \in [Entry -> Content]
    BY <1>5, <2>1 DEF Typed, Content
  <2>3. \A g \in Entry : entry'[g].regex = entry[g].regex
    BY <1>5 DEF Typed, Content
  <2>4. /\ pcre_cache' \in Seq(Entry) /\ Distinct(pcre_cache')
        /\ \A g, h \in Cached' : entry'[g].regex = entry'[h].regex => g = h
    BY <1>5, <2>2, <2>3, CountsChange
  <2>5. pinned' \in [Entry -> Nat] /\ replaced' \subseteq Entry /\ overfull' \in BOOLEAN
    BY <1>5 DEF Typed, history
  <2>6. QED BY <1>5, <2>2, <2>4, <2>5 DEF Typed
<1>6. ASSUME Return PROVE Typed'
  <2>1. calls # <<>> /\ calls \in Seq(Use)
    BY <1>6 DEF Return, Typed
  <2>2. calls[Len(calls)] \in Use /\ SubSeq(calls, 1, Len(calls) - 1) \in Seq(Use)
    BY <2>1, FrontOf
  <2>3. calls[Len(calls)].pce \in Entry
    BY <2>2 DEF Use
  <2>4. entry' = [entry EXCEPT ![calls[Len(calls)].pce].refcount = @ - 1]
    BY <1>6 DEF Return, CountedOut
  <2>5. Rests /\ UNCHANGED <<pcre_cache, history>>
    BY <1>6, <2>2 DEF Return, Typed
  <2>6. QED BY <1>5, <2>3, <2>4, <2>5, Zenon
<1>7. ASSUME NEW i \in Iterator, FreeIterator(i) PROVE Typed'
  <2>1. iterators[i] \in Entry
    BY <1>7 DEF FreeIterator, Typed
  <2>2. Rests /\ UNCHANGED <<pcre_cache, history>>
    BY <1>7 DEF FreeIterator, Typed
  <2>3. entry' = [entry EXCEPT ![iterators[i]].refcount = @ - 1]
    BY <1>7 DEF FreeIterator
  <2>4. QED BY <1>5, <2>1, <2>2, <2>3, Zenon
<1>8. ASSUME UNCHANGED <<pcre_cache, entry, replaced, overfull>>, pinned' \in [Entry -> Nat],
             Rests
      PROVE  Typed'
  <2>1. Cached' = Cached
    BY <1>8 DEF Cached
  <2>2. QED BY <1>8, <2>1 DEF Typed
<1>9. ASSUME Bailout PROVE Typed'
  <2>1. \A e \in Entry : CallsOf(e) \in Nat
    <3> TAKE e \in Entry
    <3>1. CallsIn(calls, e) \in Nat
      BY CallsAreCounted DEF Typed
    <3>2. QED BY <3>1 DEF CallsIn, CallsOf
  <2>2. pinned' \in [Entry -> Nat]
    BY <1>9, <2>1 DEF Bailout, Typed
  <2>3. Rests
    BY <1>9, EmptySeq DEF Bailout, Typed
  <2>4. QED BY <1>8, <1>9, <2>2, <2>3 DEF Bailout
<1>10. ASSUME NEW l \in Locale, SetLocale(l) PROVE Typed'
  BY <1>8, <1>10 DEF SetLocale, Typed, history
<1>11. ASSUME NEW n \in {0, 1}, NextRequest(n) PROVE Typed'
  <2>1. Rests
    BY <1>11, PcreAssumption DEF NextRequest, Typed
  <2>2. QED BY <1>8, <1>11, <2>1 DEF NextRequest, Typed, history
<1>12. ASSUME UNCHANGED vars PROVE Typed'
  BY <1>8, <1>12 DEF vars, history, Typed
<1>13. QED
  BY <1>2, <1>3, <1>4, <1>6, <1>7, <1>9, <1>10, <1>11, <1>12 DEF Next

(* A sequence without repetitions is as long as it has members. *)
LEMMA DistinctLength ==
  ASSUME NEW S, NEW s \in Seq(S), Distinct(s)
  PROVE  Len(s) = Cardinality(Members(s))
<1> DEFINE n == Len(s)
           M == Members(s)
<1>1. n \in Nat /\ DOMAIN s = 1..n /\ s \in [1..n -> S]
  OBVIOUS
<1>2. IsFiniteSet(1..n) /\ Cardinality(1..n) = n
  BY <1>1, FS_Interval
<1>3. s \in [1..n -> M] /\ \A x \in M : \E i \in 1..n : s[i] = x
  BY <1>1 DEF Members
<1>4. s \in Surjection(1..n, M)
  BY <1>3 DEF Surjection
<1>5. s \in Injection(1..n, M)
  BY <1>1, <1>3 DEF Injection, IsInjective, Distinct
<1>6. Cardinality(M) = Cardinality(1..n)
  <2> HIDE DEF n, M
  <2>1. QED BY <1>2, <1>4, <1>5, FS_Surjection
<1>7. QED BY <1>2, <1>6

(* Every entry of the cache is there once, and no expression has two. *)
THEOREM PcreTypeCorrect == Spec => []TypeOK
<1>1. Typed => TypeOK
  <2> SUFFICES ASSUME Typed PROVE TypeOK
    OBVIOUS
  <2>1. Len(pcre_cache) = Cardinality(Cached)
    BY DistinctLength DEF Typed, Cached
  <2>2. Cached \subseteq Entry
    BY DEF Typed, Cached, Members
  <2>3. Members(calls) \subseteq Use
    BY DEF Typed, Members
  <2>4. QED BY <2>1, <2>2, <2>3 DEF Typed, TypeOK
<1>2. QED BY <1>1, TypesInit, TypesStep, PTL DEF Spec

-----------------------------------------------------------------------------
(* RefcountsBalance, as a set of debts that are settled. *)
Settled == \A f \in Cached \ replaced : Owes(entry[f].refcount, calls, iterators, pinned, 0, f)

LEMMA BalanceMeans == Typed => (RefcountsBalance <=> Settled)
<1> SUFFICES ASSUME Typed, NEW f \in Cached
             PROVE  entry[f].refcount = CallsOf(f) + IteratorsOf(f) + pinned[f]
                      <=> Owes(entry[f].refcount, calls, iterators, pinned, 0, f)
  BY DEF RefcountsBalance, Settled
<1>1. f \in Entry /\ pinned[f] \in Nat
  BY DEF Typed, Cached, Members
<1>2. CallsIn(calls, f) \in Nat /\ CallsOf(f) = CallsIn(calls, f)
  BY CallsAreCounted DEF Typed, CallsOf, CallsIn
<1>3. IteratorsIn(iterators, f) \in Nat /\ IteratorsOf(f) = IteratorsIn(iterators, f)
  BY IteratorsAreCounted DEF IteratorsOf, IteratorsIn
<1>4. QED BY <1>1, <1>2, <1>3 DEF Owes

(* What is in use and was not filled anew is not removed. *)
LEMMA UsedIsPassed ==
  ASSUME Typed, Settled, NEW f \in Cached \ replaced, f \in InUse
  PROVE  entry[f].refcount # 0 /\ f \in Members(Rest)
<1>1. f \in Entry /\ entry[f].refcount \in Int /\ pinned[f] \in Nat
  BY DEF Typed, Cached, Members, Content
<1>2. (\E i \in DOMAIN calls : calls[i].pce = f) \/ (\E i \in Iterator : iterators[i] = f)
  BY DEF InUse, Members
<1>3. entry[f].refcount # 0
  <2>1. Owes(entry[f].refcount, calls, iterators, pinned, 0, f)
    BY DEF Settled
  <2>2. calls \in Seq(Use)
    BY DEF Typed
  <2>3. QED BY <1>1, <1>2, <2>1, <2>2, OwesNothing
<1>4. ~Removable(f)
  BY <1>3 DEF Removable
<1>5. QED BY <1>3, <1>4, RestKeeps DEF Typed

(* A use more of what has none: only the one that is being added. *)
LEMMA OwesFirst ==
  ASSUME NEW c \in Seq(Use), NEW f, NEW e, NEW p, p[e] = 0, NEW u \in Nat,
         ~\E i \in DOMAIN c : c[i].pce = e, ~\E i \in Iterator : f[i] = e
  PROVE  Owes(u, c, f, p, u, e)
<1>1. CallsIn(c, e) = 0
  BY CallsAreCounted
<1>2. IteratorsIn(f, e) = 0
  BY IteratorsAreCounted
<1>3. QED BY <1>1, <1>2 DEF Owes

LEMMA OwesMore ==
  ASSUME NEW n \in Int, NEW c \in Seq(Use), NEW f, NEW e, NEW p, p[e] \in Nat, NEW u \in Nat,
         Owes(n, c, f, p, 0, e)
  PROVE  Owes(n + u, c, f, p, u, e)
<1>1. CallsIn(c, e) \in Nat
  BY CallsAreCounted
<1>2. IteratorsIn(f, e) \in Nat
  BY IteratorsAreCounted
<1>3. QED BY <1>1, <1>2 DEF Owes

LEMMA OwesLess ==
  ASSUME NEW n \in Int, NEW c \in Seq(Use), NEW f, NEW e, NEW p, p[e] \in Nat,
         Owes(n, c, f, p, 1, e)
  PROVE  Owes(n - 1, c, f, p, 0, e)
<1>1. CallsIn(c, e) \in Nat
  BY CallsAreCounted
<1>2. IteratorsIn(f, e) \in Nat
  BY IteratorsAreCounted
<1>3. QED BY <1>1, <1>2 DEF Owes

LEMMA OwesAbandoned ==
  ASSUME NEW n \in Int, NEW c \in Seq(Use), NEW f, NEW e, NEW p, NEW q, p[e] \in Nat,
         q[e] = p[e] + CallsIn(c, e), Owes(n, c, f, p, 0, e)
  PROVE  Owes(n, <<>>, f, q, 0, e)
<1>1. CallsIn(c, e) \in Nat
  BY CallsAreCounted
<1>2. IteratorsIn(f, e) \in Nat
  BY IteratorsAreCounted
<1>3. CallsIn(<<>>, e) = 0
  <2>1. <<>> \in Seq(Use) /\ ~\E i \in DOMAIN <<>> : <<>>[i].pce = e
    OBVIOUS
  <2>2. QED BY <2>1, CallsAreCounted
<1>4. QED BY <1>1, <1>2, <1>3 DEF Owes

(* The look-up leaves the count of its entry to be settled by its caller.   *)
LEMMA GotOwes ==
  ASSUME Typed, Settled, NEW r \in Regex, NEW e \in Entry, NEW uses \in {0, 1},
         GetCompiledRegex(r, e, uses)
  PROVE  \A f \in Cached' \ replaced' :
           Owes(entry'[f].refcount, calls, iterators, pinned', IF f = e THEN uses ELSE 0, f)
<1> SUFFICES ASSUME NEW f \in Cached' \ replaced'
             PROVE  Owes(entry'[f].refcount, calls, iterators, pinned', IF f = e THEN uses ELSE 0, f)
  OBVIOUS
<1>1. calls \in Seq(Use) /\ uses \in Nat
  BY DEF Typed
<1>2. CASE Found(r, e, uses)
  <2>1. /\ entry' = [entry EXCEPT ![e].refcount = @ + uses]
        /\ pinned' = pinned /\ f \in Cached \ replaced
    BY <1>2 DEF Found, history, Cached
  <2>2. f \in Entry /\ entry[f].refcount \in Int /\ pinned[f] \in Nat
    BY <2>1 DEF Typed, Cached, Members, Content
  <2>3. Owes(entry[f].refcount, calls, iterators, pinned, 0, f)
    BY <2>1 DEF Settled
  <2>4. CASE f = e
    <3>1. entry'[f].refcount = entry[f].refcount + uses
      BY <2>1, <2>2, <2>4 DEF Typed, Content
    <3>2. Owes(entry[f].refcount + uses, calls, iterators, pinned, uses, f)
      BY <1>1, <2>2, <2>3, OwesMore
    <3>3. QED BY <2>1, <2>4, <3>1, <3>2, Zenon
  <2>5. CASE f # e
    <3>1. entry'[f] = entry[f]
      BY <2>1, <2>2, <2>5 DEF Typed
    <3>2. QED BY <2>1, <2>3, <2>5, <3>1, Zenon
  <2>6. QED BY <2>4, <2>5
<1>3. CASE Compiled(r, e, uses)
  <2>1. /\ entry'[e].refcount = uses /\ pinned'[e] = 0
        /\ \A g \in Kept \ {e} : entry'[g] = entry[g] /\ pinned'[g] = pinned[g]
    BY <1>3, CompiledEntries
  <2>2. Cached' = Members(Rest) \cup {e}
    BY <1>3, CompiledCache
  <2>3. /\ Old(r) # {} => e \in Old(r)
        /\ Old(r) = {} => e \notin Kept
        /\ replaced' = (replaced \cap Kept) \cup {g \in Old(r) : entry[g].refcount # 0}
    BY <1>3, CompiledIs
  <2>4. Members(Rest) \subseteq Cached
    BY RestKeeps DEF Typed
  <2>5. CASE f = e
    <3>1. e \notin InUse
      <4> SUFFICES ASSUME e \in InUse PROVE FALSE
        OBVIOUS
      <4>1. e \in Old(r) /\ e \in Members(Rest) /\ e \in Kept
        BY <2>3 DEF Kept, Old
      <4>2. e \notin replaced /\ entry[e].refcount = 0
        BY <2>3, <2>5, <4>1
      <4>3. e \in Cached \ replaced
        BY <2>4, <4>1, <4>2
      <4>4. QED BY <4>2, <4>3, UsedIsPassed
    <3>2. (~\E i \in DOMAIN calls : calls[i].pce = e) /\ (~\E i \in Iterator : iterators[i] = e)
      BY <3>1, PcreAssumption DEF InUse, Members
    <3>3. Owes(uses, calls, iterators, pinned', uses, e)
      BY <1>1, <2>1, <3>2, OwesFirst
    <3>4. QED BY <2>1, <2>5, <3>3, Zenon
  <2>6. CASE f # e
    <3>1. f \in Members(Rest) /\ f \in Kept
      BY <2>2, <2>6 DEF Kept
    <3>2. f \in Cached \ replaced
      BY <2>3, <2>4, <3>1
    <3>3. Owes(entry[f].refcount, calls, iterators, pinned, 0, f)
      BY <3>2 DEF Settled
    <3>4. entry'[f] = entry[f] /\ pinned'[f] = pinned[f]
      BY <2>1, <2>6, <3>1
    <3>5. Owes(entry'[f].refcount, calls, iterators, pinned', 0, f)
      BY <3>3, <3>4, Zenon DEF Owes
    <3>6. QED BY <2>6, <3>5
  <2>7. QED BY <2>5, <2>6
<1>4. QED BY <1>2, <1>3 DEF GetCompiledRegex

LEMMA SettledStep == Typed /\ Typed' /\ Settled /\ [Next]_vars => Settled'
<1> SUFFICES ASSUME Typed, Typed', Settled, [Next]_vars PROVE Settled'
  OBVIOUS
<1>1. calls \in Seq(Use) /\ calls' \in Seq(Use) /\ Cached \subseteq Entry /\ Cached' \subseteq Entry
  BY DEF Typed, Cached, Members
<1>2. \A f \in Entry : /\ entry[f].refcount \in Int /\ entry'[f].refcount \in Int
                       /\ pinned[f] \in Nat /\ pinned'[f] \in Nat
  BY DEF Typed, Content
<1>3. ASSUME NEW r \in Regex, NEW e \in Entry, Call(r, e) PROVE Settled'
  <2> DEFINE u == [pce |-> e, regex |-> r, locale |-> locale]
  <2>1. calls' = Append(calls, u) /\ iterators' = iterators
    BY <1>3 DEF Call
  <2>2. u \in Use /\ u.pce = e
    BY DEF Typed, Use
  <2> HIDE DEF u
  <2>3. /\ Len(calls') = Len(calls) + 1 /\ \A i \in 1..Len(calls) : calls'[i] = calls[i]
        /\ calls'[Len(calls')].pce = e
    BY <1>1, <2>1, <2>2
  <2>4. \A f \in Cached' \ replaced' :
          Owes(entry'[f].refcount, calls, iterators, pinned', IF f = e THEN 1 ELSE 0, f)
    BY <1>3, GotOwes DEF Call
  <2>5. SUFFICES ASSUME NEW f \in Cached' \ replaced'
                 PROVE  Owes(entry'[f].refcount, calls', iterators, pinned', 0, f)
    BY <2>1, Zenon DEF Settled
  <2>6. f \in Entry
    BY <1>1
  <2>7. CASE f = e
    <3>1. Owes(entry'[f].refcount, calls, iterators, pinned', 1, f)
      BY <2>4, <2>7
    <3>2. QED BY <1>1, <1>2, <2>3, <2>6, <2>7, <3>1, OwesCall
  <2>8. CASE f # e
    <3>1. Owes(entry'[f].refcount, calls, iterators, pinned', 0, f)
      BY <2>4, <2>8
    <3>2. QED BY <1>1, <1>2, <2>3, <2>6, <2>8, <3>1, OwesCall
  <2>9. QED BY <2>7, <2>8
<1>4. ASSUME NEW r \in Regex, NEW e \in Entry, GetOnly(r, e) PROVE Settled'
  <2>1. calls' = calls /\ iterators' = iterators
    BY <1>4 DEF GetOnly
  <2>2. \A f \in Cached' \ replaced' :
          Owes(entry'[f].refcount, calls, iterators, pinned', IF f = e THEN 0 ELSE 0, f)
    BY <1>4, GotOwes DEF GetOnly
  <2>3. \A f \in Cached' \ replaced' :
          Owes(entry'[f].refcount, calls, iterators, pinned', 0, f)
    BY <2>2
  <2>4. QED BY <2>1, <2>3, Zenon DEF Settled
<1>5. ASSUME NEW i \in Iterator, NEW r \in Regex, NEW e \in Entry, NewIterator(i, r, e)
      PROVE  Settled'
  <2>1. calls' = calls /\ iterators' = [iterators EXCEPT ![i] = e] /\ iterators[i] = NoEntry
    BY <1>5 DEF NewIterator
  <2>2. iterators'[i] = e /\ \A j \in Iterator \ {i} : iterators'[j] = iterators[j]
    BY <2>1 DEF Typed
  <2>3. \A f \in Cached' \ replaced' :
          Owes(entry'[f].refcount, calls, iterators, pinned', IF f = e THEN 1 ELSE 0, f)
    BY <1>5, GotOwes DEF NewIterator
  <2>4. SUFFICES ASSUME NEW f \in Cached' \ replaced'
                 PROVE  Owes(entry'[f].refcount, calls, iterators', pinned', 0, f)
    BY <2>1, Zenon DEF Settled
  <2>5. f \in Entry /\ iterators[i] # f
    BY <1>1, <2>1, PcreAssumption
  <2>6. CASE f = e
    <3>1. Owes(entry'[f].refcount, calls, iterators, pinned', 1, f)
      BY <2>3, <2>6
    <3>2. entry'[f].refcount \in Int /\ pinned'[f] \in Nat /\ calls \in Seq(Use)
      BY <1>1, <1>2, <2>5
    <3>3. OneMore(iterators, iterators', i, f)
      BY <2>2, <2>5, <2>6 DEF OneMore
    <3>4. QED BY <3>1, <3>2, <3>3, OwesIterator, Zenon
  <2>7. CASE f # e
    <3>1. Owes(entry'[f].refcount, calls, iterators, pinned', 0, f)
      BY <2>3, <2>7
    <3>2. \A j \in Iterator : iterators'[j] = f <=> iterators[j] = f
      BY <2>2, <2>5, <2>7
    <3>3. QED BY <3>1, <3>2, OwesOther
  <2>8. QED BY <2>6, <2>7
<1>6. ASSUME Return PROVE Settled'
  <2>1. /\ calls # <<>>
        /\ entry' = [entry EXCEPT ![calls[Len(calls)].pce].refcount = @ - 1]
        /\ calls' = SubSeq(calls, 1, Len(calls) - 1)
        /\ UNCHANGED <<iterators, pinned, replaced>> /\ Cached' = Cached
    BY <1>6 DEF Return, CountedOut, history, Cached
  <2>2. /\ Len(calls) = Len(calls') + 1 /\ \A i \in 1..Len(calls') : calls[i] = calls'[i]
        /\ calls[Len(calls)] \in Use
    BY <1>1, <2>1, FrontOf
  <2>3. SUFFICES ASSUME NEW f \in Cached \ replaced
                 PROVE  Owes(entry'[f].refcount, calls', iterators, pinned, 0, f)
    BY <2>1, Zenon DEF Settled
  <2>4. f \in Entry /\ Owes(entry[f].refcount, calls, iterators, pinned, 0, f)
    BY <1>1 DEF Settled
  <2>5. CASE calls[Len(calls)].pce = f
    <3>1. entry'[f].refcount = entry[f].refcount - 1
      BY <2>1, <2>4, <2>5 DEF Typed, Content
    <3>2. Owes(entry[f].refcount, calls', iterators, pinned, 1, f)
      BY <1>1, <1>2, <2>2, <2>4, <2>5, OwesCall
    <3>3. Owes(entry[f].refcount - 1, calls', iterators, pinned, 0, f)
      BY <1>1, <1>2, <2>4, <3>2, OwesLess
    <3>4. QED BY <3>1, <3>3, Zenon
  <2>6. CASE calls[Len(calls)].pce # f
    <3>1. entry'[f] = entry[f]
      BY <2>1, <2>4, <2>6 DEF Typed
    <3>2. Owes(entry[f].refcount, calls', iterators, pinned, 0, f)
      BY <1>1, <1>2, <2>2, <2>4, <2>6, OwesCall
    <3>3. QED BY <3>1, <3>2, Zenon
  <2>7. QED BY <2>5, <2>6
<1>7. ASSUME NEW i \in Iterator, FreeIterator(i) PROVE Settled'
  <2>1. /\ iterators[i] # NoEntry
        /\ entry' = [entry EXCEPT ![iterators[i]].refcount = @ - 1]
        /\ iterators' = [iterators EXCEPT ![i] = NoEntry]
        /\ UNCHANGED <<calls, pinned, replaced>> /\ Cached' = Cached
    BY <1>7 DEF FreeIterator, history, Cached
  <2>2. iterators'[i] = NoEntry /\ \A j \in Iterator \ {i} : iterators'[j] = iterators[j]
    BY <2>1 DEF Typed
  <2>3. SUFFICES ASSUME NEW f \in Cached \ replaced
                 PROVE  Owes(entry'[f].refcount, calls, iterators', pinned, 0, f)
    BY <2>1, Zenon DEF Settled
  <2>4. f \in Entry /\ Owes(entry[f].refcount, calls, iterators, pinned, 0, f) /\ f # NoEntry
    BY <1>1, PcreAssumption DEF Settled
  <2>5. CASE iterators[i] = f
    <3>1. entry'[f].refcount = entry[f].refcount - 1
      BY <2>1, <2>4, <2>5 DEF Typed, Content
    <3>2. OneMore(iterators', iterators, i, f)
      BY <2>2, <2>4, <2>5 DEF OneMore
    <3>3. entry[f].refcount \in Int /\ pinned[f] \in Nat /\ calls \in Seq(Use)
      BY <1>1, <1>2, <2>4
    <3>4. Owes(entry[f].refcount, calls, iterators', pinned, 1, f)
      BY <2>4, <3>2, <3>3, OwesIterator, Zenon
    <3>5. Owes(entry[f].refcount - 1, calls, iterators', pinned, 0, f)
      BY <3>3, <3>4, OwesLess, Zenon
    <3>6. QED BY <3>1, <3>5, Zenon
  <2>6. CASE iterators[i] # f
    <3>1. entry'[f] = entry[f]
      BY <2>1, <2>4, <2>6 DEF Typed
    <3>2. \A j \in Iterator : iterators'[j] = f <=> iterators[j] = f
      BY <2>2, <2>4, <2>6
    <3>3. Owes(entry[f].refcount, calls, iterators', pinned, 0, f)
      BY <2>4, <3>2, OwesOther
    <3>4. QED BY <3>1, <3>3, Zenon
  <2>7. QED BY <2>5, <2>6
<1>8. ASSUME Bailout PROVE Settled'
  <2>1. /\ pinned' = [e \in Entry |-> pinned[e] + CallsOf(e)] /\ calls' = <<>>
        /\ UNCHANGED <<entry, iterators, replaced>> /\ Cached' = Cached
    BY <1>8 DEF Bailout, Cached
  <2>2. SUFFICES ASSUME NEW f \in Cached \ replaced
                 PROVE  Owes(entry[f].refcount, <<>>, iterators, pinned', 0, f)
    BY <2>1, Zenon DEF Settled
  <2>3. f \in Entry /\ Owes(entry[f].refcount, calls, iterators, pinned, 0, f)
    BY <1>1 DEF Settled
  <2>4. pinned'[f] = pinned[f] + CallsIn(calls, f)
    BY <2>1, <2>3 DEF CallsOf, CallsIn
  <2>5. QED BY <1>1, <1>2, <2>3, <2>4, OwesAbandoned
<1>9. ASSUME UNCHANGED <<pcre_cache, entry, calls, iterators, pinned, replaced>> PROVE Settled'
  <2>1. Cached' = Cached
    BY <1>9 DEF Cached
  <2>2. QED BY <1>9, <2>1, Zenon DEF Settled
<1>10. ASSUME NEW l \in Locale, SetLocale(l) PROVE Settled'
  BY <1>9, <1>10 DEF SetLocale, history
<1>11. ASSUME NEW n \in {0, 1}, NextRequest(n) PROVE Settled'
  BY <1>9, <1>11 DEF NextRequest, history
<1>12. ASSUME UNCHANGED vars PROVE Settled'
  BY <1>9, <1>12 DEF vars, history
<1>13. QED
  BY <1>3, <1>4, <1>5, <1>6, <1>7, <1>8, <1>10, <1>11, <1>12 DEF Next

(* What a count says is true: whoever uses an entry that was not filled anew *)
(* is counted in it, or was, when a callback ended the request.              *)
THEOREM CountsAreRight == Spec => []RefcountsBalance
<1>1. Init => Settled
  <2> SUFFICES ASSUME Init PROVE Settled
    OBVIOUS
  <2>1. Cached = {}
    BY DEF Init, Cached, Members
  <2>2. QED BY <2>1 DEF Settled
<1>2. QED
  BY <1>1, TypesInit, TypesStep, SettledStep, BalanceMeans, PTL DEF Spec

-----------------------------------------------------------------------------
LEMMA CallsUse ==
  ASSUME Typed
  PROVE  /\ Cached \subseteq Entry /\ Members(calls) \subseteq Use
         /\ \A u \in Use : u.pce \in Entry
<1>1. Cached \subseteq Entry
  BY DEF Typed, Cached, Members
<1>2. Members(calls) \subseteq Use
  BY DEF Typed, Members
<1>3. \A u \in Use : u.pce \in Entry
  BY DEF Use
<1>4. QED BY <1>1, <1>2, <1>3

LEMMA UsedInit == Init => InUseIsKept
<1> SUFFICES ASSUME Init PROVE InUseIsKept
  OBVIOUS
<1>1. Members(calls) = {} /\ InUse = {}
  BY DEF Init, Members, InUse
<1>2. QED BY <1>1 DEF InUseIsKept

(* A look-up takes nothing from those that use the cache. *)
LEMMA GotKeeps ==
  ASSUME Typed, Settled, InUseIsKept, NEW r \in Regex, NEW e \in Entry, NEW uses \in {0, 1},
         GetCompiledRegex(r, e, uses)
  PROVE  /\ InUse \ replaced' \subseteq Cached'
         /\ \A u \in Members(calls) : u.pce \notin replaced' =>
              entry'[u.pce].regex = u.regex /\ entry'[u.pce].locale = u.locale
<1>1. Cached \subseteq Entry /\ Members(calls) \subseteq Use /\ \A u \in Use : u.pce \in Entry
  BY CallsUse
<1>2. \A u \in Members(calls) : u.pce \in InUse
  BY <1>1, PcreAssumption DEF InUse
<1>3. CASE Found(r, e, uses)
  <2>1. /\ entry' = [entry EXCEPT ![e].refcount = @ + uses]
        /\ replaced' = replaced /\ Cached' = Cached
    BY <1>3 DEF Found, history, Cached
  <2>2. \A f \in Entry : entry'[f].regex = entry[f].regex /\ entry'[f].locale = entry[f].locale
    BY <2>1 DEF Typed, Content
  <2>3. QED BY <1>1, <2>1, <2>2 DEF InUseIsKept
<1>4. CASE Compiled(r, e, uses)
  <2>1. \A g \in Kept \ {e} : entry'[g] = entry[g]
    BY <1>4, CompiledEntries
  <2>2. Cached' = Members(Rest) \cup {e}
    BY <1>4, CompiledCache
  <2>3. /\ Old(r) # {} => e \in Old(r)
        /\ Old(r) = {} => e \notin Kept
        /\ replaced' = (replaced \cap Kept) \cup {g \in Old(r) : entry[g].refcount # 0}
    BY <1>4, CompiledIs
  <2>4. ASSUME NEW f \in InUse \ replaced'
        PROVE  f \in Kept \ {e} /\ f \in Members(Rest) /\ f \notin replaced
    <3>1. f \in Kept /\ f \notin replaced
      BY <2>3 DEF Kept
    <3>2. f \in Cached \ replaced
      BY <3>1 DEF InUseIsKept
    <3>3. entry[f].refcount # 0 /\ f \in Members(Rest)
      BY <3>2, UsedIsPassed
    <3>4. f # e
      BY <2>3, <3>1, <3>3
    <3>5. QED BY <3>1, <3>3, <3>4
  <2>5. InUse \ replaced' \subseteq Cached'
    BY <2>2, <2>4
  <2>6. ASSUME NEW u \in Members(calls), u.pce \notin replaced'
        PROVE  entry'[u.pce].regex = u.regex /\ entry'[u.pce].locale = u.locale
    <3>1. u.pce \in Kept \ {e} /\ u.pce \notin replaced
      BY <1>2, <2>4, <2>6
    <3>2. entry'[u.pce] = entry[u.pce]
      BY <2>1, <3>1
    <3>3. QED BY <3>1, <3>2 DEF InUseIsKept
  <2>7. QED BY <2>5, <2>6
<1>5. QED BY <1>3, <1>4 DEF GetCompiledRegex

LEMMA FewerUsers ==
  ASSUME Members(calls') \subseteq Members(calls),
         \A j \in Iterator : iterators'[j] = iterators[j] \/ iterators'[j] = NoEntry
  PROVE  InUse' \subseteq InUse
<1> SUFFICES ASSUME NEW x \in InUse' PROVE x \in InUse
  OBVIOUS
<1>1. /\ x # NoEntry
      /\ (\E u \in Members(calls') : x = u.pce) \/ (\E j \in Iterator : x = iterators'[j])
  BY DEF InUse
<1>2. (\E u \in Members(calls) : x = u.pce) \/ (\E j \in Iterator : x = iterators[j])
  BY <1>1
<1>3. QED BY <1>1, <1>2 DEF InUse

LEMMA CountedDown ==
  ASSUME Typed, NEW g, entry' = [entry EXCEPT ![g].refcount = @ - 1]
  PROVE  \A f \in Entry : entry'[f].regex = entry[f].regex /\ entry'[f].locale = entry[f].locale
BY DEF Typed, Content

LEMMA UsedStep ==
  Typed /\ Typed' /\ Settled /\ InUseIsKept /\ [Next]_vars => InUseIsKept'
<1> SUFFICES ASSUME Typed, Typed', Settled, InUseIsKept, [Next]_vars PROVE InUseIsKept'
  OBVIOUS
<1>1. Members(calls) \subseteq Use /\ (\A u \in Use : u.pce \in Entry) /\ calls \in Seq(Use)
  BY CallsUse DEF Typed
<1>2. InUse \subseteq Entry
  <2>1. \A i \in Iterator : iterators[i] \in Entry \cup {NoEntry}
    BY DEF Typed
  <2>2. QED BY <1>1, <2>1 DEF InUse
<1>3. ASSUME NEW r \in Regex, NEW e \in Entry, Call(r, e) PROVE InUseIsKept'
  <2> DEFINE u == [pce |-> e, regex |-> r, locale |-> locale]
  <2>1. GetCompiledRegex(r, e, 1) /\ calls' = Append(calls, u) /\ iterators' = iterators
    BY <1>3 DEF Call
  <2>2. u \in Use /\ u.pce = e /\ u.regex = r /\ u.locale = locale
    BY DEF Typed, Use
  <2>3. e \in Cached' /\ entry'[e].regex = r /\ entry'[e].locale = locale
    BY <2>1, GotTypes
  <2>4. /\ InUse \ replaced' \subseteq Cached'
        /\ \A v \in Members(calls) : v.pce \notin replaced' =>
             entry'[v.pce].regex = v.regex /\ entry'[v.pce].locale = v.locale
    BY <2>1, GotKeeps
  <2> HIDE DEF u
  <2>5. Members(Append(calls, u)) = Members(calls) \cup {u}
    BY <1>1, <2>2, MembersAppend
  <2>6. Members(calls') = Members(calls) \cup {u}
    BY <2>1, <2>5, Zenon
  <2>7. InUse' \subseteq InUse \cup {e}
    BY <2>1, <2>2, <2>6 DEF InUse
  <2>8. (InUse \ replaced \subseteq Cached)'
    BY <2>3, <2>4, <2>7
  <2>9. \A v \in Members(calls') : v.pce \notin replaced' =>
          entry'[v.pce].regex = v.regex /\ entry'[v.pce].locale = v.locale
    BY <2>2, <2>3, <2>4, <2>6
  <2>10. QED BY <2>8, <2>9 DEF InUseIsKept
<1>4. ASSUME NEW r \in Regex, NEW e \in Entry, GetOnly(r, e) PROVE InUseIsKept'
  <2>1. GetCompiledRegex(r, e, 0) /\ UNCHANGED <<calls, iterators>>
    BY <1>4 DEF GetOnly
  <2>2. InUse' = InUse /\ Members(calls') = Members(calls)
    BY <2>1 DEF InUse
  <2>3. QED BY <2>1, <2>2, GotKeeps DEF InUseIsKept
<1>5. ASSUME NEW i \in Iterator, NEW r \in Regex, NEW e \in Entry, NewIterator(i, r, e)
      PROVE  InUseIsKept'
  <2>1. GetCompiledRegex(r, e, 1) /\ calls' = calls /\ iterators' = [iterators EXCEPT ![i] = e]
    BY <1>5 DEF NewIterator
  <2>2. \A j \in Iterator : iterators'[j] = iterators[j] \/ iterators'[j] = e
    BY <2>1 DEF Typed
  <2>3. Members(calls') = Members(calls)
    BY <2>1
  <2>4. InUse' \subseteq InUse \cup {e}
    BY <2>2, <2>3 DEF InUse
  <2>5. e \in Cached'
    BY <2>1, GotTypes
  <2>6. /\ InUse \ replaced' \subseteq Cached'
        /\ \A v \in Members(calls) : v.pce \notin replaced' =>
             entry'[v.pce].regex = v.regex /\ entry'[v.pce].locale = v.locale
    BY <2>1, GotKeeps
  <2>7. (InUse \ replaced \subseteq Cached)'
    BY <2>4, <2>5, <2>6
  <2>8. QED BY <2>3, <2>6, <2>7 DEF InUseIsKept
<1>6. ASSUME InUse' \subseteq InUse, Members(calls') \subseteq Members(calls),
             \A f \in Entry : entry'[f].regex = entry[f].regex /\ entry'[f].locale = entry[f].locale,
             Cached' = Cached, replaced' = replaced
      PROVE  InUseIsKept'
  BY <1>1, <1>6 DEF InUseIsKept
<1>7. ASSUME Return PROVE InUseIsKept'
  <2>1. /\ calls # <<>> /\ calls' = SubSeq(calls, 1, Len(calls) - 1)
        /\ entry' = [entry EXCEPT ![calls[Len(calls)].pce].refcount = @ - 1]
        /\ UNCHANGED <<iterators, replaced>> /\ Cached' = Cached
    BY <1>7 DEF Return, CountedOut, history, Cached
  <2>2. Members(calls') \subseteq Members(calls)
    BY <1>1, <2>1, FrontOf
  <2>3. InUse' \subseteq InUse
    <3>1. \A j \in Iterator : iterators'[j] = iterators[j] \/ iterators'[j] = NoEntry
      BY <2>1
    <3>2. Members(calls') \subseteq Members(calls)
      BY <2>2
    <3>3. QED BY <3>1, <3>2, FewerUsers, Zenon
  <2>4. \A f \in Entry : entry'[f].regex = entry[f].regex /\ entry'[f].locale = entry[f].locale
    BY <2>1, CountedDown, Zenon
  <2>5. QED BY <1>6, <2>1, <2>2, <2>3, <2>4
<1>8. ASSUME NEW i \in Iterator, FreeIterator(i) PROVE InUseIsKept'
  <2>1. /\ iterators' = [iterators EXCEPT ![i] = NoEntry]
        /\ entry' = [entry EXCEPT ![iterators[i]].refcount = @ - 1]
        /\ UNCHANGED <<calls, replaced>> /\ Cached' = Cached
    BY <1>8 DEF FreeIterator, history, Cached
  <2>2. \A j \in Iterator : iterators'[j] = iterators[j] \/ iterators'[j] = NoEntry
    BY <2>1 DEF Typed
  <2>3. InUse' \subseteq InUse /\ Members(calls') = Members(calls)
    <3>1. Members(calls') = Members(calls)
      BY <2>1
    <3>2. InUse' \subseteq InUse
      BY <2>2, <3>1, FewerUsers, Zenon
    <3>3. QED BY <3>1, <3>2
  <2>4. \A f \in Entry : entry'[f].regex = entry[f].regex /\ entry'[f].locale = entry[f].locale
    BY <2>1, CountedDown, Zenon
  <2>5. QED BY <1>6, <2>1, <2>3, <2>4
<1>9. ASSUME Bailout PROVE InUseIsKept'
  <2>1. calls' = <<>> /\ UNCHANGED <<pcre_cache, entry, iterators, replaced>>
    BY <1>9 DEF Bailout
  <2>2. Members(calls') = {} /\ Cached' = Cached
    BY <2>1 DEF Members, Cached
  <2>3. InUse' \subseteq InUse
    <3>1. \A j \in Iterator : iterators'[j] = iterators[j] \/ iterators'[j] = NoEntry
      BY <2>1
    <3>2. Members(calls') \subseteq Members(calls)
      BY <2>2
    <3>3. QED BY <3>1, <3>2, FewerUsers, Zenon
  <2>4. QED BY <1>6, <2>1, <2>2, <2>3
<1>10. ASSUME UNCHANGED <<pcre_cache, entry, calls, iterators, replaced>> PROVE InUseIsKept'
  <2>1. Cached' = Cached /\ InUse' = InUse /\ Members(calls') = Members(calls)
    BY <1>10 DEF Cached, InUse
  <2>2. QED BY <1>6, <1>10, <2>1
<1>11. ASSUME NEW l \in Locale, SetLocale(l) PROVE InUseIsKept'
  BY <1>10, <1>11 DEF SetLocale, history
<1>12. ASSUME NEW n \in {0, 1}, NextRequest(n) PROVE InUseIsKept'
  BY <1>10, <1>12 DEF NextRequest, history
<1>13. ASSUME UNCHANGED vars PROVE InUseIsKept'
  BY <1>10, <1>13 DEF vars, history
<1>14. QED
  BY <1>3, <1>4, <1>5, <1>7, <1>8, <1>9, <1>11, <1>12, <1>13 DEF Next

(* No cleaning takes an entry from a call or an iterator that uses it, and a *)
(* call goes on with its own expression, unless a callback filled the entry  *)
(* anew for another locale.                                                  *)
THEOREM UsersKeepTheirEntries == Spec => []InUseIsKept
<1>1. Init => Settled
  <2> SUFFICES ASSUME Init PROVE Settled
    OBVIOUS
  <2>1. Cached = {}
    BY DEF Init, Cached, Members
  <2>2. QED BY <2>1 DEF Settled
<1>2. QED
  BY <1>1, TypesInit, TypesStep, SettledStep, UsedInit, UsedStep, PTL DEF Spec

-----------------------------------------------------------------------------
LEMMA BoundedStep == Typed /\ CacheIsBounded /\ [Next]_vars => CacheIsBounded'
<1> SUFFICES ASSUME Typed, CacheIsBounded, [Next]_vars PROVE CacheIsBounded'
  OBVIOUS
<1>1. Len(pcre_cache) \in Nat /\ PCRE_CACHE_SIZE \in Nat
  BY PcreAssumption DEF Typed
<1>2. ASSUME UNCHANGED <<pcre_cache, overfull>> PROVE CacheIsBounded'
  BY <1>2 DEF CacheIsBounded
<1>3. ASSUME NEW r \in Regex, NEW e \in Entry, NEW uses \in {0, 1}, GetCompiledRegex(r, e, uses)
      PROVE  CacheIsBounded'
  <2>1. CASE Found(r, e, uses)
    BY <1>2, <2>1 DEF Found, history
  <2>2. CASE Compiled(r, e, uses)
    <3>1. /\ pcre_cache' = IF Old(r) # {} THEN Rest ELSE Append(Rest, e)
          /\ overfull' = (overfull \/ (IsFull /\ Old(r) = {} /\ Len(Rest) = PCRE_CACHE_SIZE))
      BY <2>2, CompiledIs
    <3>2. Rest \in Seq(Entry) /\ Len(Rest) <= Len(pcre_cache)
      BY RestKeeps DEF Typed
    <3>3. Len(Rest) \in Nat /\ Len(Append(Rest, e)) = Len(Rest) + 1
      BY <3>2
    <3>4. CASE overfull
      BY <3>1, <3>4 DEF CacheIsBounded
    <3>5. CASE ~overfull /\ Old(r) # {}
      BY <1>1, <3>1, <3>2, <3>3, <3>5 DEF CacheIsBounded
    <3>6. CASE ~overfull /\ Old(r) = {}
      <4>1. Len(pcre_cache) <= PCRE_CACHE_SIZE /\ pcre_cache' = Append(Rest, e)
        BY <3>1, <3>6 DEF CacheIsBounded
      <4>2. CASE Len(Rest) = PCRE_CACHE_SIZE
        <5>1. IsFull
          BY <1>1, <3>2, <4>1, <4>2 DEF IsFull
        <5>2. QED BY <3>1, <3>6, <4>2, <5>1 DEF CacheIsBounded
      <4>3. CASE Len(Rest) # PCRE_CACHE_SIZE
        <5>1. Len(Append(Rest, e)) <= PCRE_CACHE_SIZE
          BY <1>1, <3>2, <3>3, <4>1, <4>3
        <5>2. QED BY <4>1, <5>1 DEF CacheIsBounded
      <4>4. QED BY <4>2, <4>3
    <3>7. QED BY <3>4, <3>5, <3>6 DEF Typed
  <2>3. QED BY <1>3, <2>1, <2>2 DEF GetCompiledRegex
<1>4. ASSUME NEW r \in Regex, NEW e \in Entry,
             Call(r, e) \/ GetOnly(r, e) \/ \E i \in Iterator : NewIterator(i, r, e)
      PROVE  CacheIsBounded'
  BY <1>3, <1>4 DEF Call, GetOnly, NewIterator
<1>5. ASSUME Return \/ Bailout \/ (\E i \in Iterator : FreeIterator(i))
               \/ (\E l \in Locale : SetLocale(l)) \/ NextRequest(0) \/ NextRequest(1)
      PROVE  CacheIsBounded'
  BY <1>2, <1>5 DEF Return, Bailout, FreeIterator, SetLocale, NextRequest, history
<1>6. ASSUME UNCHANGED vars PROVE CacheIsBounded'
  BY <1>2, <1>6 DEF vars, history
<1>7. QED BY <1>4, <1>5, <1>6 DEF Next

(* The cache does not outgrow its limit, unless one was added when all of a  *)
(* full cache were in use.                                                   *)
THEOREM LimitIsKept == Spec => []CacheIsBounded
<1>1. Init => CacheIsBounded
  <2> SUFFICES ASSUME Init PROVE CacheIsBounded
    OBVIOUS
  <2>1. Len(pcre_cache) = 0
    BY DEF Init
  <2>2. QED BY <2>1, PcreAssumption DEF CacheIsBounded
<1>2. QED BY <1>1, TypesInit, TypesStep, BoundedStep, PTL DEF Spec

-----------------------------------------------------------------------------
(* The records of a list that begins at a pointer. *)
Follow(nx, p, q) ==
  /\ q \in Seq(Record)
  /\ p = IF Len(q) = 0 THEN 0 ELSE q[1]
  /\ \A i \in 1..Len(q) : nx[q[i]] = IF i < Len(q) THEN q[i + 1] ELSE 0
Fields == [Record -> Pointer]

LEMMA RecordsAre ==
  /\ \A r \in Record : r \in Nat /\ r # 0 /\ r \in Pointer
  /\ \A p \in Pointer : p # 0 => p \in Record
  /\ 0 \in Pointer /\ 0 \notin Record /\ MaxRecords \in Nat /\ MaxRecords >= 1
  /\ IsFiniteSet(Record) /\ Cardinality(Record) = MaxRecords
<1>1. MaxRecords \in Nat \ {0}
  BY PcntlAssumption
<1>2. IsFiniteSet(Record) /\ Cardinality(Record) = MaxRecords
  BY <1>1, FS_Interval DEF Record
<1>3. QED BY <1>1, <1>2 DEF Record, Pointer

(* Such a list is not longer than there are records. *)
LEMMA FollowLength ==
  ASSUME NEW nx, NEW p, NEW q, Follow(nx, p, q), Distinct(q)
  PROVE  Len(q) \in 0..MaxRecords
<1>1. q \in Seq(Record) /\ Members(q) \in SUBSET Record
  BY DEF Follow, Members
<1>2. Len(q) = Cardinality(Members(q))
  BY <1>1, DistinctLength
<1>3. Cardinality(Members(q)) <= MaxRecords
  BY <1>1, RecordsAre, FS_Subset
<1>4. Len(q) \in Nat
  BY <1>1
<1>5. QED BY <1>2, <1>3, <1>4, RecordsAre

(* List(), hop by hop, returns it: "hop" exists, and there is one only. *)
Hops(nx, p, f) ==
  f = [n \in 0..MaxRecords |->
         IF n = 0 THEN p ELSE IF f[n - 1] = 0 THEN 0 ELSE nx[f[n - 1]]]

LEMMA HopsExist ==
  ASSUME NEW nx \in Fields, NEW p, NEW q, Follow(nx, p, q), Distinct(q)
  PROVE  Hops(nx, p, [n \in 0..MaxRecords |-> IF n < Len(q) THEN q[n + 1] ELSE 0])
<1> DEFINE f == [n \in 0..MaxRecords |-> IF n < Len(q) THEN q[n + 1] ELSE 0]
<1>1. Len(q) \in 0..MaxRecords /\ MaxRecords \in Nat
  BY FollowLength, RecordsAre
<1>2. \A i \in 1..Len(q) : q[i] \in Record /\ q[i] # 0
  BY RecordsAre DEF Follow
<1>3. \A n \in 0..MaxRecords :
        f[n] = IF n = 0 THEN p ELSE IF f[n - 1] = 0 THEN 0 ELSE nx[f[n - 1]]
  <2> SUFFICES ASSUME NEW n \in 0..MaxRecords
               PROVE  f[n] = IF n = 0 THEN p ELSE IF f[n - 1] = 0 THEN 0 ELSE nx[f[n - 1]]
    OBVIOUS
  <2>1. CASE n = 0
    BY <2>1, <1>1 DEF Follow
  <2>2. CASE n # 0 /\ n - 1 >= Len(q)
    BY <2>2, <1>1
  <2>3. CASE n # 0 /\ n - 1 < Len(q)
    <3>1. n \in 1..Len(q) /\ f[n - 1] = q[n] /\ q[n] # 0
      BY <2>3, <1>1, <1>2
    <3>2. nx[q[n]] = IF n < Len(q) THEN q[n + 1] ELSE 0
      BY <3>1 DEF Follow
    <3>3. QED BY <2>3, <3>1, <3>2
  <2>4. QED BY <2>1, <2>2, <2>3, <1>1
<1>4. f = [n \in 0..MaxRecords |-> f[n]]
  OBVIOUS
<1> HIDE DEF f
<1>5. Hops(nx, p, f)
  BY <1>3, <1>4 DEF Hops
<1>6. QED BY <1>5 DEF f

LEMMA HopsUnique ==
  ASSUME NEW nx, NEW p, NEW f, NEW g, Hops(nx, p, f), Hops(nx, p, g)
  PROVE  \A n \in 0..MaxRecords : f[n] = g[n]
<1> DEFINE T == {n \in 0..MaxRecords : f[n] # g[n]}
<1>1. SUFFICES ASSUME T # {} PROVE FALSE
  OBVIOUS
<1>2. T \in SUBSET Nat
  BY RecordsAre
<1>3. PICK n \in T : \A m \in T : n <= m
  BY <1>1, <1>2, LeastNumber
<1>4. /\ n \in 0..MaxRecords /\ f[n] # g[n]
      /\ f[n] = IF n = 0 THEN p ELSE IF f[n - 1] = 0 THEN 0 ELSE nx[f[n - 1]]
      /\ g[n] = IF n = 0 THEN p ELSE IF g[n - 1] = 0 THEN 0 ELSE nx[g[n - 1]]
  BY <1>3 DEF Hops
<1>5. n # 0 /\ n - 1 \in 0..MaxRecords /\ n - 1 < n
  BY <1>4, RecordsAre
<1>6. f[n - 1] = g[n - 1]
  BY <1>3, <1>5, RecordsAre
<1>7. QED BY <1>4, <1>5, <1>6

LEMMA ListIs ==
  ASSUME NEW nx \in Fields, NEW p, NEW q, Follow(nx, p, q), Distinct(q)
  PROVE  List(nx, p) = q
<1> DEFINE f == [n \in 0..MaxRecords |-> IF n < Len(q) THEN q[n + 1] ELSE 0]
           g == CHOOSE h : Hops(nx, p, h)
<1>1. Hops(nx, p, f)
  BY HopsExist
<1>2. Hops(nx, p, g)
  <2> HIDE DEF f
  <2>1. QED BY <1>1
<1>3. \A n \in 0..MaxRecords : f[n] = g[n]
  <2> HIDE DEF f, g
  <2>1. QED BY <1>1, <1>2, HopsUnique
<1>4. List(nx, p) = [i \in {n \in 1..MaxRecords : g[n - 1] # 0} |-> g[i - 1]]
  BY DEF List, Hops
<1>5. /\ Len(q) \in 0..MaxRecords /\ MaxRecords \in Nat
      /\ \A i \in 1..Len(q) : q[i] # 0
  BY FollowLength, RecordsAre DEF Follow
<1>6. \A i \in 1..MaxRecords : g[i - 1] = IF i <= Len(q) THEN q[i] ELSE 0
  <2> SUFFICES ASSUME NEW i \in 1..MaxRecords PROVE g[i - 1] = IF i <= Len(q) THEN q[i] ELSE 0
    OBVIOUS
  <2>1. i - 1 \in 0..MaxRecords /\ (i - 1) + 1 = i /\ (i - 1 < Len(q) <=> i <= Len(q))
    BY <1>5
  <2>2. g[i - 1] = f[i - 1]
    BY <2>1, <1>3
  <2> HIDE DEF g
  <2>3. QED BY <2>1, <2>2
<1> HIDE DEF f, g
<1>7. {n \in 1..MaxRecords : g[n - 1] # 0} = 1..Len(q)
  BY <1>5, <1>6
<1>8. [i \in 1..Len(q) |-> g[i - 1]] = [i \in 1..Len(q) |-> q[i]]
  BY <1>5, <1>6
<1>9. q = [i \in 1..Len(q) |-> q[i]]
  BY DEF Follow
<1>10. QED BY <1>4, <1>7, <1>8, <1>9


-----------------------------------------------------------------------------
(* Lists are stored to: elsewhere, at their beginning, at their end. *)
LEMMA Listed ==
  ASSUME NEW nx, NEW p, NEW q, Follow(nx, p, q)
  PROVE  /\ Len(q) \in Nat /\ DOMAIN q = 1..Len(q) /\ q \in Seq(Record)
         /\ Members(q) \subseteq Record
         /\ \A i \in 1..Len(q) : q[i] \in Members(q)
         /\ \A r \in Members(q) : \E i \in 1..Len(q) : r = q[i]
BY DEF Follow, Members

LEMMA NoList ==
  ASSUME NEW nx
  PROVE  /\ Follow(nx, 0, <<>>) /\ Members(<<>>) = {} /\ Distinct(<<>>)
         /\ \A q : Follow(nx, 0, q) => q = <<>>
<1>1. Follow(nx, 0, <<>>) /\ Members(<<>>) = {} /\ Distinct(<<>>)
  BY DEF Follow, Members, Distinct
<1>2. ASSUME NEW q, Follow(nx, 0, q) PROVE q = <<>>
  <2>1. Len(q) = 0
    <3> SUFFICES ASSUME Len(q) # 0 PROVE FALSE
      OBVIOUS
    <3>1. 1 \in 1..Len(q) /\ q[1] = 0
      BY <1>2, Listed DEF Follow
    <3>2. QED BY <3>1, <1>2, Listed, RecordsAre
  <2>2. QED BY <2>1, <1>2, Listed, EmptySeq
<1>3. QED BY <1>1, <1>2

LEMMA FollowElsewhere ==
  ASSUME NEW nx, NEW p, NEW q, Follow(nx, p, q), NEW ny, NEW r, r \notin Members(q),
         \A x \in Record : x # r => ny[x] = nx[x]
  PROVE  Follow(ny, p, q)
<1>1. \A i \in 1..Len(q) : q[i] \in Record /\ q[i] # r
  BY Listed
<1>2. QED BY <1>1 DEF Follow

LEMMA FollowFirst ==
  ASSUME NEW nx, NEW p, NEW q, Follow(nx, p, q), NEW r \in Record, nx[r] = p, r \notin Members(q)
  PROVE  /\ Follow(nx, r, <<r>> \o q) /\ Members(<<r>> \o q) = {r} \cup Members(q)
         /\ Distinct(q) => Distinct(<<r>> \o q)
<1> DEFINE t == <<r>> \o q
           n == Len(q)
<1>1. /\ n \in Nat /\ DOMAIN q = 1..n /\ DOMAIN t = 1..(n + 1) /\ Len(t) = n + 1
      /\ t \in Seq(Record) /\ t[1] = r /\ \A i \in 1..n : t[i + 1] = q[i]
  BY Listed
<1>2. \A i \in 1..(n + 1) : i = 1 \/ (i - 1 \in 1..n /\ t[i] = q[i - 1])
  BY <1>1
<1>3. p = (IF n = 0 THEN 0 ELSE q[1]) /\ \A i \in 1..n : nx[q[i]] = IF i < n THEN q[i + 1] ELSE 0
  BY DEF Follow
<1> HIDE DEF t, n
<1>4. ASSUME NEW i \in 1..(n + 1) PROVE nx[t[i]] = IF i < n + 1 THEN t[i + 1] ELSE 0
  <2>1. CASE i = 1
    BY <2>1, <1>1, <1>3
  <2>2. CASE i # 1
    <3>1. i - 1 \in 1..n /\ t[i] = q[i - 1] /\ (i - 1 < n <=> i < n + 1) /\ (i - 1) + 1 = i
      BY <2>2, <1>1, <1>2
    <3>2. i < n + 1 => t[i + 1] = q[i]
      BY <1>1
    <3>3. QED BY <3>1, <3>2, <1>3
  <2>3. QED BY <2>1, <2>2
<1>5. Follow(nx, r, t)
  BY <1>1, <1>4 DEF Follow
<1>6. Members(t) = {r} \cup Members(q)
  <2>1. 1 \in 1..(n + 1) /\ \A i \in 1..n : i + 1 \in 1..(n + 1)
    BY <1>1
  <2>2. /\ Members(t) = {t[i] : i \in 1..(n + 1)}
        /\ Members(q) = {q[i] : i \in 1..n}
    BY <1>1 DEF Members
  <2>3. ASSUME NEW x \in Members(t) PROVE x \in {r} \cup Members(q)
    BY <2>2, <1>1, <1>2
  <2>4. ASSUME NEW x \in {r} \cup Members(q) PROVE x \in Members(t)
    <3>1. CASE x = r
      BY <3>1, <2>1, <2>2, <1>1
    <3>2. CASE x \in Members(q)
      <4>1. PICK i \in 1..n : x = q[i]
        BY <3>2, <2>2
      <4>2. QED BY <4>1, <2>1, <2>2, <1>1
    <3>3. QED BY <2>4, <3>1, <3>2
  <2>5. QED BY <2>3, <2>4
<1>7. Distinct(q) => Distinct(t)
  <2> SUFFICES ASSUME Distinct(q), NEW i \in 1..(n + 1), NEW j \in 1..(n + 1), t[i] = t[j]
               PROVE  i = j
    BY <1>1 DEF Distinct
  <2>1. \A k \in 1..n : q[k] # r
    BY <1>1 DEF Members
  <2>2. CASE i = 1 \/ j = 1
    BY <2>1, <2>2, <1>1, <1>2
  <2>3. CASE i # 1 /\ j # 1
    <3>1. i - 1 \in 1..n /\ j - 1 \in 1..n /\ q[i - 1] = q[j - 1]
      BY <2>3, <1>2
    <3>2. i - 1 = j - 1
      BY <3>1, <1>1 DEF Distinct
    <3>3. QED BY <3>2
  <2>4. QED BY <2>2, <2>3
<1>8. QED BY <1>5, <1>6, <1>7 DEF t

LEMMA FollowRest ==
  ASSUME NEW nx, NEW p, NEW q, Follow(nx, p, q), Distinct(q), p # 0
  PROVE  /\ p \in Record /\ q = <<p>> \o Tail(q)
         /\ Follow(nx, nx[p], Tail(q)) /\ Distinct(Tail(q))
         /\ Members(q) = {p} \cup Members(Tail(q)) /\ p \notin Members(Tail(q))
<1> DEFINE t == Tail(q)
           n == Len(q)
<1>1. n \in Nat /\ n # 0 /\ DOMAIN q = 1..n /\ q \in Seq(Record) /\ q[1] = p
  BY Listed DEF Follow
<1>2. q # <<>>
  BY <1>1
<1>3. /\ t \in Seq(Record) /\ Len(t) = n - 1 /\ DOMAIN t = 1..(n - 1)
      /\ \A i \in 1..(n - 1) : t[i] = q[i + 1]
  BY <1>1, <1>2, HeadTailProperties
<1>4. \A i \in 1..n : q[i] \in Record /\ nx[q[i]] = IF i < n THEN q[i + 1] ELSE 0
  BY <1>1 DEF Follow
<1> HIDE DEF t, n
<1>5. 1 \in 1..n /\ p \in Record
  BY <1>1, <1>4
<1>6. \A i \in 1..n : i = 1 \/ (i - 1 \in 1..(n - 1) /\ q[i] = t[i - 1])
  BY <1>1, <1>3
<1>7. \A i \in 1..(n - 1) : i + 1 \in 1..n /\ i + 1 # 1 /\ i \in 1..n
  BY <1>1
<1>8. Follow(nx, nx[p], t)
  <2>1. nx[p] = IF n - 1 = 0 THEN 0 ELSE t[1]
    BY <1>1, <1>3, <1>4, <1>5
  <2>2. ASSUME NEW i \in 1..(n - 1) PROVE nx[t[i]] = IF i < n - 1 THEN t[i + 1] ELSE 0
    <3>1. t[i] = q[i + 1] /\ i + 1 \in 1..n /\ (i < n - 1 <=> i + 1 < n)
      BY <1>1, <1>3, <1>7
    <3>2. i < n - 1 => i + 1 \in 1..(n - 1)
      BY <1>1
    <3>3. i < n - 1 => t[i + 1] = q[(i + 1) + 1]
      BY <3>2, <1>3
    <3>4. QED BY <3>1, <3>3, <1>4
  <2>3. QED BY <2>1, <2>2, <1>3 DEF Follow
<1>9. Members(q) = {p} \cup Members(t)
  <2>1. /\ Members(t) = {t[i] : i \in 1..(n - 1)}
        /\ Members(q) = {q[i] : i \in 1..n}
    BY <1>1, <1>3 DEF Members
  <2>2. ASSUME NEW x \in Members(q) PROVE x \in {p} \cup Members(t)
    BY <2>1, <1>1, <1>6
  <2>3. ASSUME NEW x \in {p} \cup Members(t) PROVE x \in Members(q)
    <3>1. CASE x = p
      BY <3>1, <2>1, <1>1, <1>5
    <3>2. CASE x \in Members(t)
      <4>1. PICK i \in 1..(n - 1) : x = t[i]
        BY <3>2, <2>1
      <4>2. QED BY <4>1, <2>1, <1>3, <1>7
    <3>3. QED BY <2>3, <3>1, <3>2
  <2>4. QED BY <2>2, <2>3
<1>10. p \notin Members(t) /\ Distinct(t)
  <2>1. \A i \in 1..(n - 1) : t[i] # q[1]
    BY <1>1, <1>3, <1>5, <1>7 DEF Distinct
  <2>2. ASSUME NEW i \in 1..(n - 1), NEW j \in 1..(n - 1), t[i] = t[j] PROVE i = j
    <3>1. q[i + 1] = q[j + 1] /\ i + 1 \in 1..n /\ j + 1 \in 1..n
      BY <2>2, <1>3, <1>7
    <3>2. i + 1 = j + 1
      BY <3>1, <1>1 DEF Distinct
    <3>3. QED BY <3>2
  <2>3. QED BY <2>1, <2>2, <1>1, <1>3 DEF Members, Distinct
<1>11. q = <<p>> \o t
  <2>1. /\ <<p>> \in Seq(Record) /\ Len(<<p>>) = 1 /\ <<p>>[1] = p
    BY <1>5
  <2>2. /\ <<p>> \o t \in Seq(Record) /\ Len(<<p>> \o t) = 1 + (n - 1)
        /\ \A i \in 1..(1 + (n - 1)) : (<<p>> \o t)[i] = IF i <= 1 THEN <<p>>[i] ELSE t[i - 1]
    BY <2>1, <1>3, ConcatProperties
  <2>3. Len(q) = Len(<<p>> \o t)
    BY <2>2, <1>1 DEF n
  <2>4. \A i \in 1..n : q[i] = (<<p>> \o t)[i]
    BY <2>1, <2>2, <1>1, <1>6
  <2>5. QED BY <2>2, <2>3, <2>4, <1>1, SeqEqual DEF n
<1>12. QED BY <1>5, <1>8, <1>9, <1>10, <1>11 DEF t

LEMMA FollowLast ==
  ASSUME NEW nx \in Fields, NEW p, NEW q, Follow(nx, p, q), Distinct(q), q # <<>>,
         NEW r \in Record, r \notin Members(q)
  PROVE  /\ q[Len(q)] \in Members(q) /\ p # 0
         /\ Follow([[nx EXCEPT ![r] = 0] EXCEPT ![q[Len(q)]] = r], p, Append(q, r))
<1> DEFINE t == Append(q, r)
           n == Len(q)
           ny == [[nx EXCEPT ![r] = 0] EXCEPT ![q[n]] = r]
<1>1. n \in Nat /\ n # 0 /\ DOMAIN q = 1..n /\ q \in Seq(Record) /\ q[1] = p
  BY Listed, EmptySeq DEF Follow
<1>2. /\ t \in Seq(Record) /\ Len(t) = n + 1 /\ t[n + 1] = r
      /\ \A i \in 1..n : t[i] = q[i]
  BY <1>1, AppendProperties
<1>3. \A i \in 1..n : /\ q[i] \in Record /\ q[i] # r /\ q[i] \in Members(q)
                      /\ nx[q[i]] = IF i < n THEN q[i + 1] ELSE 0
  BY Listed DEF Follow
<1>4. n \in 1..n /\ 1 \in 1..n
  BY <1>1
<1>5. \A i \in 1..n : i # n => q[i] # q[n]
  BY <1>1, <1>4 DEF Distinct
<1>6. /\ ny[q[n]] = r /\ ny[r] = 0
      /\ \A i \in 1..n : i # n => ny[q[i]] = nx[q[i]]
  BY <1>3, <1>4, <1>5 DEF Fields
<1> HIDE DEF t, n, ny
<1>7. ASSUME NEW i \in 1..(n + 1) PROVE ny[t[i]] = IF i < n + 1 THEN t[i + 1] ELSE 0
  <2>1. CASE i = n + 1
    BY <2>1, <1>1, <1>2, <1>6
  <2>2. CASE i = n
    BY <2>2, <1>1, <1>2, <1>4, <1>6
  <2>3. CASE i < n
    <3>1. i \in 1..n /\ i # n /\ i + 1 \in 1..n /\ i < n + 1
      BY <2>3, <1>1
    <3>2. QED BY <3>1, <2>3, <1>2, <1>3, <1>6
  <2>4. QED BY <2>1, <2>2, <2>3, <1>1
<1>8. Follow(ny, p, t)
  <2>1. n + 1 # 0 /\ t[1] = p
    BY <1>1, <1>2, <1>4
  <2>2. QED BY <2>1, <1>2, <1>7 DEF Follow
<1>9. p # 0 /\ q[n] \in Members(q)
  BY <1>1, <1>3, <1>4, RecordsAre
<1>10. QED BY <1>8, <1>9 DEF t, n, ny


-----------------------------------------------------------------------------
(* The records that live are apart: in hand, still to be played, queued, and *)
(* spare.  The last one queued is the tail.                                  *)
Parted(l, o, a, h, s) ==
  /\ Distinct(a) /\ Distinct(h) /\ Distinct(s)
  /\ l = o \cup Members(a) \cup Members(h) \cup Members(s)
  /\ o \cap (Members(a) \cup Members(h) \cup Members(s)) = {}
  /\ Members(a) \cap (Members(h) \cup Members(s)) = {}
  /\ Members(h) \cap Members(s) = {}
Whole(nx, l, o, p, hd, tl, sp, a, h, s) ==
  /\ Follow(nx, p, a) /\ Follow(nx, hd, h) /\ Follow(nx, sp, s)
  /\ h # <<>> => tl = h[Len(h)]
  /\ Parted(l, o, a, h, s)

LEMMA WholeOfNothing ==
  ASSUME NEW nx, NEW tl PROVE Whole(nx, {}, {}, 0, 0, tl, 0, <<>>, <<>>, <<>>)
BY NoList DEF Whole, Parted

(* Fields of records that are in no list do not matter: of new ones, ... *)
LEMMA WholeElsewhere ==
  ASSUME NEW nx \in Fields, NEW l, NEW o, NEW p, NEW hd, NEW tl, NEW sp, NEW a, NEW h, NEW s,
         Whole(nx, l, o, p, hd, tl, sp, a, h, s),
         NEW r \in Record, r \notin l \/ r \in o, NEW x
  PROVE  Whole([nx EXCEPT ![r] = x], l, o, p, hd, tl, sp, a, h, s)
<1>1. r \notin Members(a) /\ r \notin Members(h) /\ r \notin Members(s)
  BY DEF Whole, Parted
<1>2. \A y \in Record : y # r => [nx EXCEPT ![r] = x][y] = nx[y]
  BY DEF Fields
<1>3. Follow(nx, p, a) /\ Follow(nx, hd, h) /\ Follow(nx, sp, s)
  BY DEF Whole
<1> DEFINE ny == [nx EXCEPT ![r] = x]
<1> HIDE DEF ny
<1>4. Follow(ny, p, a) /\ Follow(ny, hd, h) /\ Follow(ny, sp, s)
  <2>1. \A y \in Record : y # r => ny[y] = nx[y]
    BY <1>2 DEF ny
  <2>2. QED BY <2>1, <1>1, <1>3, FollowElsewhere
<1>5. Whole(ny, l, o, p, hd, tl, sp, a, h, s)
  BY <1>4 DEF Whole
<1>6. QED BY <1>5 DEF ny

(* ... which become spare, *)
LEMMA WholePush ==
  ASSUME NEW nx \in Fields, NEW l, NEW o, NEW p, NEW hd, NEW tl, NEW sp, NEW a, NEW h, NEW s,
         Whole(nx, l, o, p, hd, tl, sp, a, h, s), NEW r \in Record, r \notin l, nx[r] = sp
  PROVE  Whole(nx, l \cup {r}, o, p, hd, tl, r, a, h, <<r>> \o s)
<1>1. r \notin Members(a) /\ r \notin Members(h) /\ r \notin Members(s) /\ r \notin o
  BY DEF Whole, Parted
<1>2. /\ Follow(nx, r, <<r>> \o s) /\ Members(<<r>> \o s) = {r} \cup Members(s)
      /\ Distinct(<<r>> \o s)
  BY <1>1, FollowFirst DEF Whole, Parted
<1>3. Parted(l \cup {r}, o, a, h, <<r>> \o s)
  BY <1>1, <1>2 DEF Whole, Parted
<1>4. QED BY <1>2, <1>3 DEF Whole

(* ... and as the one in hand does. *)
LEMMA WholeSpare ==
  ASSUME NEW nx \in Fields, NEW l, NEW r \in Record, NEW p, NEW hd, NEW tl, NEW sp,
         NEW a, NEW h, NEW s,
         Whole(nx, l, {r}, p, hd, tl, sp, a, h, s), nx[r] = sp
  PROVE  Whole(nx, l, {}, p, hd, tl, r, a, h, <<r>> \o s)
<1>1. r \notin Members(a) /\ r \notin Members(h) /\ r \notin Members(s)
  BY DEF Whole, Parted
<1>2. /\ Follow(nx, r, <<r>> \o s) /\ Members(<<r>> \o s) = {r} \cup Members(s)
      /\ Distinct(<<r>> \o s)
  BY <1>1, FollowFirst DEF Whole, Parted
<1>3. Parted(l, {}, a, h, <<r>> \o s)
  BY <1>1, <1>2 DEF Whole, Parted
<1>4. QED BY <1>2, <1>3 DEF Whole

(* The dispatcher takes the queue, and takes its first record in hand. *)
LEMMA WholeQueue ==
  ASSUME NEW nx \in Fields, NEW l, NEW hd, NEW tl, NEW sp, NEW a, NEW h, NEW s,
         Whole(nx, l, {}, 0, hd, tl, sp, a, h, s)
  PROVE  a = <<>> /\ Whole(nx, l, {}, hd, 0, tl, sp, h, <<>>, s)
<1>1. a = <<>> /\ Members(a) = {}
  BY NoList DEF Whole
<1>2. Follow(nx, 0, <<>>) /\ Members(<<>>) = {} /\ Distinct(<<>>)
  BY NoList
<1>3. Parted(l, {}, h, <<>>, s)
  BY <1>1, <1>2 DEF Whole, Parted
<1>4. QED BY <1>1, <1>2, <1>3 DEF Whole

LEMMA WholeTake ==
  ASSUME NEW nx \in Fields, NEW l, NEW p, NEW hd, NEW tl, NEW sp, NEW a, NEW h, NEW s,
         Whole(nx, l, {}, p, hd, tl, sp, a, h, s), p # 0
  PROVE  a = <<p>> \o Tail(a) /\ Whole(nx, l, {p}, nx[p], hd, tl, sp, Tail(a), h, s)
<1>1. /\ p \in Record /\ a = <<p>> \o Tail(a)
      /\ Follow(nx, nx[p], Tail(a)) /\ Distinct(Tail(a))
      /\ Members(a) = {p} \cup Members(Tail(a)) /\ p \notin Members(Tail(a))
  BY FollowRest DEF Whole, Parted
<1> DEFINE t == Tail(a)
<1> HIDE DEF t
<1>2. /\ Follow(nx, nx[p], t) /\ Distinct(t)
      /\ Members(a) = {p} \cup Members(t) /\ p \notin Members(t)
  BY <1>1 DEF t
<1>3. Parted(l, {p}, t, h, s)
  BY <1>2 DEF Whole, Parted
<1>4. Whole(nx, l, {p}, nx[p], hd, tl, sp, t, h, s)
  BY <1>2, <1>3 DEF Whole
<1>5. QED BY <1>1, <1>4 DEF t

(* The handler appends a spare record to the queue. *)
LEMMA WholeHandler ==
  ASSUME NEW nx \in Fields, NEW l, NEW o, NEW p, NEW hd, NEW tl, NEW sp, NEW a, NEW h, NEW s,
         Whole(nx, l, o, p, hd, tl, sp, a, h, s), sp # 0, NEW ny,
         ny = LET ended == [nx EXCEPT ![sp] = 0]
              IN IF hd # 0 /\ tl # 0 THEN [ended EXCEPT ![tl] = sp] ELSE ended
  PROVE  Whole(ny, l, o, p, IF hd # 0 /\ tl # 0 THEN hd ELSE sp, sp, nx[sp],
               a, Append(h, sp), Tail(s))
<1> DEFINE t == Tail(s)
           g == Append(h, sp)
<1>1. /\ sp \in Record /\ Follow(nx, nx[sp], t) /\ Distinct(t)
      /\ Members(s) = {sp} \cup Members(t) /\ sp \notin Members(t)
  <2>1. Follow(nx, sp, s) /\ Distinct(s)
    BY DEF Whole, Parted
  <2>2. QED BY <2>1, FollowRest
<1>2. sp \notin Members(a) /\ sp \notin Members(h) /\ sp \notin o
  BY <1>1 DEF Whole, Parted
<1>3. h \in Seq(Record)
  BY DEF Whole, Follow
<1>4. Members(g) = Members(h) \cup {sp} /\ Distinct(g)
  BY <1>1, <1>2, <1>3, MembersAppend DEF Whole, Parted
<1>5. g # <<>> /\ g[Len(g)] = sp
  BY <1>1, <1>3, AppendProperties
<1>6. CASE h = <<>>
  <2>1. hd = 0
    BY <1>6 DEF Whole, Follow
  <2>2. ny = [nx EXCEPT ![sp] = 0]
    BY <2>1
  <2>3. \A y \in Record : y # sp => ny[y] = nx[y]
    BY <2>2 DEF Fields
  <2>4. Follow(ny, p, a) /\ Follow(ny, nx[sp], t)
    <3> HIDE DEF t
    <3>1. QED BY <2>3, <1>1, <1>2, FollowElsewhere DEF Whole
  <2>5. Follow(ny, sp, g)
    <3>1. g = <<sp>> /\ Len(g) = 1 /\ g[1] = sp
      BY <1>6
    <3>2. ny[sp] = 0
      BY <2>2, <1>1 DEF Fields
    <3>3. QED BY <3>1, <3>2, <1>1 DEF Follow
  <2> HIDE DEF t, g
  <2>6. Parted(l, o, a, g, t)
    BY <1>1, <1>2, <1>4 DEF Whole, Parted
  <2>7. Whole(ny, l, o, p, sp, sp, nx[sp], a, g, t)
    BY <2>4, <2>5, <2>6, <1>5 DEF Whole
  <2>8. QED BY <2>1, <2>7 DEF t, g
<1>7. CASE h # <<>>
  <2>1. tl = h[Len(h)]
    BY <1>7 DEF Whole
  <2>2. /\ tl \in Members(h) /\ hd # 0
        /\ Follow([[nx EXCEPT ![sp] = 0] EXCEPT ![tl] = sp], hd, g)
    BY <2>1, <1>1, <1>2, <1>7, FollowLast DEF Whole, Parted
  <2>3. tl # 0 /\ tl \in Record
    BY <2>2, Listed, RecordsAre DEF Whole
  <2>4. ny = [[nx EXCEPT ![sp] = 0] EXCEPT ![tl] = sp]
    BY <2>2, <2>3
  <2>5. tl \notin Members(a) /\ tl \notin Members(t)
    BY <2>2, <1>1 DEF Whole, Parted
  <2>6. Follow(ny, p, a) /\ Follow(ny, nx[sp], t)
    <3> DEFINE n1 == [nx EXCEPT ![sp] = 0]
    <3>1. \A y \in Record : y # sp => n1[y] = nx[y]
      BY DEF Fields
    <3>2. \A y \in Record : y # tl => ny[y] = n1[y]
      BY <2>4 DEF Fields
    <3> HIDE DEF t, n1
    <3>3. Follow(n1, p, a) /\ Follow(n1, nx[sp], t)
      BY <3>1, <1>1, <1>2, FollowElsewhere DEF Whole
    <3>4. Follow(ny, p, a)
      BY <3>2, <3>3, <2>5, FollowElsewhere
    <3>5. PICK b : b = nx[sp]
      OBVIOUS
    <3>6. Follow(n1, b, t)
      BY <3>3, <3>5
    <3>7. Follow(ny, b, t)
      BY <3>2, <3>6, <2>5, FollowElsewhere
    <3>8. QED BY <3>4, <3>5, <3>7
  <2> HIDE DEF t, g
  <2>7. Parted(l, o, a, g, t)
    BY <1>1, <1>2, <1>4 DEF Whole, Parted
  <2>8. Whole(ny, l, o, p, hd, sp, nx[sp], a, g, t)
    BY <2>2, <2>4, <2>6, <2>7, <1>5 DEF Whole
  <2>9. QED BY <2>2, <2>3, <2>8 DEF t, g
<1>8. QED BY <1>6, <1>7


-----------------------------------------------------------------------------
(* Types, whatever scripts unblock and whenever signals arrive. *)
USE DEF records, lists, flags, kernel, locals, bounds

(* Why there is a record for each that is to be allocated, a record in hand, *)
(* and another request.                                                      *)
Steady ==
  /\ pc \in {"take", "give", "spare"} => queue # 0
  /\ playing # NoSignal => queue # 0
  /\ pc = "user" => playing # NoSignal
  /\ pc \in {"new", "push", "set"} => todo.signo \in Signal
  /\ pc \in {"new", "push"} => Cardinality(live) + (Batch - count) <= MaxRecords
  /\ pc = "push" => count < Batch /\ psig \in Record /\ psig \notin live
  /\ Ending => requests < MaxRequests /\ playing = NoSignal
PcntlTyped == PcntlTypeOK /\ Steady

LEMMA PcntlInitTyped == PcntlInit => PcntlTyped
<1> SUFFICES ASSUME PcntlInit PROVE PcntlTyped
  OBVIOUS
<1>1. PcntlTypeOK
  <2>1. next \in [Record -> Pointer] /\ signo \in [Record -> Signal \cup {NoSignal}]
    BY RecordsAre DEF PcntlInit
  <2>2. todo \in Calls /\ count \in 0..Batch /\ sent \in 0..MaxRaised /\ requests \in 0..MaxRequests
    BY PcntlAssumption DEF PcntlInit, Calls, NoCall
  <2>3. {head, tail, spares, queue, rest, psig} \subseteq Pointer
    BY RecordsAre DEF PcntlInit
  <2>4. QED BY <2>1, <2>2, <2>3 DEF PcntlInit, PcntlTypeOK
<1>2. Steady
  BY DEF PcntlInit, Steady, Ending
<1>3. QED BY <1>1, <1>2 DEF PcntlTyped

LEMMA LiveIsFinite ==
  ASSUME PcntlTyped
  PROVE  /\ IsFiniteSet(live) /\ Cardinality(live) \in 0..MaxRecords
         /\ Cardinality(live) < MaxRecords => \E r \in Record : r \notin live
<1>1. live \in SUBSET Record
  BY DEF PcntlTyped, PcntlTypeOK
<1>2. IsFiniteSet(live) /\ Cardinality(live) <= MaxRecords
  BY <1>1, RecordsAre, FS_Subset
<1>3. Cardinality(live) \in Nat
  BY <1>2, FS_CardinalityType
<1>4. live = Record => Cardinality(live) = MaxRecords
  BY RecordsAre
<1>5. QED BY <1>1, <1>2, <1>3, <1>4, RecordsAre

(* Steps that the process does not take, and those of the script. *)
LEMMA TypesRaise == ASSUME PcntlTyped, NEW s \in Signal, Raise(s) PROVE PcntlTyped'
<1>1. PcntlTypeOK'
  BY PcntlAssumption DEF PcntlTyped, PcntlTypeOK, Raise
<1>2. Steady'
  BY DEF PcntlTyped, Steady, Ending, Raise
<1>3. QED BY <1>1, <1>2 DEF PcntlTyped

LEMMA TypesHandler == ASSUME PcntlTyped, NEW s \in Signal, Handler(s) PROVE PcntlTyped'
<1>1. spares = 0 \/ spares \in Record
  BY RecordsAre DEF PcntlTyped, PcntlTypeOK
<1>2. next' \in [Record -> Pointer] /\ signo' \in [Record -> Signal \cup {NoSignal}]
  BY <1>1, RecordsAre DEF PcntlTyped, PcntlTypeOK, Handler
<1>3. {head', tail', spares'} \subseteq Pointer /\ pending_signals' \in BOOLEAN /\ raised' \subseteq Signal
  <2>1. head \in Pointer /\ tail \in Pointer /\ spares \in Pointer
    BY DEF PcntlTyped, PcntlTypeOK
  <2>2. spares # 0 => next[spares] \in Pointer
    BY <1>1 DEF PcntlTyped, PcntlTypeOK
  <2>3. head' \in Pointer /\ tail' \in Pointer /\ spares' \in Pointer
    BY <2>1, <2>2 DEF Handler
  <2>4. pending_signals' \in BOOLEAN /\ raised' \subseteq Signal
    BY DEF PcntlTyped, PcntlTypeOK, Handler
  <2>5. QED BY <2>3, <2>4
<1>4. PcntlTypeOK'
  BY <1>2, <1>3 DEF PcntlTyped, PcntlTypeOK, Handler
<1>5. Steady'
  BY DEF PcntlTyped, Steady, Ending, Handler
<1>6. QED BY <1>4, <1>5 DEF PcntlTyped

LEMMA TypesPcntlSignal ==
  ASSUME PcntlTyped, NEW s \in Signal, NEW handle \in BOOLEAN, PcntlSignal(s, handle)
  PROVE  PcntlTyped'
<1>1. /\ Cardinality(live) \in Nat /\ MaxRecords \in Nat /\ Batch \in Nat
      /\ spares = 0 => Cardinality(live) + (Batch - 0) <= MaxRecords
  BY LiveIsFinite, PcntlAssumption, RecordsAre DEF PcntlSignal
<1>2. PcntlTypeOK'
  BY PcntlAssumption DEF PcntlTyped, PcntlTypeOK, PcntlSignal, Calls
<1>3. Steady'
  BY <1>1 DEF PcntlTyped, Steady, Ending, PcntlSignal, InScript
<1>4. QED BY <1>2, <1>3 DEF PcntlTyped

LEMMA TypesScript ==
  ASSUME PcntlTyped, \/ \E s \in Signal : SigWaitInfo(s)
                     \/ \E mask \in SUBSET Signal : SigProcMask(mask)
                     \/ Fork \/ Returned
  PROVE  PcntlTyped'
<1>1. PcntlTypeOK'
  BY DEF PcntlTyped, PcntlTypeOK, SigWaitInfo, SigProcMask, Fork, Returned
<1>2. Steady'
  BY DEF PcntlTyped, Steady, Ending, SigWaitInfo, SigProcMask, Fork, Returned
<1>3. QED BY <1>1, <1>2 DEF PcntlTyped

LEMMA TypesNew == ASSUME PcntlTyped, New PROVE PcntlTyped'
<1>1. Cardinality(live) < MaxRecords
  <2>1. count \in Nat /\ Batch \in Nat /\ count < Batch /\ MaxRecords \in Nat /\ Cardinality(live) \in Nat
    BY PcntlAssumption, RecordsAre, LiveIsFinite DEF PcntlTyped, PcntlTypeOK, New, More
  <2>2. Cardinality(live) + (Batch - count) <= MaxRecords
    BY DEF PcntlTyped, Steady, New
  <2>3. QED BY <2>1, <2>2
<1>2. psig' \in Record /\ psig' \notin live
  BY <1>1, LiveIsFinite DEF New
<1>3. PcntlTypeOK'
  <2>1. next' \in [Record -> Pointer]
    BY DEF PcntlTyped, PcntlTypeOK, New
  <2>2. QED BY <1>2, <2>1, RecordsAre DEF PcntlTyped, PcntlTypeOK, New
<1>4. Steady'
  BY <1>2 DEF PcntlTyped, Steady, Ending, New, More
<1>5. QED BY <1>3, <1>4 DEF PcntlTyped

LEMMA TypesPush == ASSUME PcntlTyped, Push PROVE PcntlTyped'
<1>1. /\ psig \in Record /\ psig \notin live /\ count \in Nat /\ Batch \in Nat /\ count < Batch
      /\ MaxRecords \in Nat /\ Cardinality(live) \in Nat /\ IsFiniteSet(live)
      /\ Cardinality(live) + (Batch - count) <= MaxRecords
  BY PcntlAssumption, RecordsAre, LiveIsFinite DEF PcntlTyped, PcntlTypeOK, Steady, Push
<1>2. Cardinality(live \cup {psig}) = Cardinality(live) + 1
  BY <1>1, FS_AddElement
<1>3. PcntlTypeOK'
  BY <1>1, RecordsAre DEF PcntlTyped, PcntlTypeOK, Push
<1>4. Cardinality(live') + (Batch - count') <= MaxRecords
  <2>1. PICK c \in Nat : c = Cardinality(live)
    BY <1>1
  <2>2. PICK n \in Nat : n = count
    BY <1>1
  <2>3. live' = live \cup {psig} /\ count' = n + 1
    BY <2>2 DEF Push
  <2>4. c + (Batch - n) <= MaxRecords => (c + 1) + (Batch - (n + 1)) <= MaxRecords
    BY <1>1
  <2>5. QED BY <1>1, <1>2, <2>1, <2>2, <2>3, <2>4
<1>5. Steady'
  BY <1>4 DEF PcntlTyped, Steady, Ending, Push
<1>6. QED BY <1>3, <1>5 DEF PcntlTyped

LEMMA TypesSet == ASSUME PcntlTyped, Allocated \/ Set PROVE PcntlTyped'
<1>1. CASE Allocated
  <2>1. PcntlTypeOK'
    BY <1>1 DEF PcntlTyped, PcntlTypeOK, Allocated
  <2>2. Steady'
    BY <1>1 DEF PcntlTyped, Steady, Ending, Allocated
  <2>3. QED BY <2>1, <2>2 DEF PcntlTyped
<1>2. CASE Set
  <2>1. todo.signo \in Signal
    BY <1>2 DEF PcntlTyped, Steady, Set
  <2>2. PcntlTypeOK'
    <3>1. php_signal_table' \subseteq Signal /\ installed' \subseteq Signal /\ raised' \subseteq Signal
      BY <1>2, <2>1 DEF PcntlTyped, PcntlTypeOK, Set
    <3>2. todo' \in Calls /\ count' \in 0..Batch /\ pc' \in {"run", "user"}
      BY <1>2, PcntlAssumption DEF Set, Calls, NoCall, Base
    <3>3. QED BY <1>2, <3>1, <3>2 DEF PcntlTyped, PcntlTypeOK, Set
  <2>3. Steady'
    BY <1>2 DEF PcntlTyped, Steady, Ending, Set, Base
  <2>4. QED BY <2>2, <2>3 DEF PcntlTyped
<1>3. QED BY <1>1, <1>2

(* Those of the dispatcher. *)
LEMMA TypesDispatcher ==
  ASSUME PcntlTyped, Dispatch \/ Bail \/ TakeQueue \/ Play \/ Played PROVE PcntlTyped'
<1>1. PcntlTypeOK'
  <2>1. queue # 0 => queue \in Record
    BY RecordsAre DEF PcntlTyped, PcntlTypeOK
  <2>2. CASE Play
    BY <2>1, <2>2 DEF PcntlTyped, PcntlTypeOK, Play
  <2>3. CASE Dispatch
    BY <2>3 DEF PcntlTyped, PcntlTypeOK, Dispatch
  <2>4. CASE Bail
    BY <2>4 DEF PcntlTyped, PcntlTypeOK, Bail
  <2>5. CASE TakeQueue
    BY <2>5, RecordsAre DEF PcntlTyped, PcntlTypeOK, TakeQueue
  <2>6. CASE Played
    BY <2>6 DEF PcntlTyped, PcntlTypeOK, Played, Reenabled
  <2>7. QED BY <2>2, <2>3, <2>4, <2>5, <2>6
<1>2. Steady'
  <2>1. CASE Play
    <3>1. php_signal_table \subseteq Signal
      BY DEF PcntlTyped, PcntlTypeOK
    <3>2. QED BY <2>1, <3>1, PcntlAssumption DEF PcntlTyped, Steady, Ending, Play
  <2>2. CASE Dispatch \/ Bail \/ TakeQueue \/ Played
    BY <2>2 DEF PcntlTyped, Steady, Ending, Dispatch, Bail, TakeQueue, Played
  <2>3. QED BY <2>1, <2>2
<1>3. QED BY <1>1, <1>2 DEF PcntlTyped

LEMMA TypesSpare == ASSUME PcntlTyped, Take \/ Give \/ Spare PROVE PcntlTyped'
<1>1. queue \in Record
  BY RecordsAre DEF PcntlTyped, PcntlTypeOK, Steady, Take, Give, Spare
<1>2. PcntlTypeOK'
  <2>1. CASE Take
    BY <2>1, <1>1 DEF PcntlTyped, PcntlTypeOK, Take
  <2>2. CASE Give
    <3>1. next' \in [Record -> Pointer]
      BY <2>2 DEF PcntlTyped, PcntlTypeOK, Give
    <3>2. QED BY <2>2, <3>1, RecordsAre DEF PcntlTyped, PcntlTypeOK, Give
  <2>3. CASE Spare
    BY <2>3, RecordsAre DEF PcntlTyped, PcntlTypeOK, Spare, Following
  <2>4. QED BY <2>1, <2>2, <2>3
<1>3. Steady'
  BY <1>1 DEF PcntlTyped, Steady, Ending, Take, Give, Spare
<1>4. QED BY <1>2, <1>3 DEF PcntlTyped

(* The request ends. *)
LEMMA TypesEnd ==
  ASSUME PcntlTyped, EndRequest \/ LoadFirst \/ FreeFirst \/ QueueFreed \/ BeginRequest
  PROVE  PcntlTyped'
<1>1. CASE EndRequest
  <2>1. PcntlTypeOK'
    BY <1>1, RecordsAre DEF PcntlTyped, PcntlTypeOK, EndRequest
  <2>2. Steady'
    BY <1>1 DEF PcntlTyped, Steady, Ending, EndRequest
  <2>3. QED BY <2>1, <2>2 DEF PcntlTyped
<1>2. CASE LoadFirst
  <2>1. queue' \in Record
    BY <1>2, RecordsAre DEF PcntlTyped, PcntlTypeOK, LoadFirst
  <2>2. PcntlTypeOK'
    BY <1>2, <2>1, RecordsAre DEF PcntlTyped, PcntlTypeOK, LoadFirst
  <2>3. Steady'
    BY <1>2, <2>1, RecordsAre DEF PcntlTyped, Steady, Ending, LoadFirst
  <2>4. QED BY <2>2, <2>3 DEF PcntlTyped
<1>3. CASE FreeFirst
  <2>1. playing = NoSignal \/ playing # NoSignal
    OBVIOUS
  <2>2. PcntlTypeOK'
    BY <1>3, RecordsAre DEF PcntlTyped, PcntlTypeOK, FreeFirst
  <2>3. Steady'
    BY <1>3 DEF PcntlTyped, Steady, Ending, FreeFirst
  <2>4. QED BY <2>2, <2>3 DEF PcntlTyped
<1>4. CASE QueueFreed
  <2>1. PcntlTypeOK'
    BY <1>4 DEF PcntlTyped, PcntlTypeOK, QueueFreed
  <2>2. Steady'
    BY <1>4 DEF PcntlTyped, Steady, Ending, QueueFreed
  <2>3. QED BY <2>1, <2>2 DEF PcntlTyped
<1>5. CASE BeginRequest
  <2>1. requests' \in 0..MaxRequests
    BY <1>5, PcntlAssumption DEF PcntlTyped, PcntlTypeOK, Steady, Ending, BeginRequest
  <2>2. PcntlTypeOK'
    BY <1>5, <2>1, RecordsAre DEF PcntlTyped, PcntlTypeOK, BeginRequest
  <2>3. Steady'
    BY <1>5 DEF PcntlTyped, Steady, Ending, BeginRequest
  <2>4. QED BY <2>2, <2>3 DEF PcntlTyped
<1>6. QED BY <1>1, <1>2, <1>3, <1>4, <1>5

LEMMA PcntlStepTyped == PcntlTyped /\ [PcntlNext]_pcntl_vars => PcntlTyped'
<1> SUFFICES ASSUME PcntlTyped, [PcntlNext]_pcntl_vars PROVE PcntlTyped'
  OBVIOUS
<1>1. CASE \E s \in Signal : Raise(s) \/ Handler(s)
  BY <1>1, TypesRaise, TypesHandler
<1>2. CASE Script
  BY <1>2, TypesPcntlSignal, TypesScript, TypesEnd DEF Script
<1>3. CASE Dispatch \/ Dispatcher \/ Returned
  BY <1>3, TypesDispatcher, TypesSpare, TypesScript DEF Dispatcher
<1>4. CASE Engine
  BY <1>4, TypesNew, TypesPush, TypesSet, TypesEnd DEF Engine
<1>5. CASE UNCHANGED pcntl_vars
  <2>1. PcntlTypeOK'
    BY <1>5 DEF PcntlTyped, PcntlTypeOK, pcntl_vars
  <2>2. Steady'
    BY <1>5 DEF PcntlTyped, Steady, Ending, pcntl_vars
  <2>3. QED BY <2>1, <2>2 DEF PcntlTyped
<1>6. QED BY <1>1, <1>2, <1>3, <1>4, <1>5 DEF PcntlNext

(* Pointers lead to records or are NULL, signals are those of the system, and *)
(* pcntl_signal() allocates a batch of records and no more.                   *)
THEOREM PcntlTypesHold == PcntlSpec => []PcntlTypeOK
<1>1. PcntlSpec => []PcntlTyped
  BY PcntlInitTyped, PcntlStepTyped, PTL DEF PcntlSpec
<1>2. PcntlTyped => PcntlTypeOK
  BY DEF PcntlTyped
<1>3. QED BY <1>1, <1>2, PTL


-----------------------------------------------------------------------------
(* Where the records are, and which steps the handler cannot come between. *)
InHand == IF pc \in {"give", "spare"} THEN {queue} ELSE {}
StillToPlay == IF pc \in {"give", "spare"} THEN rest ELSE queue
Listing(a, h, s) ==
  Whole(next, live, InHand, StillToPlay, head, tail, spares, a, h, s)
NextListing(a, h, s) ==
  Whole(next', live', InHand', StillToPlay', head', tail', spares', a, h, s)

Masked == pc \in {"masked", "play", "take", "give", "spare"} \/ playing # NoSignal
Phases ==
  /\ Masked => blocked = Signal
  /\ pc \in {"run", "masked", "play"} => playing = NoSignal
  /\ pc \in {"run", "masked", "new", "push", "set"} /\ playing = NoSignal => queue = 0
  /\ pc \in {"unqueue", "unspare"} => queue = 0
  /\ Ending => php_signal_table = {}
  /\ pc \in {"take", "give", "spare"} /\ playing = NoSignal => signo[queue] \notin php_signal_table
  /\ pc = "push" => next[psig] = spares
  /\ pc = "give" => psig = spares
  /\ pc = "spare" => next[queue] = spares
PcntlInv ==
  /\ PcntlTyped /\ Phases
  /\ ~Ending => \E a, h, s : Listing(a, h, s)

LEMMA PhasesHandler ==
  ASSUME PcntlTyped, Phases, Quiet, NEW s \in Signal, Handler(s)
  PROVE  Phases' /\ ~Masked /\ pc \notin {"new", "push"}
<1>1. ~Masked /\ pc \notin {"new", "push"}
  BY DEF Phases, Handler
<1>2. Phases'
  BY <1>1 DEF Phases, Handler, Masked, Ending
<1>3. QED BY <1>1, <1>2

LEMMA PhasesScript ==
  ASSUME PcntlTyped, Phases, ~Unblocks,
         \/ \E s \in Signal : Raise(s) \/ SigWaitInfo(s) \/ PcntlSignal(s, TRUE) \/ PcntlSignal(s, FALSE)
         \/ \E mask \in SUBSET Signal : SigProcMask(mask)
         \/ Fork \/ Returned
  PROVE  Phases'
<1>1. CASE \E s \in Signal : Raise(s) \/ SigWaitInfo(s)
  BY <1>1 DEF Phases, Masked, Ending, Raise, SigWaitInfo
<1>2. CASE \E s \in Signal : PcntlSignal(s, TRUE) \/ PcntlSignal(s, FALSE)
  BY <1>2 DEF Phases, Masked, Ending, PcntlSignal, InScript, PcntlTyped, Steady
<1>3. CASE \E mask \in SUBSET Signal : SigProcMask(mask)
  BY <1>3 DEF Phases, Masked, Ending, SigProcMask, InScript
<1>4. CASE Fork
  BY <1>4 DEF Phases, Masked, Ending, Fork
<1>5. CASE Returned
  BY <1>5 DEF Phases, Masked, Ending, Returned, PcntlTyped, Steady
<1>6. QED BY <1>1, <1>2, <1>3, <1>4, <1>5

LEMMA PhasesEngine ==
  ASSUME PcntlTyped, Phases, Engine
  PROVE  Phases'
<1>1. CASE New
  <2>1. psig' \in Record
    BY <1>1, TypesNew DEF PcntlTyped, Steady, New
  <2>2. next'[psig'] = spares'
    BY <1>1, <2>1 DEF New, PcntlTyped, PcntlTypeOK
  <2>3. QED BY <1>1, <2>2 DEF Phases, Masked, Ending, New
<1>2. CASE Push
  BY <1>2 DEF Phases, Masked, Ending, Push
<1>3. CASE Allocated
  BY <1>3 DEF Phases, Masked, Ending, Allocated
<1>4. CASE Set
  BY <1>4 DEF Phases, Masked, Ending, Set, Base
<1>5. CASE LoadFirst
  BY <1>5 DEF Phases, Masked, Ending, LoadFirst
<1>6. CASE FreeFirst
  BY <1>6 DEF Phases, Masked, Ending, FreeFirst
<1>7. CASE QueueFreed
  BY <1>7 DEF Phases, Masked, Ending, QueueFreed
<1>8. CASE BeginRequest
  BY <1>8 DEF Phases, Masked, Ending, BeginRequest, PcntlTyped, Steady
<1>9. QED BY <1>1, <1>2, <1>3, <1>4, <1>5, <1>6, <1>7, <1>8 DEF Engine

LEMMA PhasesDispatcher ==
  ASSUME PcntlTyped, Phases, Dispatch \/ Dispatcher \/ EndRequest
  PROVE  Phases'
<1>1. CASE Dispatch
  BY <1>1 DEF Phases, Masked, Ending, Dispatch
<1>2. CASE Bail
  BY <1>2 DEF Phases, Masked, Ending, Bail
<1>3. CASE TakeQueue
  BY <1>3 DEF Phases, Masked, Ending, TakeQueue
<1>4. CASE Play
  BY <1>4 DEF Phases, Masked, Ending, Play
<1>5. CASE Take
  BY <1>5 DEF Phases, Masked, Ending, Take
<1>6. CASE Give
  <2>1. queue \in Record
    BY <1>6, RecordsAre DEF PcntlTyped, PcntlTypeOK, Steady, Give
  <2>2. next'[queue] = psig
    BY <1>6, <2>1 DEF Give, PcntlTyped, PcntlTypeOK
  <2>3. QED BY <1>6, <2>2 DEF Phases, Masked, Ending, Give
<1>7. CASE Spare
  BY <1>7 DEF Phases, Masked, Ending, Spare
<1>8. CASE Played
  BY <1>8 DEF Phases, Masked, Ending, Played
<1>9. CASE EndRequest
  BY <1>9 DEF Phases, Masked, Ending, EndRequest
<1>10. QED BY <1>1, <1>2, <1>3, <1>4, <1>5, <1>6, <1>7, <1>8, <1>9 DEF Dispatcher

LEMMA PhasesStep ==
  ASSUME Quiet, ~Unblocks
  PROVE  PcntlTyped /\ Phases /\ [PcntlNext]_pcntl_vars => Phases'
<1> SUFFICES ASSUME PcntlTyped, Phases, [PcntlNext]_pcntl_vars PROVE Phases'
  OBVIOUS
<1>1. CASE \E s \in Signal : Raise(s) \/ Handler(s)
  BY <1>1, PhasesScript, PhasesHandler
<1>2. CASE Script
  BY <1>2, PhasesScript, PhasesDispatcher DEF Script
<1>3. CASE Dispatch \/ Dispatcher \/ Returned
  BY <1>3, PhasesDispatcher, PhasesScript
<1>4. CASE Engine
  BY <1>4, PhasesEngine
<1>5. CASE UNCHANGED pcntl_vars
  BY <1>5 DEF Phases, Masked, Ending, pcntl_vars
<1>6. QED BY <1>1, <1>2, <1>3, <1>4, <1>5 DEF PcntlNext

-----------------------------------------------------------------------------
(* How a step changes the lists. *)
LEMMA ListsAre ==
  ASSUME PcntlTyped PROVE next \in Fields /\ queue \in Pointer /\ spares \in Pointer
BY DEF PcntlTyped, PcntlTypeOK, Fields

LEMMA ListingSame ==
  ASSUME NEW a, NEW h, NEW s, Listing(a, h, s), UNCHANGED <<next, live, lists, queue>>,
         \/ UNCHANGED <<pc, rest>>
         \/ pc \notin {"give", "spare"} /\ pc' \notin {"give", "spare"}
  PROVE  NextListing(a, h, s)
BY DEF Listing, NextListing, InHand, StillToPlay

LEMMA ListingQuietSteps ==
  ASSUME PcntlTyped, NEW a, NEW h, NEW s, Listing(a, h, s),
         \/ \E c \in Signal : Raise(c) \/ SigWaitInfo(c) \/ PcntlSignal(c, TRUE) \/ PcntlSignal(c, FALSE)
         \/ \E mask \in SUBSET Signal : SigProcMask(mask)
         \/ Fork \/ Returned \/ Dispatch \/ Bail \/ Play \/ Played \/ Allocated \/ Set
         \/ UNCHANGED pcntl_vars
  PROVE  NextListing(a, h, s)
<1>1. CASE \/ \E c \in Signal : Raise(c) \/ SigWaitInfo(c)
           \/ \E mask \in SUBSET Signal : SigProcMask(mask)
           \/ Fork \/ UNCHANGED pcntl_vars
  BY <1>1, ListingSame DEF Raise, SigWaitInfo, SigProcMask, Fork, pcntl_vars
<1>2. CASE \E c \in Signal : PcntlSignal(c, TRUE) \/ PcntlSignal(c, FALSE)
  BY <1>2, ListingSame DEF PcntlSignal, InScript
<1>3. CASE Returned \/ Dispatch \/ Bail \/ Play \/ Played \/ Allocated \/ Set
  BY <1>3, ListingSame DEF Returned, Dispatch, Bail, Play, Played, Allocated, Set, Base
<1>4. QED BY <1>1, <1>2, <1>3

LEMMA ListingHandler ==
  ASSUME PcntlTyped, Phases, Quiet, NEW c \in Signal, Handler(c), NEW a, NEW h, NEW s, Listing(a, h, s)
  PROVE  /\ spares = 0 => NextListing(a, h, s)
         /\ spares # 0 => NextListing(a, Append(h, spares), Tail(s))
<1>1. pc \notin {"give", "spare"} /\ UNCHANGED <<pc, queue, rest, live>>
  BY PhasesHandler DEF Handler, Masked
<1>2. CASE spares = 0
  BY <1>1, <1>2, ListingSame DEF Handler
<1>3. CASE spares # 0
  <2>1. /\ next' = LET ended == [next EXCEPT ![spares] = 0]
                   IN IF head # 0 /\ tail # 0 THEN [ended EXCEPT ![tail] = spares] ELSE ended
        /\ head' = IF head # 0 /\ tail # 0 THEN head ELSE spares
        /\ tail' = spares /\ spares' = next[spares]
    BY <1>3 DEF Handler, NonEmpty
  <2>2. next \in Fields /\ Whole(next, live, {}, queue, head, tail, spares, a, h, s)
    BY <1>1, ListsAre DEF Listing, InHand, StillToPlay
  <2>3. Whole(next', live, {}, queue, head', tail', spares', a, Append(h, spares), Tail(s))
    BY <1>3, <2>1, <2>2, WholeHandler
  <2>4. QED BY <1>1, <1>3, <2>3 DEF NextListing, InHand, StillToPlay
<1>4. QED BY <1>2, <1>3

LEMMA ListingAllocates ==
  ASSUME PcntlTyped, Phases, NEW a, NEW h, NEW s, Listing(a, h, s)
  PROVE  /\ New => NextListing(a, h, s)
         /\ Push => NextListing(a, h, <<psig>> \o s)
<1>1. CASE New
  <2>1. psig' \in Record /\ psig' \notin live
    BY <1>1, TypesNew DEF PcntlTyped, Steady, New
  <2>2. next \in Fields /\ Whole(next, live, {}, queue, head, tail, spares, a, h, s)
    BY <1>1, ListsAre DEF Listing, InHand, StillToPlay, New
  <2>3. Whole(next', live, {}, queue, head, tail, spares, a, h, s)
    BY <1>1, <2>1, <2>2, WholeElsewhere DEF New
  <2>4. QED BY <1>1, <2>3 DEF NextListing, InHand, StillToPlay, New, Push
<1>2. CASE Push
  <2>1. psig \in Record /\ psig \notin live /\ next[psig] = spares
    BY <1>2 DEF PcntlTyped, Steady, Phases, Push
  <2>2. next \in Fields /\ Whole(next, live, {}, queue, head, tail, spares, a, h, s)
    BY <1>2, ListsAre DEF Listing, InHand, StillToPlay, Push
  <2>3. Whole(next, live \cup {psig}, {}, queue, head, tail, psig, a, h, <<psig>> \o s)
    BY <2>1, <2>2, WholePush
  <2>4. QED BY <1>2, <2>3 DEF NextListing, InHand, StillToPlay, New, Push
<1>3. QED BY <1>1, <1>2

LEMMA ListingDispatches ==
  ASSUME PcntlTyped, Phases, NEW a, NEW h, NEW s, Listing(a, h, s)
  PROVE  /\ TakeQueue => a = <<>> /\ NextListing(h, <<>>, s)
         /\ Take => a = <<queue>> \o Tail(a) /\ NextListing(Tail(a), h, s)
         /\ Give => NextListing(a, h, s)
         /\ Spare => NextListing(a, h, <<queue>> \o s)
<1>1. next \in Fields /\ queue \in Pointer
  BY ListsAre
<1>2. CASE TakeQueue
  <2>1. queue = 0
    BY <1>2 DEF Phases, TakeQueue
  <2>2. Whole(next, live, {}, 0, head, tail, spares, a, h, s)
    BY <1>2, <2>1 DEF Listing, InHand, StillToPlay, TakeQueue
  <2>3. a = <<>> /\ Whole(next, live, {}, head, 0, tail, spares, h, <<>>, s)
    BY <1>1, <2>2, WholeQueue
  <2>4. QED BY <1>2, <2>3 DEF NextListing, InHand, StillToPlay, TakeQueue, Take, Give, Spare
<1>3. CASE Take
  <2>1. queue # 0
    BY <1>3 DEF PcntlTyped, Steady, Take
  <2>2. Whole(next, live, {}, queue, head, tail, spares, a, h, s)
    BY <1>3 DEF Listing, InHand, StillToPlay, Take
  <2>3. /\ a = <<queue>> \o Tail(a)
        /\ Whole(next, live, {queue}, next[queue], head, tail, spares, Tail(a), h, s)
    BY <1>1, <2>1, <2>2, WholeTake
  <2>4. QED BY <1>3, <2>3 DEF NextListing, InHand, StillToPlay, TakeQueue, Take, Give, Spare
<1>4. CASE Give
  <2>1. queue \in Record
    BY <1>1, <1>4, RecordsAre DEF PcntlTyped, Steady, Give
  <2>2. Whole(next, live, {queue}, rest, head, tail, spares, a, h, s)
    BY <1>4 DEF Listing, InHand, StillToPlay, Give
  <2>3. Whole([next EXCEPT ![queue] = psig], live, {queue}, rest, head, tail, spares, a, h, s)
    BY <1>1, <2>1, <2>2, WholeElsewhere
  <2>4. QED BY <1>4, <2>3 DEF NextListing, InHand, StillToPlay, TakeQueue, Take, Give, Spare
<1>5. CASE Spare
  <2>1. queue \in Record /\ next[queue] = spares
    BY <1>1, <1>5, RecordsAre DEF PcntlTyped, Steady, Phases, Spare
  <2>2. Whole(next, live, {queue}, rest, head, tail, spares, a, h, s)
    BY <1>5 DEF Listing, InHand, StillToPlay, Spare
  <2>3. Whole(next, live, {}, rest, head, tail, queue, a, h, <<queue>> \o s)
    BY <1>1, <2>1, <2>2, WholeSpare
  <2>4. QED BY <1>5, <2>3 DEF NextListing, InHand, StillToPlay, TakeQueue, Take, Give, Spare, Following
<1>6. QED BY <1>2, <1>3, <1>4, <1>5

LEMMA ListingBegins ==
  ASSUME PcntlTyped, Phases, BeginRequest PROVE NextListing(<<>>, <<>>, <<>>)
<1>1. /\ live' = {} /\ head' = 0 /\ spares' = 0 /\ queue' = 0 /\ pc' = "run"
  BY DEF Phases, BeginRequest
<1>2. QED BY <1>1, WholeOfNothing DEF NextListing, InHand, StillToPlay

LEMMA OngoingBefore ==
  ASSUME [PcntlNext]_pcntl_vars, ~Ending', ~BeginRequest PROVE ~Ending
<1>1. CASE \E s \in Signal : Raise(s) \/ Handler(s)
  BY <1>1 DEF Ending, Raise, Handler
<1>2. CASE Script \/ Dispatch \/ Dispatcher \/ Returned
  BY <1>2 DEF Ending, Script, Dispatch, Dispatcher, Returned, InScript, PcntlSignal, SigWaitInfo,
              SigProcMask, Fork, EndRequest, Bail, TakeQueue, Play, Take, Give, Spare, Played
<1>3. CASE Engine
  BY <1>3 DEF Ending, Engine, New, Push, Allocated, Set, LoadFirst, FreeFirst, QueueFreed
<1>4. CASE UNCHANGED pcntl_vars
  BY <1>4 DEF Ending, pcntl_vars
<1>5. QED BY <1>1, <1>2, <1>3, <1>4 DEF PcntlNext

LEMMA ListedNext ==
  ASSUME Quiet, ~Unblocks
  PROVE  PcntlInv /\ [PcntlNext]_pcntl_vars /\ ~Ending' => \E a, h, s : NextListing(a, h, s)
<1> SUFFICES ASSUME PcntlInv, [PcntlNext]_pcntl_vars, ~Ending'
             PROVE  \E a, h, s : NextListing(a, h, s)
  OBVIOUS
<1>1. PcntlTyped /\ Phases
  BY DEF PcntlInv
<1>2. CASE BeginRequest
  BY <1>1, <1>2, ListingBegins
<1>3. CASE ~BeginRequest
  <2>1. ~Ending
    BY <1>3, OngoingBefore
  <2>2. PICK a, h, s : Listing(a, h, s)
    BY <2>1 DEF PcntlInv
  <2>3. CASE \E c \in Signal : Raise(c) \/ Handler(c)
    BY <2>2, <2>3, <1>1, ListingQuietSteps, ListingHandler
  <2>4. CASE Script
    <3>1. ~EndRequest
      BY DEF EndRequest, Ending
    <3>2. QED BY <2>2, <2>4, <3>1, <1>1, ListingQuietSteps DEF Script
  <2>5. CASE Dispatch \/ Dispatcher \/ Returned
    BY <2>2, <2>5, <1>1, ListingQuietSteps, ListingDispatches DEF Dispatcher
  <2>6. CASE Engine
    <3>1. ~(LoadFirst \/ FreeFirst \/ QueueFreed)
      BY <2>1 DEF Ending, LoadFirst, FreeFirst, QueueFreed
    <3>2. QED BY <2>2, <2>6, <3>1, <1>1, <1>3, ListingQuietSteps, ListingAllocates DEF Engine
  <2>7. CASE UNCHANGED pcntl_vars
    BY <2>2, <2>7, <1>1, ListingQuietSteps
  <2>8. QED BY <2>3, <2>4, <2>5, <2>6, <2>7 DEF PcntlNext
<1>4. QED BY <1>2, <1>3

LEMMA PcntlInvariance == ASSUME Quiet, ~Unblocks PROVE PcntlSpec => []PcntlInv
<1>1. PcntlInit => PcntlInv
  <2> SUFFICES ASSUME PcntlInit PROVE PcntlInv
    OBVIOUS
  <2>1. PcntlTyped
    BY PcntlInitTyped
  <2>2. Phases
    BY DEF PcntlInit, Phases, Masked, Ending
  <2>3. Listing(<<>>, <<>>, <<>>)
    BY WholeOfNothing DEF PcntlInit, Listing, InHand, StillToPlay
  <2>4. QED BY <2>1, <2>2, <2>3 DEF PcntlInv
<1>2. PcntlInv /\ [PcntlNext]_pcntl_vars => PcntlInv'
  <2> SUFFICES ASSUME PcntlInv, [PcntlNext]_pcntl_vars PROVE PcntlInv'
    OBVIOUS
  <2>1. PcntlTyped' /\ Phases'
    BY PcntlStepTyped, PhasesStep DEF PcntlInv
  <2>2. ~Ending' => \E a, h, s : NextListing(a, h, s)
    BY ListedNext
  <2>3. \A a, h, s : NextListing(a, h, s) <=> Listing(a, h, s)'
    BY DEF NextListing, Listing
  <2>4. QED BY <2>1, <2>2, <2>3 DEF PcntlInv
<1>3. QED BY <1>1, <1>2, PTL DEF PcntlSpec


-----------------------------------------------------------------------------
(* What the lists hold, as a sequence: the record in hand, those to be played, *)
(* those queued.                                                              *)
HeldIn(c, q, nx, r, hd) ==
  (IF c \in {"give", "spare"} THEN <<q>> \o List(nx, r) ELSE List(nx, q)) \o List(nx, hd)
Waiting(c, q, a, h) == (IF c \in {"give", "spare"} THEN <<q>> \o a ELSE a) \o h

LEMMA HeldIs ==
  ASSUME NEW nx \in Fields, NEW l, NEW o, NEW c, NEW q, NEW r, NEW hd, NEW tl, NEW sp,
         NEW a, NEW h, NEW s, NEW p, p = IF c \in {"give", "spare"} THEN r ELSE q,
         Whole(nx, l, o, p, hd, tl, sp, a, h, s)
  PROVE  /\ HeldIn(c, q, nx, r, hd) = Waiting(c, q, a, h)
         /\ List(nx, sp) = s
<1>1. /\ Follow(nx, p, a) /\ Distinct(a)
      /\ Follow(nx, hd, h) /\ Distinct(h) /\ Follow(nx, sp, s) /\ Distinct(s)
  BY DEF Whole, Parted
<1>2. List(nx, p) = a
  BY <1>1, ListIs
<1>3. List(nx, hd) = h
  BY <1>1, ListIs
<1>4. List(nx, sp) = s
  BY <1>1, ListIs
<1>5. QED BY <1>2, <1>3, <1>4 DEF Waiting, HeldIn

(* Sequences with no member in common, and none of them twice. *)
LEMMA ConcatDistinct ==
  ASSUME NEW S, NEW s \in Seq(S), NEW t \in Seq(S), Distinct(s), Distinct(t),
         Members(s) \cap Members(t) = {}
  PROVE  /\ s \o t \in Seq(S) /\ Distinct(s \o t)
         /\ Members(s \o t) = Members(s) \cup Members(t)
<1> DEFINE u == s \o t
           m == Len(s)
           n == Len(t)
<1>1. /\ m \in Nat /\ n \in Nat /\ DOMAIN s = 1..m /\ DOMAIN t = 1..n
      /\ u \in Seq(S) /\ DOMAIN u = 1..(m + n)
      /\ \A i \in 1..(m + n) : u[i] = IF i <= m THEN s[i] ELSE t[i - m]
  BY ConcatProperties
<1>2. /\ Members(s) = {s[i] : i \in 1..m} /\ Members(t) = {t[i] : i \in 1..n}
      /\ Members(u) = {u[i] : i \in 1..(m + n)}
  BY <1>1 DEF Members
<1> HIDE DEF u, m, n
<1>3. \A i \in 1..(m + n) : \/ i \in 1..m /\ u[i] = s[i]
                            \/ i - m \in 1..n /\ i \notin 1..m /\ u[i] = t[i - m]
  BY <1>1
<1>4. Members(u) = Members(s) \cup Members(t)
  <2>1. ASSUME NEW x \in Members(u) PROVE x \in Members(s) \cup Members(t)
    BY <1>2, <1>3
  <2>2. ASSUME NEW x \in Members(s) PROVE x \in Members(u)
    <3>1. PICK i \in 1..m : x = s[i]
      BY <1>2
    <3>2. i \in 1..(m + n) /\ u[i] = x
      BY <3>1, <1>1
    <3>3. QED BY <3>2, <1>2
  <2>3. ASSUME NEW x \in Members(t) PROVE x \in Members(u)
    <3>1. PICK i \in 1..n : x = t[i]
      BY <1>2
    <3>2. m + i \in 1..(m + n) /\ ~(m + i <= m) /\ (m + i) - m = i
      BY <1>1
    <3>3. u[m + i] = x
      BY <3>1, <3>2, <1>1
    <3>4. QED BY <3>2, <3>3, <1>2
  <2>4. QED BY <2>1, <2>2, <2>3
<1>5. Distinct(u)
  <2> SUFFICES ASSUME NEW i \in 1..(m + n), NEW j \in 1..(m + n), u[i] = u[j] PROVE i = j
    BY <1>1 DEF Distinct
  <2>1. CASE i \in 1..m /\ j \in 1..m
    BY <2>1, <1>1, <1>3 DEF Distinct
  <2>2. CASE i \notin 1..m /\ j \notin 1..m
    <3>1. i - m \in 1..n /\ j - m \in 1..n /\ t[i - m] = t[j - m]
      BY <2>2, <1>3
    <3>2. i - m = j - m
      BY <3>1, <1>1 DEF Distinct
    <3>3. QED BY <3>2, <1>1
  <2>3. CASE i \in 1..m /\ j \notin 1..m
    <3>1. u[i] \in Members(s) /\ u[j] \in Members(t)
      BY <2>3, <1>2, <1>3
    <3>2. QED BY <3>1
  <2>4. CASE i \notin 1..m /\ j \in 1..m
    <3>1. u[i] \in Members(t) /\ u[j] \in Members(s)
      BY <2>4, <1>2, <1>3
    <3>2. QED BY <3>1
  <2>5. QED BY <2>1, <2>2, <2>3, <2>4
<1>6. QED BY <1>1, <1>4, <1>5 DEF u

LEMMA WaitingIsPart ==
  ASSUME NEW nx, NEW l, NEW c, NEW q \in Pointer, c \in {"give", "spare"} => q # 0,
         NEW o, o = IF c \in {"give", "spare"} THEN {q} ELSE {},
         NEW p, NEW hd, NEW tl, NEW sp, NEW a, NEW h, NEW s,
         Whole(nx, l, o, p, hd, tl, sp, a, h, s)
  PROVE  /\ Waiting(c, q, a, h) \in Seq(Record) /\ Distinct(Waiting(c, q, a, h))
         /\ Members(Waiting(c, q, a, h)) \cap Members(s) = {}
         /\ Members(Waiting(c, q, a, h)) \cup Members(s) = l
         /\ s \in Seq(Record) /\ Distinct(s)
<1>1. /\ a \in Seq(Record) /\ h \in Seq(Record) /\ s \in Seq(Record)
      /\ Distinct(a) /\ Distinct(h) /\ Distinct(s)
  BY DEF Whole, Follow, Parted
<1> DEFINE g == c \in {"give", "spare"}
           b == IF g THEN <<q>> \o a ELSE a
<1>2. /\ b \in Seq(Record) /\ Distinct(b)
      /\ Members(b) = (IF g THEN {q} ELSE {}) \cup Members(a)
  <2>1. CASE g
    <3>1. q \in Record /\ q \notin Members(a)
      BY <2>1, RecordsAre DEF Whole, Parted
    <3>2. <<q>> \in Seq(Record) /\ Distinct(<<q>>) /\ Members(<<q>>) = {q}
      BY <3>1 DEF Distinct, Members
    <3> DEFINE z == <<q>>
    <3>3. z \in Seq(Record) /\ Distinct(z) /\ Members(z) = {q} /\ Members(z) \cap Members(a) = {}
      BY <3>1, <3>2
    <3> HIDE DEF z
    <3>4. z \o a \in Seq(Record) /\ Distinct(z \o a) /\ Members(z \o a) = {q} \cup Members(a)
      BY <3>3, <1>1, ConcatDistinct
    <3>5. QED BY <2>1, <3>4 DEF z
  <2>2. CASE ~g
    BY <2>2, <1>1
  <2>3. QED BY <2>1, <2>2
<1> HIDE DEF b
<1>3. Members(b) \cap Members(h) = {}
  BY <1>2 DEF Whole, Parted
<1>4. /\ b \o h \in Seq(Record) /\ Distinct(b \o h)
      /\ Members(b \o h) = Members(b) \cup Members(h)
  BY <1>1, <1>2, <1>3, ConcatDistinct
<1>5. /\ Members(b \o h) \cap Members(s) = {} /\ Members(b \o h) \cup Members(s) = l
  BY <1>2, <1>4 DEF Whole, Parted
<1>6. QED BY <1>1, <1>4, <1>5 DEF b, Waiting

LEMMA HeldIsWaiting ==
  ASSUME PcntlTyped, NEW a, NEW h, NEW s, Listing(a, h, s)
  PROVE  Held = Waiting(pc, queue, a, h) /\ List(next, spares) = s
<1>1. next \in Fields
  BY ListsAre
<1>2. PICK p : p = StillToPlay
  OBVIOUS
<1>3. /\ Whole(next, live, InHand, p, head, tail, spares, a, h, s)
      /\ p = IF pc \in {"give", "spare"} THEN rest ELSE queue
  BY <1>2 DEF Listing, StillToPlay
<1>4. HeldIn(pc, queue, next, rest, head) = Waiting(pc, queue, a, h) /\ List(next, spares) = s
  BY <1>1, <1>3, HeldIs
<1>5. QED BY <1>4 DEF Held, HeldIn

LEMMA WaitingNow ==
  ASSUME PcntlTyped, NEW a, NEW h, NEW s, Listing(a, h, s)
  PROVE  /\ Waiting(pc, queue, a, h) \in Seq(Record) /\ Distinct(Waiting(pc, queue, a, h))
         /\ Members(Waiting(pc, queue, a, h)) \cap Members(s) = {}
         /\ Members(Waiting(pc, queue, a, h)) \cup Members(s) = live
         /\ s \in Seq(Record) /\ Distinct(s)
<1>1. PICK o : o = InHand
  OBVIOUS
<1>2. queue \in Pointer /\ (pc \in {"give", "spare"} => queue # 0)
  BY ListsAre DEF PcntlTyped, Steady
<1>3. /\ Whole(next, live, o, StillToPlay, head, tail, spares, a, h, s)
      /\ o = IF pc \in {"give", "spare"} THEN {queue} ELSE {}
  BY <1>1 DEF Listing, InHand
<1>4. QED BY <1>2, <1>3, WaitingIsPart

(* Outside the end of a request, every record that lives is in one place of *)
(* one list, or in the hand of the dispatcher.                              *)
THEOREM RecordsAreKept == ASSUME Quiet, ~Unblocks PROVE PcntlSpec => []RecordsInOnePlace
<1>1. PcntlInv => RecordsInOnePlace
  <2> SUFFICES ASSUME PcntlInv, ~Ending
               PROVE  LET all == Held \o List(next, spares)
                      IN {all[i] : i \in 1..Len(all)} = live /\ Len(all) = Cardinality(live)
    BY DEF RecordsInOnePlace
  <2>1. PICK a, h, s : Listing(a, h, s)
    BY DEF PcntlInv
  <2>2. PcntlTyped
    BY DEF PcntlInv
  <2> DEFINE w == Waiting(pc, queue, a, h)
             all == w \o s
  <2>3. Held = w /\ List(next, spares) = s
    BY <2>1, <2>2, HeldIsWaiting
  <2>4. /\ w \in Seq(Record) /\ Distinct(w) /\ s \in Seq(Record) /\ Distinct(s)
        /\ Members(w) \cap Members(s) = {} /\ Members(w) \cup Members(s) = live
    BY <2>1, <2>2, WaitingNow
  <2> HIDE DEF w
  <2>5. all \in Seq(Record) /\ Distinct(all) /\ Members(all) = live
    BY <2>4, ConcatDistinct
  <2>6. Len(all) = Cardinality(live)
    <3> HIDE DEF all
    <3>1. QED BY <2>5, DistinctLength
  <2>7. {all[i] : i \in 1..Len(all)} = Members(all)
    BY <2>5 DEF Members
  <2>8. QED BY <2>3, <2>5, <2>6, <2>7
<1>2. PcntlSpec => []PcntlInv
  BY PcntlInvariance
<1>3. QED BY <1>1, <1>2, PTL


-----------------------------------------------------------------------------
(* The queue that the lists make up: the signals of the records that wait. *)
Signals(sg, w) == [i \in 1..Len(w) |-> sg[w[i]]]
QueueWaiting == IF Ending THEN <<>> ELSE Signals(signo, Held)
QueueCapacity == IF Ending THEN 0 ELSE Cardinality(live)
Signos == [Record -> Signal \cup {NoSignal}]

LEMMA SignalsOf ==
  ASSUME NEW sg \in Signos, NEW w \in Seq(Record)
  PROVE  /\ Signals(sg, w) \in Seq(Signal \cup {NoSignal}) /\ Len(Signals(sg, w)) = Len(w)
         /\ \A i \in 1..Len(w) : Signals(sg, w)[i] = sg[w[i]]
         /\ w = <<>> => Signals(sg, w) = <<>>
<1>1. /\ Signals(sg, w) \in Seq(Signal \cup {NoSignal}) /\ Len(Signals(sg, w)) = Len(w)
      /\ \A i \in 1..Len(w) : Signals(sg, w)[i] = sg[w[i]]
  BY DEF Signals, Signos
<1>2. w = <<>> => Signals(sg, w) = <<>>
  BY <1>1, EmptySeq
<1>3. QED BY <1>1, <1>2

LEMMA SignalsAppend ==
  ASSUME NEW sg \in Signos, NEW w \in Seq(Record), NEW r \in Record, r \notin Members(w), NEW v \in Signal
  PROVE  Signals([sg EXCEPT ![r] = v], Append(w, r)) = Append(Signals(sg, w), v)
<1> DEFINE g == [sg EXCEPT ![r] = v]
           t == Append(w, r)
           x == Signals(sg, w)
           n == Len(w)
<1>1. /\ g \in Signos /\ g[r] = v /\ \A q \in Record : q # r => g[q] = sg[q]
  BY DEF Signos
<1>2. /\ n \in Nat /\ t \in Seq(Record) /\ Len(t) = n + 1 /\ t[n + 1] = r
      /\ \A i \in 1..n : t[i] = w[i]
  BY AppendProperties
<1>3. \A i \in 1..n : w[i] \in Record /\ w[i] # r
  BY DEF Members
<1>4. x \in Seq(Signal \cup {NoSignal}) /\ Len(x) = n /\ \A i \in 1..n : x[i] = sg[w[i]]
  BY SignalsOf
<1> HIDE DEF g, t, x, n
<1>5. /\ Signals(g, t) \in Seq(Signal \cup {NoSignal}) /\ Len(Signals(g, t)) = n + 1
      /\ \A i \in 1..(n + 1) : Signals(g, t)[i] = g[t[i]]
  BY <1>1, <1>2, SignalsOf
<1>6. /\ Append(x, v) \in Seq(Signal \cup {NoSignal}) /\ Len(Append(x, v)) = n + 1
      /\ \A i \in 1..n : Append(x, v)[i] = x[i]
      /\ Append(x, v)[n + 1] = v
  BY <1>4, AppendProperties
<1>7. ASSUME NEW i \in 1..(n + 1) PROVE Signals(g, t)[i] = Append(x, v)[i]
  <2>1. CASE i = n + 1
    BY <2>1, <1>1, <1>2, <1>5, <1>6
  <2>2. CASE i \in 1..n
    <3>1. i \in 1..(n + 1) /\ Signals(g, t)[i] = g[t[i]] /\ t[i] = w[i]
      BY <2>2, <1>2, <1>5
    <3>2. g[w[i]] = sg[w[i]]
      BY <2>2, <1>1, <1>3
    <3>3. Append(x, v)[i] = sg[w[i]]
      BY <2>2, <1>4, <1>6
    <3>4. g[t[i]] = sg[w[i]]
      BY <3>1, <3>2
    <3>5. Signals(g, t)[i] = sg[w[i]]
      BY <3>1, <3>4, Zenon
    <3>6. QED BY <3>3, <3>5, Zenon
  <2>3. n \in Nat => i = n + 1 \/ i \in 1..n
    OBVIOUS
  <2>4. QED BY <2>1, <2>2, <2>3, <1>2, Zenon
<1>8. Signals(g, t) = Append(x, v)
  BY <1>5, <1>6, <1>7, SeqEqual
<1>9. QED BY <1>8 DEF g, t, x

LEMMA SignalsFirst ==
  ASSUME NEW sg \in Signos, NEW w \in Seq(Record), NEW r \in Record
  PROVE  /\ Signals(sg, <<r>> \o w) # <<>> /\ Head(Signals(sg, <<r>> \o w)) = sg[r]
         /\ Tail(Signals(sg, <<r>> \o w)) = Signals(sg, w)
<1> DEFINE t == <<r>> \o w
           n == Len(w)
           x == Signals(sg, w)
           y == Signals(sg, <<r>> \o w)
           S == Signal \cup {NoSignal}
<1>1. /\ n \in Nat /\ t \in Seq(Record) /\ Len(t) = n + 1 /\ t[1] = r
      /\ \A i \in 1..n : t[i + 1] = w[i]
  OBVIOUS
<1>2. x \in Seq(S) /\ Len(x) = n /\ \A i \in 1..n : x[i] = sg[w[i]]
  BY SignalsOf
<1>3. y \in Seq(S) /\ Len(y) = n + 1 /\ \A i \in 1..(n + 1) : y[i] = sg[t[i]]
  BY <1>1, SignalsOf
<1> HIDE DEF t, n, x, y, S
<1>4. y # <<>> /\ y[1] = sg[r]
  BY <1>1, <1>3
<1>5. /\ Tail(y) \in Seq(S) /\ Len(Tail(y)) = n
      /\ \A i \in 1..n : Tail(y)[i] = y[i + 1]
  <2>1. /\ Tail(y) \in Seq(S) /\ Len(Tail(y)) = Len(y) - 1
        /\ \A i \in 1..Len(Tail(y)) : Tail(y)[i] = y[i + 1]
    BY <1>3, <1>4, HeadTailProperties
  <2>2. QED BY <2>1, <1>1, <1>3
<1>6. ASSUME NEW i \in 1..n PROVE Tail(y)[i] = x[i]
  <2>1. i + 1 \in 1..(n + 1) /\ t[i + 1] = w[i]
    BY <1>1
  <2>2. y[i + 1] = sg[w[i]]
    BY <2>1, <1>3
  <2>3. Tail(y)[i] = y[i + 1] /\ x[i] = sg[w[i]]
    BY <1>2, <1>5
  <2>4. QED BY <2>2, <2>3
<1>7. Tail(y) = x
  BY <1>2, <1>5, <1>6, SeqEqual
<1>8. Head(y) = sg[r]
  BY <1>3, <1>4
<1>9. QED BY <1>4, <1>7, <1>8 DEF x, y

(* A record that is taken in hand was the first; a signal that arrives comes *)
(* last.                                                                     *)
LEMMA ConcatFirst ==
  ASSUME NEW a \in Seq(Record), NEW h \in Seq(Record), NEW r \in Record
  PROVE  a \o h \in Seq(Record) /\ (<<r>> \o a) \o h = <<r>> \o (a \o h)
<1> DEFINE z == <<r>>
<1>1. z \in Seq(Record) /\ a \o h \in Seq(Record)
  BY ConcatProperties
<1> HIDE DEF z
<1>2. (z \o a) \o h = z \o (a \o h)
  BY <1>1, ConcatAssociative
<1>3. QED BY <1>1, <1>2 DEF z

LEMMA ConcatLast ==
  ASSUME NEW a \in Seq(Record), NEW h \in Seq(Record), NEW r \in Record
  PROVE  Append(a \o h, r) = a \o Append(h, r)
<1> DEFINE z == <<r>>
           b == a \o h
<1>1. z \in Seq(Record) /\ b \in Seq(Record)
  BY ConcatProperties
<1>2. Append(h, r) = h \o z
  BY AppendIsConcat
<1>3. Append(b, r) = b \o z
  <2> HIDE DEF b
  <2>1. QED BY <1>1, AppendIsConcat
<1>4. b \o z = a \o (h \o z)
  <2> HIDE DEF z
  <2>1. QED BY <1>1, ConcatAssociative
<1>5. QED BY <1>2, <1>3, <1>4


-----------------------------------------------------------------------------
(* Every step is one of the queue, or is not seen. *)
QueueState == <<QueueWaiting, QueueCapacity, php_signal_table, playing>>

LEMMA HeldNow ==
  ASSUME PcntlTyped, NEW a, NEW h, NEW s, Listing(a, h, s)
  PROVE  /\ Held = Waiting(pc, queue, a, h) /\ signo \in Signos
         /\ a \in Seq(Record) /\ h \in Seq(Record) /\ s \in Seq(Record)
         /\ Waiting(pc, queue, a, h) \in Seq(Record)
<1>1. Held = Waiting(pc, queue, a, h)
  BY HeldIsWaiting
<1>2. signo \in Signos
  BY DEF PcntlTyped, PcntlTypeOK, Signos
<1>3. a \in Seq(Record) /\ h \in Seq(Record) /\ s \in Seq(Record)
  BY DEF Listing, Whole, Follow
<1>4. QED BY <1>1, <1>2, <1>3, WaitingNow

LEMMA HeldNext ==
  ASSUME PcntlTyped', NEW a, NEW h, NEW s, NextListing(a, h, s)
  PROVE  Held' = Waiting(pc', queue', a, h) /\ signo' \in Signos
<1>1. next' \in Fields /\ signo' \in Signos
  BY DEF PcntlTyped, PcntlTypeOK, Fields, Signos
<1>2. PICK p : p = StillToPlay'
  OBVIOUS
<1>3. PICK o : o = InHand'
  OBVIOUS
<1>4. /\ Whole(next', live', o, p, head', tail', spares', a, h, s)
      /\ p = IF pc' \in {"give", "spare"} THEN rest' ELSE queue'
  BY <1>2, <1>3 DEF NextListing, StillToPlay
<1>5. HeldIn(pc', queue', next', rest', head') = Waiting(pc', queue', a, h)
  BY <1>1, <1>4, HeldIs
<1>6. QED BY <1>1, <1>5 DEF Held, HeldIn

(* A function is given to the signal played; other signals get a function. *)
LEMMA QueueUnchanged ==
  ASSUME PcntlTyped, PcntlTyped', NEW a, NEW h, NEW s, Listing(a, h, s), NextListing(a, h, s),
         UNCHANGED <<signo, live, queue>>, ~Ending, ~Ending',
         \/ UNCHANGED pc
         \/ pc \notin {"give", "spare"} /\ pc' \notin {"give", "spare"}
         \/ pc \in {"give", "spare"} /\ pc' \in {"give", "spare"}
  PROVE  UNCHANGED <<QueueWaiting, QueueCapacity>>
<1>1. Held = Waiting(pc, queue, a, h) /\ Held' = Waiting(pc', queue', a, h)
  BY HeldNow, HeldNext
<1>2. Waiting(pc', queue', a, h) = Waiting(pc, queue, a, h)
  BY DEF Waiting
<1>3. Held' = Held
  BY <1>1, <1>2
<1>4. QED BY <1>3 DEF QueueWaiting, QueueCapacity, Signals

LEMMA SeenByNobody ==
  ASSUME PcntlTyped, PcntlTyped', NEW a, NEW h, NEW s, Listing(a, h, s), NextListing(a, h, s), ~Ending,
         \/ \E c \in Signal : Raise(c) \/ SigWaitInfo(c) \/ PcntlSignal(c, TRUE) \/ PcntlSignal(c, FALSE)
         \/ \E mask \in SUBSET Signal : SigProcMask(mask)
         \/ Fork \/ Returned \/ Dispatch \/ Bail \/ Played \/ Allocated \/ New \/ Give
         \/ UNCHANGED pcntl_vars
  PROVE  UNCHANGED QueueState
<1>1. UNCHANGED <<signo, live, queue, php_signal_table, playing>> /\ ~Ending'
  <2>1. CASE \/ \E c \in Signal : Raise(c) \/ SigWaitInfo(c)
             \/ \E mask \in SUBSET Signal : SigProcMask(mask)
             \/ Fork \/ UNCHANGED pcntl_vars
    BY <2>1 DEF Raise, SigWaitInfo, SigProcMask, Fork, pcntl_vars, Ending
  <2>2. CASE \E c \in Signal : PcntlSignal(c, TRUE) \/ PcntlSignal(c, FALSE)
    BY <2>2 DEF PcntlSignal, Ending
  <2>3. CASE Returned \/ Dispatch \/ Bail \/ Played \/ Allocated \/ New \/ Give
    BY <2>3 DEF Returned, Dispatch, Bail, Played, Allocated, New, Give, Ending
  <2>4. QED BY <2>1, <2>2, <2>3
<1>2. \/ UNCHANGED pc
      \/ pc \notin {"give", "spare"} /\ pc' \notin {"give", "spare"}
      \/ pc \in {"give", "spare"} /\ pc' \in {"give", "spare"}
  <2>1. CASE \/ \E c \in Signal : Raise(c) \/ SigWaitInfo(c)
             \/ \E mask \in SUBSET Signal : SigProcMask(mask)
             \/ Fork \/ UNCHANGED pcntl_vars
    BY <2>1 DEF Raise, SigWaitInfo, SigProcMask, Fork, pcntl_vars
  <2>2. CASE \E c \in Signal : PcntlSignal(c, TRUE) \/ PcntlSignal(c, FALSE)
    BY <2>2 DEF PcntlSignal, InScript
  <2>3. CASE Returned \/ Dispatch \/ Bail \/ Played \/ Allocated \/ New \/ Give
    BY <2>3 DEF Returned, Dispatch, Bail, Played, Allocated, New, Give
  <2>4. QED BY <2>1, <2>2, <2>3
<1>3. UNCHANGED <<QueueWaiting, QueueCapacity>>
  BY <1>1, <1>2, QueueUnchanged
<1>4. QED BY <1>1, <1>3 DEF QueueState

LEMMA SeenSet ==
  ASSUME PcntlTyped, PcntlTyped', NEW a, NEW h, NEW s, Listing(a, h, s), NextListing(a, h, s), Set
  PROVE  /\ UNCHANGED <<QueueWaiting, QueueCapacity, playing>>
         /\ php_signal_table' \in SUBSET Signal
<1>1. /\ UNCHANGED <<signo, live, queue, playing>> /\ ~Ending /\ ~Ending'
      /\ pc \notin {"give", "spare"} /\ pc' \notin {"give", "spare"}
  BY DEF Set, Base, Ending
<1>2. UNCHANGED <<QueueWaiting, QueueCapacity>>
  BY <1>1, QueueUnchanged
<1>3. QED BY <1>1, <1>2 DEF PcntlTyped, PcntlTypeOK

LEMMA SeenPlay ==
  ASSUME PcntlTyped, PcntlTyped', Phases, NEW a, NEW h, NEW s,
         Listing(a, h, s), NextListing(a, h, s), Play
  PROVE  \/ UNCHANGED QueueState
         \/ /\ playing = NoSignal /\ QueueWaiting # <<>> /\ Head(QueueWaiting) \in php_signal_table
            /\ playing' = Head(QueueWaiting)
            /\ UNCHANGED <<QueueWaiting, QueueCapacity, php_signal_table>>
<1>1. /\ UNCHANGED <<signo, live, queue, php_signal_table>> /\ ~Ending /\ ~Ending'
      /\ pc \notin {"give", "spare"} /\ pc' \notin {"give", "spare"}
  BY DEF Play, Ending
<1>2. UNCHANGED <<QueueWaiting, QueueCapacity>>
  BY <1>1, QueueUnchanged
<1>3. CASE signo[queue] \notin php_signal_table
  BY <1>1, <1>2, <1>3 DEF QueueState, Play
<1>4. CASE signo[queue] \in php_signal_table
  <2>1. playing = NoSignal /\ playing' = signo[queue] /\ queue # 0 /\ pc = "play"
    BY <1>4 DEF Phases, Play
  <2>2. queue \in Record
    BY <2>1, ListsAre, RecordsAre
  <2>3. Whole(next, live, {}, queue, head, tail, spares, a, h, s) /\ next \in Fields
    BY <2>1, ListsAre DEF Listing, InHand, StillToPlay
  <2>4. a = <<queue>> \o Tail(a) /\ Whole(next, live, {queue}, next[queue], head, tail, spares, Tail(a), h, s)
    BY <2>1, <2>3, WholeTake
  <2>5. PICK t : t = Tail(a)
    OBVIOUS
  <2>6. t \in Seq(Record) /\ h \in Seq(Record)
    BY <2>4, <2>5 DEF Whole, Follow
  <2>7. t \o h \in Seq(Record) /\ (<<queue>> \o t) \o h = <<queue>> \o (t \o h)
    BY <2>2, <2>6, ConcatFirst
  <2>8. Held = a \o h /\ signo \in Signos
    BY <2>1, HeldNow DEF Waiting
  <2>9. PICK w \in Seq(Record) : w = t \o h
    BY <2>7
  <2>10. Held = <<queue>> \o w
    BY <2>4, <2>5, <2>7, <2>8, <2>9
  <2>11. QueueWaiting # <<>> /\ Head(QueueWaiting) = signo[queue]
    <3>1. Signals(signo, <<queue>> \o w) # <<>> /\ Head(Signals(signo, <<queue>> \o w)) = signo[queue]
      BY <2>2, <2>8, <2>9, SignalsFirst
    <3>2. QueueWaiting = Signals(signo, Held)
      BY <1>1 DEF QueueWaiting
    <3>3. QED BY <2>10, <3>1, <3>2
  <2>12. QED BY <1>1, <1>2, <1>4, <2>1, <2>11
<1>5. QED BY <1>3, <1>4

(* A record more. *)
LEMMA SeenPush ==
  ASSUME PcntlTyped, PcntlTyped', NEW a, NEW h, NEW s, Listing(a, h, s),
         NextListing(a, h, <<psig>> \o s), Push
  PROVE  /\ QueueCapacity' = QueueCapacity + 1
         /\ UNCHANGED <<QueueWaiting, php_signal_table, playing>>
<1>1. /\ UNCHANGED <<signo, queue, php_signal_table, playing>> /\ ~Ending /\ ~Ending'
      /\ pc = "push" /\ pc' = "new" /\ live' = live \cup {psig}
  BY DEF Push, Ending
<1>2. Held = Waiting("push", queue, a, h)
  BY <1>1, HeldNow
<1>3. Held' = Waiting("new", queue, a, h)
  BY <1>1, HeldNext
<1>4. Waiting("push", queue, a, h) = Waiting("new", queue, a, h)
  BY DEF Waiting
<1>5. psig \notin live /\ IsFiniteSet(live)
  BY <1>1, LiveIsFinite DEF PcntlTyped, Steady
<1>6. Cardinality(live') = Cardinality(live) + 1
  BY <1>1, <1>5, FS_AddElement
<1>7. QueueWaiting' = QueueWaiting
  BY <1>1, <1>2, <1>3, <1>4 DEF QueueWaiting, Signals
<1>8. QED BY <1>1, <1>6, <1>7 DEF QueueCapacity

(* A signal arrives, for which there is a record. *)
LEMMA SeenHandler ==
  ASSUME PcntlTyped, PcntlTyped', Phases, Quiet, NEW c \in Signal, Handler(c), ~Ending,
         NEW a, NEW h, NEW s, Listing(a, h, s),
         spares = 0 => NextListing(a, h, s),
         spares # 0 => NextListing(a, Append(h, spares), Tail(s))
  PROVE  \/ UNCHANGED QueueState
         \/ /\ Len(QueueWaiting) < QueueCapacity
            /\ QueueWaiting' = Append(QueueWaiting, c)
            /\ UNCHANGED <<QueueCapacity, php_signal_table, playing>>
<1>1. /\ UNCHANGED <<pc, queue, live, php_signal_table, playing>> /\ ~Ending'
      /\ pc \notin {"give", "spare"}
  BY PhasesHandler DEF Handler, Ending, Masked
<1>2. CASE spares = 0
  <2>1. UNCHANGED signo
    BY <1>2 DEF Handler
  <2>2. UNCHANGED <<QueueWaiting, QueueCapacity>>
    BY <1>1, <1>2, <2>1, QueueUnchanged
  <2>3. QED BY <1>1, <2>2 DEF QueueState
<1>3. CASE spares # 0
  <2>1. signo' = [signo EXCEPT ![spares] = c] /\ spares \in Record
    BY <1>3, ListsAre, RecordsAre DEF Handler
  <2>2. PICK w : w = Waiting(pc, queue, a, h) /\ w = a \o h
    BY <1>1 DEF Waiting
  <2>3. /\ Held = w /\ signo \in Signos /\ w \in Seq(Record)
        /\ a \in Seq(Record) /\ h \in Seq(Record)
    BY <2>2, HeldNow
  <2>4. /\ Distinct(w) /\ Members(w) \cap Members(s) = {} /\ Members(w) \cup Members(s) = live
    BY <2>2, WaitingNow
  <2>5. spares \in Members(s)
    <3>1. Follow(next, spares, s) /\ Distinct(s) /\ next \in Fields
      BY ListsAre DEF Listing, Whole, Parted
    <3>2. spares \in Record /\ Members(s) = {spares} \cup Members(Tail(s))
      BY <1>3, <3>1, FollowRest
    <3>3. QED BY <3>2
  <2>6. Held' = Append(w, spares)
    <3>1. Held' = Waiting(pc, queue, a, Append(h, spares))
      BY <1>1, <1>3, HeldNext
    <3>2. Waiting(pc, queue, a, Append(h, spares)) = a \o Append(h, spares)
      BY <1>1 DEF Waiting
    <3>3. Append(a \o h, spares) = a \o Append(h, spares)
      BY <2>1, <2>3, ConcatLast
    <3>4. QED BY <2>2, <3>1, <3>2, <3>3
  <2>7. Signals(signo', Append(w, spares)) = Append(Signals(signo, w), c)
    BY <2>1, <2>3, <2>4, <2>5, SignalsAppend
  <2>8. Len(Signals(signo, w)) = Len(w)
    BY <2>3, SignalsOf
  <2>9. Len(w) < Cardinality(live)
    <3>1. Members(w) \in SUBSET live /\ spares \notin Members(w) /\ spares \in live
      BY <2>4, <2>5
    <3>2. IsFiniteSet(live) /\ IsFiniteSet(Members(w)) /\ Cardinality(live) \in Nat
      BY <3>1, LiveIsFinite, FS_Subset
    <3>3. Cardinality(Members(w)) <= Cardinality(live) /\ Cardinality(Members(w)) # Cardinality(live)
      BY <3>1, <3>2, FS_Subset
    <3>4. Len(w) = Cardinality(Members(w)) /\ Len(w) \in Nat
      BY <2>3, <2>4, DistinctLength
    <3>5. QED BY <3>2, <3>3, <3>4
  <2>10. QueueWaiting = Signals(signo, w) /\ QueueWaiting' = Signals(signo', Append(w, spares))
    BY <1>1, <2>3, <2>6 DEF QueueWaiting
  <2>11. QueueCapacity = Cardinality(live) /\ QueueCapacity' = Cardinality(live)
    BY <1>1 DEF QueueCapacity
  <2>12. QED BY <1>1, <2>7, <2>8, <2>9, <2>10, <2>11
<1>4. QED BY <1>2, <1>3

(* The dispatcher takes the queue, and its first record in hand. *)
LEMMA SeenTakes ==
  ASSUME PcntlTyped, PcntlTyped', Phases, NEW a, NEW h, NEW s, Listing(a, h, s),
         \/ TakeQueue /\ a = <<>> /\ NextListing(h, <<>>, s)
         \/ Take /\ a = <<queue>> \o Tail(a) /\ NextListing(Tail(a), h, s)
  PROVE  UNCHANGED QueueState
<1>1. UNCHANGED <<signo, live, php_signal_table, playing>> /\ ~Ending /\ ~Ending'
  BY DEF TakeQueue, Take, Ending
<1>2. Held' = Held
  <2>1. CASE TakeQueue /\ a = <<>> /\ NextListing(h, <<>>, s)
    <3>1. pc = "masked" /\ pc' = "play"
      BY <2>1 DEF TakeQueue
    <3>2. Held = Waiting("masked", queue, <<>>, h) /\ h \in Seq(Record)
      BY <2>1, <3>1, HeldNow
    <3>3. Held' = Waiting("play", queue', h, <<>>)
      BY <2>1, <3>1, HeldNext
    <3>4. Waiting("masked", queue, <<>>, h) = Waiting("play", queue', h, <<>>)
      BY <3>2, ConcatEmptySeq DEF Waiting
    <3>5. QED BY <3>2, <3>3, <3>4
  <2>2. CASE Take /\ a = <<queue>> \o Tail(a) /\ NextListing(Tail(a), h, s)
    <3>1. pc = "take" /\ pc' = "give" /\ queue' = queue
      BY <2>2 DEF Take
    <3>2. Held = Waiting("take", queue, a, h)
      BY <2>2, <3>1, HeldNow
    <3>3. Held' = Waiting("give", queue, Tail(a), h)
      BY <2>2, <3>1, HeldNext
    <3>4. Waiting("take", queue, a, h) = Waiting("give", queue, Tail(a), h)
      BY <2>2 DEF Waiting
    <3>5. QED BY <3>2, <3>3, <3>4
  <2>3. QED BY <2>1, <2>2
<1>3. QED BY <1>1, <1>2 DEF QueueState, QueueWaiting, QueueCapacity, Signals

(* The oldest signal is done with. *)
LEMMA SeenSpare ==
  ASSUME PcntlTyped, PcntlTyped', Phases, NEW a, NEW h, NEW s, Listing(a, h, s),
         NextListing(a, h, <<queue>> \o s), Spare
  PROVE  /\ playing = NoSignal => QueueWaiting # <<>> /\ Head(QueueWaiting) \notin php_signal_table
         /\ QueueWaiting' = Tail(QueueWaiting) /\ playing' = NoSignal
         /\ UNCHANGED <<QueueCapacity, php_signal_table>>
<1>1. /\ UNCHANGED <<signo, live, php_signal_table>> /\ ~Ending /\ ~Ending'
      /\ pc = "spare" /\ pc' = "play" /\ playing' = NoSignal /\ queue \in Record
  BY ListsAre, RecordsAre DEF Spare, Ending, PcntlTyped, Steady
<1>2. /\ Held = Waiting("spare", queue, a, h) /\ signo \in Signos
      /\ a \in Seq(Record) /\ h \in Seq(Record)
  BY <1>1, HeldNow
<1>3. PICK w \in Seq(Record) : w = a \o h
  BY <1>2, ConcatProperties
<1>4. Held' = w
  BY <1>1, <1>3, HeldNext DEF Waiting
<1>5. Held = <<queue>> \o w
  <2>1. (<<queue>> \o a) \o h = <<queue>> \o (a \o h)
    BY <1>1, <1>2, ConcatFirst
  <2>2. QED BY <1>2, <1>3, <2>1 DEF Waiting
<1>6. /\ Signals(signo, Held) # <<>> /\ Head(Signals(signo, Held)) = signo[queue]
      /\ Tail(Signals(signo, Held)) = Signals(signo, w)
  BY <1>1, <1>2, <1>3, <1>5, SignalsFirst
<1>7. QueueWaiting = Signals(signo, Held) /\ QueueWaiting' = Signals(signo, w)
  BY <1>1, <1>4 DEF QueueWaiting
<1>8. playing = NoSignal => signo[queue] \notin php_signal_table
  BY <1>1 DEF Phases
<1>9. QueueCapacity' = QueueCapacity
  BY <1>1 DEF QueueCapacity
<1>10. QED BY <1>1, <1>6, <1>7, <1>8, <1>9


LEMMA QueueInit ==
  ASSUME PcntlInit
  PROVE  QueueWaiting = <<>> /\ QueueCapacity = 0 /\ php_signal_table = {} /\ playing = NoSignal
<1>1. PcntlTyped
  BY PcntlInitTyped
<1>2. Listing(<<>>, <<>>, <<>>)
  BY WholeOfNothing DEF PcntlInit, Listing, InHand, StillToPlay
<1>3. /\ pc = "run" /\ queue = 0 /\ live = {} /\ php_signal_table = {} /\ playing = NoSignal
  BY DEF PcntlInit
<1>4. Held = Waiting("run", 0, <<>>, <<>>) /\ signo \in Signos
  BY <1>1, <1>2, <1>3, HeldNow
<1>5. Held = <<>>
  BY <1>4 DEF Waiting
<1>6. Signals(signo, Held) = <<>>
  BY <1>4, <1>5, SignalsOf, EmptySeq
<1>7. QueueWaiting = <<>>
  BY <1>3, <1>6 DEF QueueWaiting, Ending
<1>8. QueueCapacity = 0
  BY <1>3, FS_EmptySet DEF QueueCapacity, Ending
<1>9. QED BY <1>3, <1>7, <1>8

(* The request ends, and the next one begins. *)
LEMMA SeenEnding ==
  ASSUME PcntlTyped', Phases', Ending'
  PROVE  /\ QueueWaiting' = <<>> /\ QueueCapacity' = 0
         /\ php_signal_table' = {} /\ playing' = NoSignal
<1>1. php_signal_table' = {}
  BY DEF Phases
<1>2. playing' = NoSignal
  BY DEF PcntlTyped, Steady, Ending
<1>3. QED BY <1>1, <1>2 DEF QueueWaiting, QueueCapacity

LEMMA SeenBegins ==
  ASSUME PcntlTyped, PcntlTyped', Phases, BeginRequest
  PROVE  UNCHANGED QueueState
<1>1. /\ UNCHANGED <<php_signal_table, playing>> /\ Ending /\ ~Ending'
      /\ pc' = "run" /\ live' = {}
  BY DEF BeginRequest, Ending
<1>2. NextListing(<<>>, <<>>, <<>>)
  BY ListingBegins
<1>3. Held' = Waiting("run", queue', <<>>, <<>>) /\ signo' \in Signos
  BY <1>1, <1>2, HeldNext
<1>4. Held' = <<>>
  BY <1>3 DEF Waiting
<1>5. Signals(signo', Held') = <<>>
  BY <1>3, <1>4, SignalsOf, EmptySeq
<1>6. QueueWaiting = <<>> /\ QueueWaiting' = <<>>
  BY <1>1, <1>5 DEF QueueWaiting
<1>7. QueueCapacity = 0 /\ QueueCapacity' = 0
  BY <1>1, FS_EmptySet DEF QueueCapacity
<1>8. QED BY <1>1, <1>6, <1>7 DEF QueueState


(* The steps that the queue sees, by their names there. *)
Seen ==
  \/ QueueCapacity' = QueueCapacity + 1 /\ UNCHANGED <<QueueWaiting, php_signal_table, playing>>
  \/ php_signal_table' \in SUBSET Signal /\ UNCHANGED <<QueueWaiting, QueueCapacity, playing>>
  \/ \E c \in Signal : /\ Len(QueueWaiting) < QueueCapacity
                       /\ QueueWaiting' = Append(QueueWaiting, c)
                       /\ UNCHANGED <<QueueCapacity, php_signal_table, playing>>
  \/ /\ playing = NoSignal /\ QueueWaiting # <<>> /\ Head(QueueWaiting) \in php_signal_table
     /\ playing' = Head(QueueWaiting)
     /\ UNCHANGED <<QueueWaiting, QueueCapacity, php_signal_table>>
  \/ /\ playing = NoSignal => QueueWaiting # <<>> /\ Head(QueueWaiting) \notin php_signal_table
     /\ QueueWaiting' = Tail(QueueWaiting) /\ playing' = NoSignal
     /\ UNCHANGED <<QueueCapacity, php_signal_table>>
  \/ QueueWaiting' = <<>> /\ QueueCapacity' = 0 /\ php_signal_table' = {} /\ playing' = NoSignal

LEMMA SeenStep ==
  ASSUME Quiet, ~Unblocks, PcntlInv, PcntlInv', [PcntlNext]_pcntl_vars
  PROVE  Seen \/ UNCHANGED QueueState
<1>1. PcntlTyped /\ PcntlTyped' /\ Phases /\ Phases'
  BY DEF PcntlInv
<1>2. CASE Ending'
  BY <1>1, <1>2, SeenEnding DEF Seen
<1>3. CASE BeginRequest
  BY <1>1, <1>3, SeenBegins
<1>4. CASE ~Ending' /\ ~BeginRequest
  <2>1. ~Ending
    BY <1>4, OngoingBefore
  <2>2. PICK a, h, s : Listing(a, h, s)
    BY <2>1 DEF PcntlInv
  <2>3. CASE UNCHANGED pcntl_vars
    <3>1. NextListing(a, h, s)
      BY <1>1, <2>2, <2>3, ListingQuietSteps
    <3>2. QED BY <1>1, <2>1, <2>2, <2>3, <3>1, SeenByNobody
  <2>4. CASE \E c \in Signal : Handler(c)
    <3>1. PICK c \in Signal : Handler(c)
      BY <2>4
    <3>2. /\ spares = 0 => NextListing(a, h, s)
          /\ spares # 0 => NextListing(a, Append(h, spares), Tail(s))
      BY <1>1, <2>2, <3>1, ListingHandler
    <3>3. QED BY <1>1, <2>1, <2>2, <3>1, <3>2, SeenHandler DEF Seen
  <2>5. CASE \/ (\E c \in Signal : Raise(c)) \/ Script
             \/ Dispatch \/ Returned \/ Bail \/ Played \/ Allocated
    <3>1. ~EndRequest
      BY <1>4 DEF EndRequest, Ending
    <3>2. NextListing(a, h, s)
      BY <1>1, <2>2, <2>5, <3>1, ListingQuietSteps DEF Script
    <3>3. QED BY <1>1, <2>1, <2>2, <2>5, <3>1, <3>2, SeenByNobody DEF Script
  <2>6. CASE New \/ Give
    <3>1. NextListing(a, h, s)
      BY <1>1, <2>2, <2>6, ListingAllocates, ListingDispatches
    <3>2. QED BY <1>1, <2>1, <2>2, <2>6, <3>1, SeenByNobody
  <2>7. CASE Push
    BY <1>1, <2>2, <2>7, ListingAllocates, SeenPush DEF Seen
  <2>8. CASE Set
    BY <1>1, <2>2, <2>8, ListingQuietSteps, SeenSet DEF Seen
  <2>9. CASE Play
    BY <1>1, <2>2, <2>9, ListingQuietSteps, SeenPlay DEF Seen
  <2>10. CASE TakeQueue \/ Take
    BY <1>1, <2>2, <2>10, ListingDispatches, SeenTakes
  <2>11. CASE Spare
    BY <1>1, <2>2, <2>11, ListingDispatches, SeenSpare DEF Seen
  <2>12. ~(LoadFirst \/ FreeFirst \/ QueueFreed \/ BeginRequest)
    BY <1>4, <2>1 DEF Ending, LoadFirst, FreeFirst, QueueFreed
  <2>13. QED BY <2>3, <2>4, <2>5, <2>6, <2>7, <2>8, <2>9, <2>10, <2>11, <2>12
             DEF PcntlNext, Dispatcher, Engine
<1>5. QED BY <1>2, <1>3, <1>4

(* The handler of the operating system and the dispatcher, with their lists *)
(* of records, do what the queue of PcntlQueue does: signals are played in  *)
(* the order of their arrival, each once, and one at a time, as long as no  *)
(* signal arrives in the midst of pcntl_signal()'s allocation and the       *)
(* functions of the script leave the mask as it is.                         *)
THEOREM PcntlImplementsQueue == ASSUME Quiet, ~Unblocks PROVE PcntlSpec => ImplementsQueue
<1>1. PcntlInit => Queue!Init
  BY QueueInit DEF Queue!Init, QueueWaiting, QueueCapacity, Signals
<1>2. PcntlInv /\ PcntlInv' /\ [PcntlNext]_pcntl_vars => [Queue!Next]_(Queue!vars)
  <2> SUFFICES ASSUME PcntlInv, PcntlInv', [PcntlNext]_pcntl_vars, ~UNCHANGED QueueState
               PROVE  Queue!Next
    BY DEF Queue!vars, QueueState, QueueWaiting, QueueCapacity, Signals
  <2>1. Seen
    BY SeenStep
  <2>2. CASE QueueCapacity' = QueueCapacity + 1 /\ UNCHANGED <<QueueWaiting, php_signal_table, playing>>
    <3>1. Queue!Grow
      BY <2>2 DEF Queue!Grow, QueueWaiting, QueueCapacity, Signals
    <3>2. QED BY <3>1 DEF Queue!Next
  <2>3. CASE php_signal_table' \in SUBSET Signal /\ UNCHANGED <<QueueWaiting, QueueCapacity, playing>>
    <3>1. Queue!Choose
      BY <2>3 DEF Queue!Choose, QueueWaiting, QueueCapacity, Signals
    <3>2. QED BY <3>1 DEF Queue!Next
  <2>4. CASE \E c \in Signal : /\ Len(QueueWaiting) < QueueCapacity
                               /\ QueueWaiting' = Append(QueueWaiting, c)
                               /\ UNCHANGED <<QueueCapacity, php_signal_table, playing>>
    <3>1. \E c \in Signal : Queue!Arrive(c)
      BY <2>4 DEF Queue!Arrive, QueueWaiting, QueueCapacity, Signals
    <3>2. QED BY <3>1 DEF Queue!Next
  <2>5. CASE /\ playing = NoSignal /\ QueueWaiting # <<>> /\ Head(QueueWaiting) \in php_signal_table
             /\ playing' = Head(QueueWaiting)
             /\ UNCHANGED <<QueueWaiting, QueueCapacity, php_signal_table>>
    <3>1. Queue!Play
      BY <2>5 DEF Queue!Play, QueueWaiting, QueueCapacity, Signals
    <3>2. QED BY <3>1 DEF Queue!Next
  <2>6. CASE /\ playing = NoSignal => QueueWaiting # <<>> /\ Head(QueueWaiting) \notin php_signal_table
             /\ QueueWaiting' = Tail(QueueWaiting) /\ playing' = NoSignal
             /\ UNCHANGED <<QueueCapacity, php_signal_table>>
    <3>1. CASE playing = NoSignal
      <4>1. Queue!Skip
        BY <2>6, <3>1 DEF Queue!Skip, QueueWaiting, QueueCapacity, Signals
      <4>2. QED BY <4>1 DEF Queue!Next
    <3>2. CASE playing # NoSignal
      <4>1. Queue!Return
        BY <2>6, <3>2 DEF Queue!Return, QueueWaiting, QueueCapacity, Signals
      <4>2. QED BY <4>1 DEF Queue!Next
    <3>3. QED BY <3>1, <3>2
  <2>7. CASE QueueWaiting' = <<>> /\ QueueCapacity' = 0 /\ php_signal_table' = {} /\ playing' = NoSignal
    <3>1. Queue!Drop
      BY <2>7 DEF Queue!Drop, Queue!Init, QueueWaiting, QueueCapacity, Signals
    <3>2. QED BY <3>1 DEF Queue!Next
  <2>8. QED BY <2>1, <2>2, <2>3, <2>4, <2>5, <2>6, <2>7 DEF Seen
<1>3. PcntlSpec => []PcntlInv
  BY PcntlInvariance
<1>4. QED BY <1>1, <1>2, <1>3, PTL DEF PcntlSpec, ImplementsQueue, Queue!Spec

=============================================================================
