------------------------------ MODULE PcreCache ------------------------------
(***************************************************************************)
(* The cache of compiled regular expressions (pcre/php_pcre.c), of one      *)
(* thread.                                                                 *)
(*                                                                         *)
(* A preg function looks its regex up, counts itself in the entry while it  *)
(* matches, and may call the script back, which may do the same, change     *)
(* the locale, or end the request with everything half done.  A             *)
(* RegexIterator (spl/spl_iterators.c) counts itself as long as it lives.   *)
(* The cache outlives the request, and so a restart of the opcode cache,    *)
(* which takes the interned strings away (AccelInterned).                   *)
(***************************************************************************)
EXTENDS Integers, Sequences, FiniteSets

CONSTANTS
  Regex, Locale, C,    \* C: the locale a request begins with
  Entry, NoEntry,      \* memory of entries; a pointer that is NULL
  Iterator,            \* RegexIterator objects a script may have
  PCRE_CACHE_SIZE,
  NumClean,            \* PCRE_CACHE_SIZE / 8
  MaxUses,             \* bound: calls nested in callbacks, and iterators
  MaxBailouts,         \* bound: requests that end in a callback
  MaxRestarts          \* bound: restarts of the opcode cache

ASSUME PcreAssumption ==
  /\ C \in Locale /\ NoEntry \notin Entry \cup Regex
  /\ PCRE_CACHE_SIZE \in Nat /\ NumClean \in Nat /\ MaxUses \in Nat
  /\ MaxBailouts \in Nat /\ MaxRestarts \in Nat /\ IsFiniteSet(Iterator)

VARIABLES
  pcre_cache,          \* the entries of the hash table, the oldest first
  entry,               \* what an entry holds
  locale,              \* setlocale(LC_CTYPE)
  calls,               \* the preg functions being called, the innermost last
  iterators,           \* u.regex.pce of the iterators
  gen, bailouts,       \* restarts of the opcode cache, and bailouts, so far
  (* History. *)
  pinned,              \* calls that counted themselves and were abandoned
  replaced,            \* entries filled again for another locale while in use
  overfull             \* an entry was added while all of a full cache were in use

history == <<pinned, replaced, overfull>>
vars == <<pcre_cache, entry, locale, calls, iterators, gen, bailouts, history>>

(* key: the restart count when the key was interned, or Own for a copy.     *)
Own == -1
NoContent == [regex |-> NoEntry, locale |-> C, refcount |-> 0, key |-> Own]
Content == [regex : Regex \cup {NoEntry}, locale : Locale, refcount : Int, key : Int]
(* A call holds pce; the regex and the locale are history.                  *)
Use == [pce : Entry, regex : Regex, locale : Locale]

Members(s) == {s[i] : i \in DOMAIN s}
Cached == Members(pcre_cache)
CallsOf(e) == Cardinality({i \in DOMAIN calls : calls[i].pce = e})
IteratorsOf(e) == Cardinality({i \in Iterator : iterators[i] = e})
InUse == ({u.pce : u \in Members(calls)} \cup {iterators[i] : i \in Iterator}) \ {NoEntry}

TypeOK ==
  /\ Cached \subseteq Entry /\ Len(pcre_cache) = Cardinality(Cached)
  /\ \A e, f \in Cached : entry[e].regex = entry[f].regex => e = f
  /\ entry \in [Entry -> Content]
  /\ locale \in Locale
  /\ Members(calls) \subseteq Use /\ iterators \in [Iterator -> Entry \cup {NoEntry}]
  /\ gen \in Nat /\ bailouts \in Nat /\ pinned \in [Entry -> Nat]
  /\ replaced \subseteq Entry /\ overfull \in BOOLEAN

Init ==
  /\ pcre_cache = <<>> /\ entry = [e \in Entry |-> NoContent]
  /\ locale = C /\ calls = <<>> /\ iterators = [i \in Iterator |-> NoEntry]
  /\ gen = 0 /\ bailouts = 0
  /\ pinned = [e \in Entry |-> 0] /\ replaced = {} /\ overfull = FALSE

-----------------------------------------------------------------------------
(* pcre_get_compiled_regex_cache *)
Usable(e) == entry[e].locale = locale

EntriesOf(r) == {e \in Cached : entry[e].regex = r}

(* Mut: entries that are in use are removed too. *)
MutRemovable(e) == TRUE
Removable(e) == entry[e].refcount = 0

(* The members of a finite set of numbers, in their order. *)
InOrder(K) == CHOOSE f \in [1..Cardinality(K) -> K] :
                \A m, n \in DOMAIN f : m < n => f[m] < f[n]

(* zend_hash_apply of pcre_clean_cache: NumClean entries from the head. *)
Stays(i) ==
  LET before == {j \in 1..(i - 1) : Removable(pcre_cache[j])}
  IN ~Removable(pcre_cache[i]) \/ Cardinality(before) >= NumClean

Cleaned ==
  LET order == InOrder({i \in DOMAIN pcre_cache : Stays(i)})
  IN [n \in DOMAIN order |-> pcre_cache[order[n]]]

(* Mut: cleaned only when the limit has been passed. *)
MutIsFull == Len(pcre_cache) > PCRE_CACHE_SIZE
IsFull == Len(pcre_cache) = PCRE_CACHE_SIZE

(* The regex is often an interned string: it is copied before it is a key.   *)
NewKey == Own

(* The entry of the look-up is e; uses is what it is counted up.            *)
Found(r, e, uses) ==
  /\ e \in EntriesOf(r) /\ Usable(e)
  /\ entry' = [entry EXCEPT ![e].refcount = @ + uses]
  /\ UNCHANGED <<pcre_cache, history>>

(* zend_hash_update replaces what an entry for r holds, its key stays; the   *)
(* cleaning before may have removed that entry.                              *)
Compiled(r, e, uses) ==
  LET rest == IF IsFull THEN Cleaned ELSE pcre_cache
      old == EntriesOf(r) \cap Members(rest)
      kept == Members(rest) \cup InUse
  IN /\ \A o \in EntriesOf(r) : ~Usable(o)
     /\ IF old # {} THEN e \in old ELSE e \notin kept
     /\ pcre_cache' = IF old # {} THEN rest ELSE Append(rest, e)
     /\ entry' = [f \in Entry |->
          CASE f = e -> [regex |-> r, locale |-> locale, refcount |-> uses,
                         key |-> IF old # {} THEN entry[e].key ELSE NewKey]
            [] f \in kept \ {e} -> entry[f]
            [] OTHER -> NoContent]
     /\ pinned' = [f \in Entry |-> IF f \in kept \ {e} THEN pinned[f] ELSE 0]
     /\ replaced' = (replaced \cap kept) \cup {f \in old : entry[f].refcount # 0}
     /\ overfull' = (overfull \/ (IsFull /\ old = {} /\ Len(rest) = PCRE_CACHE_SIZE))

GetCompiledRegex(r, e, uses) ==
  Found(r, e, uses) \/ Compiled(r, e, uses)

-----------------------------------------------------------------------------
FewUses == Len(calls) + Cardinality({i \in Iterator : iterators[i] # NoEntry}) < MaxUses

(* preg_match, preg_replace, preg_split, preg_grep: until Return they match, *)
(* and the script runs in callbacks and error handlers.  A regex that does   *)
(* not compile changes nothing.                                              *)
Call(r, e) ==
  /\ FewUses
  /\ GetCompiledRegex(r, e, 1)
  /\ calls' = Append(calls, [pce |-> e, regex |-> r, locale |-> locale])
  /\ UNCHANGED <<locale, iterators, gen, bailouts>>

(* Mut: it does not count itself out. *)
MutCountedOut == 0
CountedOut == 1

Return ==
  /\ calls # <<>>
  /\ entry' = [entry EXCEPT ![calls[Len(calls)].pce].refcount = @ - CountedOut]
  /\ calls' = SubSeq(calls, 1, Len(calls) - 1)
  /\ UNCHANGED <<pcre_cache, locale, iterators, gen, bailouts, history>>

(* pcre_get_compiled_regex: what it finds is used at once and not counted. *)
GetOnly(r, e) ==
  /\ GetCompiledRegex(r, e, 0)
  /\ UNCHANGED <<locale, calls, iterators, gen, bailouts>>

(* RegexIterator::__construct *)
NewIterator(i, r, e) ==
  /\ iterators[i] = NoEntry /\ FewUses
  /\ GetCompiledRegex(r, e, 1)
  /\ iterators' = [iterators EXCEPT ![i] = e]
  /\ UNCHANGED <<locale, calls, gen, bailouts>>

(* spl_dual_it_free_storage *)
FreeIterator(i) ==
  /\ iterators[i] # NoEntry
  /\ entry' = [entry EXCEPT ![iterators[i]].refcount = @ - 1]
  /\ iterators' = [iterators EXCEPT ![i] = NoEntry]
  /\ UNCHANGED <<pcre_cache, locale, calls, gen, bailouts, history>>

(* setlocale() *)
SetLocale(l) ==
  /\ l # locale /\ locale' = l
  /\ UNCHANGED <<pcre_cache, entry, calls, iterators, gen, bailouts, history>>

(* exit() or a fatal error in a callback: the calls around it never return; *)
(* shutdown functions may still run.                                        *)
Bailout ==
  /\ calls # <<>> /\ bailouts < MaxBailouts
  /\ bailouts' = bailouts + 1
  /\ pinned' = [e \in Entry |-> pinned[e] + CallsOf(e)]
  /\ calls' = <<>>
  /\ UNCHANGED <<pcre_cache, entry, locale, iterators, gen, replaced, overfull>>

(* The request has ended and its objects are freed; the opcode cache is      *)
(* restarted before the next one, or not.                                    *)
NextRequest(restarts) ==
  /\ calls = <<>> /\ \A i \in Iterator : iterators[i] = NoEntry
  /\ locale' = C
  /\ gen' = gen + restarts /\ gen' <= MaxRestarts
  /\ UNCHANGED <<pcre_cache, entry, calls, iterators, bailouts, history>>

Next ==
  \/ \E r \in Regex, e \in Entry :
       \/ Call(r, e) \/ GetOnly(r, e)
       \/ \E i \in Iterator : NewIterator(i, r, e)
  \/ Return \/ Bailout
  \/ \E i \in Iterator : FreeIterator(i)
  \/ \E l \in Locale : SetLocale(l)
  \/ NextRequest(0) \/ NextRequest(1)

Spec == Init /\ [][Next]_vars

-----------------------------------------------------------------------------
(* What a call or an iterator uses is not freed under it, and a call goes on  *)
(* with the regex it was called for, compiled for the locale it was called   *)
(* in.  Not if the entry was replaced: a callback that changes the locale    *)
(* and uses the regex of a call around it frees what that call uses.         *)
InUseIsKept ==
  /\ InUse \ replaced \subseteq Cached
  /\ \A u \in Members(calls) : u.pce \notin replaced =>
       entry[u.pce].regex = u.regex /\ entry[u.pce].locale = u.locale

(* The count of an entry is the calls and iterators that use it, and what     *)
(* abandoned calls left: outside of these it can be cleaned.                 *)
RefcountsBalance ==
  \A e \in Cached \ replaced :
    entry[e].refcount = CallsOf(e) + IteratorsOf(e) + pinned[e]

(* The cache stays within its limit ("if we reached cache limit, clean out   *)
(* the items from the head of the list"), unless all entries were in use      *)
(* once: then the test for equality never cleans again.                      *)
CacheIsBounded == Len(pcre_cache) <= PCRE_CACHE_SIZE \/ overfull

(* "PCRE_G(pcre_cache) must be consistent on the next request as well": no    *)
(* key is an interned string of before a restart.                            *)
KeysAreReadable == \A e \in Cached : entry[e].key \in {Own, gen}
=============================================================================
