---------------------- MODULE AccelIncludePath_proofs ----------------------
(***************************************************************************)
(* Theorems about the letters of include_path, for any number of workers,  *)
(* paths and restarts.                                                     *)
(***************************************************************************)
EXTENDS AccelIncludePath, TLAPS

USE IncludePathAssumption DEF num_entries, Full, Idle, UsesTable, NextLetter, Letter, Content

-----------------------------------------------------------------------------
(* What a look-up in the table returns. *)
LEMMA FindSpec ==
  ASSUME include_paths \in Seq(1..Cells), NEW p
  PROVE  /\ Find(p) \in 0..Cells
         /\ Find(p) # 0 => \E i \in 1..Len(include_paths) :
                             Find(p) = include_paths[i] /\ mem[include_paths[i]].path = p
         /\ Find(p) = 0 => \A i \in 1..Len(include_paths) : mem[include_paths[i]].path # p
<1> DEFINE j == CHOOSE i \in Holds(p) : TRUE
<1>0. \A i \in 1..Len(include_paths) : include_paths[i] \in 1..Cells
  OBVIOUS
<1>1. CASE Holds(p) = {}
  <2>1. Find(p) = 0
    BY <1>1 DEF Find
  <2>2. \A i \in 1..Len(include_paths) : mem[include_paths[i]].path # p
    BY <1>1 DEF Holds
  <2> QED BY <2>1, <2>2
<1>2. CASE Holds(p) # {}
  <2>1. j \in Holds(p)
    BY <1>2, Zenon
  <2>2. Find(p) = include_paths[j]
    BY <1>2, Zenon DEF Find
  <2>3. j \in 1..Len(include_paths) /\ mem[include_paths[j]].path = p
    BY <2>1 DEF Holds
  <2> HIDE DEF j
  <2>4. include_paths[j] \in 1..Cells
    BY <2>3, <1>0
  <2> QED BY <2>2, <2>3, <2>4
<1> QED BY <1>1, <1>2

-----------------------------------------------------------------------------
(* Type correctness. *)
LEMMA OnModifyType ==
  ASSUME TypeOK, NEW w \in Worker, NEW p \in Path \cup {NoPath}, NEW inUse \in BOOLEAN,
         OnModify(w, p, inUse)
  PROVE  /\ include_path' \in [Worker -> Path \cup {NoPath}]
         /\ include_path_key' \in [Worker -> 0..Cells]
         /\ include_path_check' \in [Worker -> BOOLEAN]
         /\ registering' \in [Worker -> {"no", "ini", "key"}]
<1>1. Find(p) \in 0..Cells
  BY FindSpec DEF TypeOK
<1>2. include_path' = [include_path EXCEPT ![w] = p]
  BY DEF OnModify, Setting
<1>3. PICK k \in 0..Cells : include_path_key' = [include_path_key EXCEPT ![w] = k]
  BY <1>1 DEF OnModify, Setting
<1>4. PICK b \in BOOLEAN : include_path_check' = [include_path_check EXCEPT ![w] = b]
  BY DEF OnModify, Setting, TypeOK
<1>5. registering' = registering \/ registering' = [registering EXCEPT ![w] = "ini"]
  BY DEF OnModify
<1> QED BY <1>2, <1>3, <1>4, <1>5 DEF TypeOK

LEMMA SavedType == Saved \in 0..Cells /\ Saved \in 0..1
  BY DEF Saved

LEMMA RegisterType ==
  ASSUME TypeOK, NEW w \in Worker, Register(w)
  PROVE  TypeOK'
<1> DEFINE p == include_path[w]
           new == Entered(p) = 0 /\ ~Full /\ pos < Cells
           k == IF new THEN pos + 1 ELSE Entered(p)
<1>1. Entered(p) \in 0..Cells
  BY FindSpec DEF TypeOK, Entered
<1>2. k \in 0..Cells
  BY <1>1 DEF TypeOK
<1>3. mem' \in [1..Cells -> Content] /\ pos' \in 0..Cells
  <2>1. CASE new
    <3>1. mem' = [mem EXCEPT ![pos + 1] = [path |-> p, letter |-> Len(include_paths) + 1]]
          /\ pos' = pos + 1
      BY <2>1 DEF Register
    <3>2. Len(include_paths) + 1 \in Letter \cup {0} /\ p \in Path \cup {NoPath, NoText}
      BY <2>1 DEF TypeOK
    <3> QED BY <3>1, <3>2, <2>1 DEF TypeOK
  <2>2. CASE ~new
    BY <2>2 DEF TypeOK, Register, shared
  <2> QED BY <2>1, <2>2
<1>4. include_paths' \in Seq(1..Cells) /\ Len(include_paths') <= MaxPaths
  <2>1. CASE new
    <3>1. include_paths' = Append(include_paths, pos + 1)
      BY <2>1 DEF Register
    <3> QED BY <3>1, <2>1 DEF TypeOK
  <2>2. CASE ~new
    BY <2>2 DEF TypeOK, Register, shared
  <2> QED BY <2>1, <2>2
<1>5. made' \in SUBSET Content
  <2>1. made' = made \/ Made(w, k)
    BY DEF Register
  <2>2. CASE Made(w, k) /\ k # 0
    <3>1. mem'[k] \in Content
      BY <2>2, <1>2, <1>3
    <3> QED BY <2>2, <3>1 DEF Made, TypeOK
  <2> QED BY <2>1, <2>2 DEF Made, TypeOK
<1>6. include_path_key' \in [Worker -> 0..Cells] /\ registering' \in [Worker -> {"no", "ini", "key"}]
  BY <1>2 DEF TypeOK, Register
<1>7. schedules' \in 0..MaxRestarts /\ restart_pending' \in BOOLEAN
  <2>1. \/ UNCHANGED schedule
        \/ restart_pending' = TRUE /\ schedules' = schedules + 1 /\ schedules < MaxRestarts
    BY DEF Register
  <2>2. CASE UNCHANGED schedule
    BY <2>2 DEF TypeOK, schedule
  <2>3. CASE restart_pending' = TRUE /\ schedules' = schedules + 1 /\ schedules < MaxRestarts
    BY <2>3 DEF TypeOK
  <2> QED BY <2>1, <2>2, <2>3
<1>8. UNCHANGED <<running, counted, include_path, include_path_check>>
  BY DEF Register
<1> QED BY <1>3, <1>4, <1>5, <1>6, <1>7, <1>8 DEF TypeOK

LEMMA LettersTypeInit == ASSUME Init PROVE TypeOK
<1>1. mem \in [1..Cells -> Content]
  BY SavedType DEF Init
<1>2. include_paths \in Seq(1..Cells) /\ Len(include_paths) <= MaxPaths
  <2>1. CASE Default = NoPath
    BY <2>1 DEF Init
  <2>2. CASE Default # NoPath
    <3>1. include_paths = << 1 >>
      BY <2>2 DEF Init
    <3> QED BY <3>1
  <2> QED BY <2>1, <2>2
<1>3. pos \in 0..Cells /\ schedules \in 0..MaxRestarts /\ made \in SUBSET Content
  BY SavedType DEF Init
<1>4. /\ include_path \in [Worker -> Path \cup {NoPath}]
      /\ include_path_key \in [Worker -> 0..Cells]
      /\ registering \in [Worker -> {"no", "ini", "key"}]
  BY SavedType DEF Init
<1>5. /\ restart_pending \in BOOLEAN /\ include_path_check \in [Worker -> BOOLEAN]
      /\ running \in [Worker -> BOOLEAN] /\ counted \in [Worker -> BOOLEAN]
  BY DEF Init
<1> QED BY <1>1, <1>2, <1>3, <1>4, <1>5 DEF TypeOK

LEMMA LettersTypeStep == ASSUME TypeOK, [Next]_vars PROVE TypeOK'
<1>1. CASE UNCHANGED vars
  BY <1>1 DEF vars, shared, schedule, setting, TypeOK
<1>2. ASSUME NEW w \in Worker, Activate(w) PROVE TypeOK'
  <2>1. include_paths' \in Seq(1..Cells) /\ Len(include_paths') <= MaxPaths
    <3>1. include_paths' = Kept \/ include_paths' = include_paths
      BY <1>2 DEF Activate
    <3>2. CASE include_paths' = include_paths
      BY <3>2 DEF TypeOK
    <3>3. CASE include_paths' = Kept /\ Len(include_paths) > 1
      <4>1. include_paths' = << include_paths[1] >> /\ include_paths[1] \in 1..Cells
        BY <3>3 DEF Kept, TypeOK
      <4> QED BY <4>1
    <3>4. CASE include_paths' = Kept /\ ~(Len(include_paths) > 1)
      BY <3>4 DEF Kept, TypeOK
    <3> QED BY <3>1, <3>2, <3>3, <3>4
  <2>2. PICK b \in BOOLEAN : include_path_check' = [include_path_check EXCEPT ![w] = b]
    BY <1>2, Zenon DEF Activate
  <2>3. include_path_check' \in [Worker -> BOOLEAN]
    BY <2>2 DEF TypeOK
  <2>4. pos' \in 0..Cells /\ restart_pending' \in BOOLEAN /\ made' \in SUBSET Content
    BY <1>2, SavedType DEF TypeOK, Activate
  <2>5. running' \in [Worker -> BOOLEAN]
    BY <1>2 DEF TypeOK, Activate
  <2>6. UNCHANGED <<mem, schedules, counted, include_path, include_path_key, registering>>
    BY <1>2 DEF Activate
  <2> QED BY <2>1, <2>3, <2>4, <2>5, <2>6 DEF TypeOK
<1>3. ASSUME NEW w \in Worker, Count(w) PROVE TypeOK'
  BY <1>3 DEF TypeOK, Count, shared, schedule, setting
<1>4. ASSUME NEW w \in Worker, StoreScript(w) PROVE TypeOK'
  BY <1>4 DEF TypeOK, StoreScript, schedule, setting
<1>5. ASSUME NEW w \in Worker, Schedule(w) PROVE TypeOK'
  BY <1>5 DEF TypeOK, Schedule, shared, setting
<1>6. ASSUME NEW w \in Worker, End(w) PROVE TypeOK'
  <2>1. CASE include_path[w] = Default
    BY <1>6, <2>1 DEF TypeOK, End, shared, schedule, setting
  <2>2. CASE include_path[w] # Default
    <3>1. OnModify(w, Default, ~restart_pending)
      BY <1>6, <2>2 DEF End
    <3> QED BY <3>1, <1>6, OnModifyType DEF TypeOK, End, shared, schedule
  <2> QED BY <2>1, <2>2
<1>7. ASSUME NEW w \in Worker, MakeKey(w) PROVE TypeOK'
  <2>1. mem' = mem /\ (made' = made \/ Made(w, include_path_key[w]))
    BY <1>7 DEF MakeKey
  <2>2. made' \in SUBSET Content
    <3>1. CASE Made(w, include_path_key[w]) /\ include_path_key[w] # 0
      <4>1. mem'[include_path_key[w]] \in Content
        BY <2>1, <3>1 DEF TypeOK
      <4> QED BY <3>1, <4>1 DEF Made, TypeOK
    <3> QED BY <2>1, <3>1 DEF TypeOK, Made
  <2>4. registering' \in [Worker -> {"no", "ini", "key"}]
    BY <1>7 DEF TypeOK, MakeKey
  <2>3. UNCHANGED <<pos, include_paths, schedule, running, counted, setting>>
    BY <1>7 DEF MakeKey
  <2> QED BY <2>1, <2>2, <2>3, <2>4 DEF TypeOK, schedule, setting
<1>8. ASSUME NEW w \in Worker, Register(w) PROVE TypeOK'
  BY <1>8, RegisterType
<1>9. ASSUME NEW w \in Worker, NEW p \in Path \cup {NoPath}, SetIncludePath(w, p) PROVE TypeOK'
  <2>1. UsesTable(w) \in BOOLEAN
    BY DEF TypeOK
  <2> QED BY <2>1, <1>9, OnModifyType DEF TypeOK, SetIncludePath, shared, schedule
<1> QED BY <1>1, <1>2, <1>3, <1>4, <1>5, <1>6, <1>7, <1>8, <1>9 DEF Next

(* Every reachable state is well typed. *)
THEOREM LettersTypeCorrect == Spec => []TypeOK
<1>1. Init => TypeOK
  BY LettersTypeInit
<1>2. TypeOK /\ [Next]_vars => TypeOK'
  BY LettersTypeStep
<1> QED BY <1>1, <1>2, PTL DEF Spec

-----------------------------------------------------------------------------
(* The letters.  The key a worker holds is an entry of the table that has   *)
(* its path; a worker that is not counted holds the first entry or none,    *)
(* so that a restart, which keeps the first entry only, leaves it right.    *)
FirstEntry ==
  /\ Len(include_paths) >= 1 /\ include_paths[1] = 1
  /\ pos >= 1 /\ mem[1] = [path |-> Default, letter |-> 1]
Entries ==
  \A i \in 1..Len(include_paths) :
    include_paths[i] \in 1..pos /\ mem[include_paths[i]].letter = i
MadeOfTable ==
  \A x \in made : /\ x.letter \in 1..Len(include_paths)
                  /\ mem[include_paths[x.letter]].path = x.path
HoldsEntry(w) ==
  \/ include_path_key[w] = 0
  \/ \E i \in 1..Len(include_paths) :
       /\ include_path_key[w] = include_paths[i]
       /\ mem[include_paths[i]].path = include_path[w]
       /\ counted[w] \/ i = 1
WaitsCounted(w) == registering[w] # "no" => counted[w]

LetterInv ==
  /\ TypeOK /\ FirstEntry /\ Entries /\ EachPathOnce /\ MadeOfTable
  /\ \A w \in Worker : HoldsEntry(w) /\ WaitsCounted(w)

(* What the invariant says of the table still holds when it only grows.     *)
LEMMA TableGrows ==
  ASSUME LetterInv, TypeOK',
         pos' >= pos,
         Len(include_paths') >= Len(include_paths),
         \A i \in 1..Len(include_paths) : include_paths'[i] = include_paths[i],
         \A c \in 1..pos : mem'[c] = mem[c]
  PROVE  /\ FirstEntry'
         /\ \A i \in 1..Len(include_paths) :
              /\ include_paths'[i] \in 1..pos' /\ mem'[include_paths'[i]].letter = i
              /\ mem'[include_paths'[i]] = mem[include_paths[i]]
         /\ made' = made => MadeOfTable'
         /\ \A w \in Worker : 
              UNCHANGED <<include_path_key[w], include_path[w], counted[w]>> => HoldsEntry(w)'
<1>1. \A i \in 1..Len(include_paths) :
        /\ include_paths[i] \in 1..pos
        /\ mem'[include_paths'[i]] = mem[include_paths[i]]
        /\ include_paths'[i] = include_paths[i]
        /\ i \in 1..Len(include_paths')
  BY DEF LetterInv, Entries, TypeOK
<1>2. FirstEntry'
  BY DEF LetterInv, FirstEntry, TypeOK
<1>3. \A i \in 1..Len(include_paths) :
        include_paths'[i] \in 1..pos' /\ mem'[include_paths'[i]].letter = i
  <2>1. pos \in Nat /\ pos' \in Nat /\ 1..pos \subseteq 1..pos'
    BY DEF LetterInv, TypeOK
  <2>2. \A i \in 1..Len(include_paths) :
          include_paths[i] \in 1..pos /\ mem[include_paths[i]].letter = i
    BY DEF LetterInv, Entries
  <2>3. ASSUME NEW i \in 1..Len(include_paths)
        PROVE  include_paths'[i] \in 1..pos' /\ mem'[include_paths'[i]].letter = i
    BY <1>1, <2>1, <2>2
  <2> QED BY <2>3
<1>4. made' = made => MadeOfTable'
  BY <1>1 DEF LetterInv, MadeOfTable
<1>5. ASSUME NEW w \in Worker,
             UNCHANGED <<include_path_key[w], include_path[w], counted[w]>>
      PROVE  HoldsEntry(w)'
  BY <1>1, <1>5 DEF LetterInv, HoldsEntry
<1> QED BY <1>1, <1>2, <1>3, <1>4, <1>5

(* What a change of include_path leaves the worker with.                    *)
LEMMA OnModifyLetters ==
  ASSUME LetterInv, NEW w \in Worker, NEW p \in Path \cup {NoPath}, NEW inUse \in BOOLEAN,
         OnModify(w, p, inUse)
  PROVE  /\ include_path'[w] = p
         /\ \/ include_path_key'[w] = 0
            \/ /\ inUse
               /\ \E i \in 1..Len(include_paths) :
                    /\ include_path_key'[w] = include_paths[i]
                    /\ mem[include_paths[i]].path = p
         /\ registering'[w] # registering[w] => inUse /\ Find(p) = 0
         /\ \A v \in Worker \ {w} :
              UNCHANGED <<include_path[v], include_path_key[v], registering[v]>>
<1>1. /\ include_path' = [include_path EXCEPT ![w] = p]
      /\ \/ include_path_key' = [include_path_key EXCEPT ![w] = 0]
         \/ inUse /\ include_path_key' = [include_path_key EXCEPT ![w] = Find(p)]
  BY DEF OnModify, Setting
<1>2. \/ registering' = registering
      \/ inUse /\ Find(p) = 0 /\ registering' = [registering EXCEPT ![w] = "ini"]
  BY DEF OnModify
<1>3. Find(p) # 0 => \E i \in 1..Len(include_paths) :
                       Find(p) = include_paths[i] /\ mem[include_paths[i]].path = p
  BY FindSpec DEF LetterInv, TypeOK
<1>4. /\ include_path \in [Worker -> Path \cup {NoPath}]
      /\ include_path_key \in [Worker -> 0..Cells]
      /\ registering \in [Worker -> {"no", "ini", "key"}]
  BY DEF LetterInv, TypeOK
<1> QED BY <1>1, <1>2, <1>3, <1>4

(* The table does not change when no worker enters a path or restarts.      *)
LEMMA SameTable ==
  ASSUME LetterInv, UNCHANGED <<mem, pos, include_paths>>
  PROVE  FirstEntry' /\ Entries' /\ EachPathOnce'
  BY DEF LetterInv, FirstEntry, Entries, EachPathOnce, num_entries

(* The path of a worker that stands for the php.ini value is the first.     *)
LEMMA DefaultIsFirst ==
  ASSUME LetterInv, NEW i \in 1..Len(include_paths), mem[include_paths[i]].path = Default
  PROVE  i = 1
<1>1. 1 \in 1..Len(include_paths) /\ mem[include_paths[1]].path = Default
  BY DEF LetterInv, FirstEntry, TypeOK
<1> QED BY <1>1 DEF LetterInv, EachPathOnce

LEMMA ActivateKeeps ==
  ASSUME LetterInv, TypeOK', Default \in Path, NEW w \in Worker, Activate(w)
  PROVE  LetterInv'
<1>1. UNCHANGED <<mem, schedules, counted, include_path, include_path_key, registering>>
  BY DEF Activate
<1>2. CASE restart_pending /\ \A v \in Worker : ~counted[v]
  <2>1. pos' = Saved /\ include_paths' = Kept /\ made' = {}
    BY <1>2 DEF Activate
  <2>2. Len(include_paths') = 1 /\ include_paths'[1] = 1
    <3>1. CASE Len(include_paths) > 1
      <4>1. include_paths' = << include_paths[1] >> /\ include_paths[1] = 1
        BY <2>1, <3>1 DEF Kept, LetterInv, FirstEntry
      <4> QED BY <4>1
    <3>2. CASE ~(Len(include_paths) > 1)
      <4>1. Len(include_paths) \in Nat /\ Len(include_paths) >= 1 /\ include_paths[1] = 1
        BY DEF LetterInv, FirstEntry, TypeOK
      <4>2. include_paths' = include_paths
        BY <2>1, <3>2 DEF Kept
      <4>3. \A n \in Nat : n >= 1 /\ ~(n > 1) => n = 1
        OBVIOUS
      <4>4. Len(include_paths) = 1
        BY <4>1, <3>2, <4>3, Zenon
      <4> QED BY <4>1, <4>2, <4>4
    <3> QED BY <3>1, <3>2
  <2>3. pos' = 1
    BY <2>1 DEF Saved
  <2>4. FirstEntry' /\ Entries' /\ EachPathOnce' /\ MadeOfTable'
    BY <2>1, <2>2, <2>3, <1>1
       DEF LetterInv, FirstEntry, Entries, EachPathOnce, MadeOfTable, num_entries
  <2>5. ASSUME NEW v \in Worker PROVE HoldsEntry(v)' /\ WaitsCounted(v)'
    <3>1. include_path_key[v] = 0 \/ (include_path_key[v] = 1 /\ mem[1].path = include_path[v])
      BY <1>2 DEF LetterInv, HoldsEntry, FirstEntry
    <3> QED BY <3>1, <2>2, <1>1 DEF LetterInv, HoldsEntry, WaitsCounted
  <2> QED BY <2>4, <2>5 DEF LetterInv
<1>3. CASE ~(restart_pending /\ \A v \in Worker : ~counted[v])
  <2>1. UNCHANGED <<pos, include_paths, restart_pending, made>>
    BY <1>3 DEF Activate
  <2>2. FirstEntry' /\ Entries' /\ EachPathOnce' /\ MadeOfTable'
    BY <2>1, <1>1, SameTable DEF LetterInv, MadeOfTable
  <2>3. ASSUME NEW v \in Worker PROVE HoldsEntry(v)' /\ WaitsCounted(v)'
    BY <2>1, <1>1 DEF LetterInv, HoldsEntry, WaitsCounted
  <2> QED BY <2>2, <2>3 DEF LetterInv
<1> QED BY <1>2, <1>3

LEMMA StoreKeeps ==
  ASSUME LetterInv, TypeOK', NEW w \in Worker, StoreScript(w)
  PROVE  LetterInv'
<1>1. /\ UNCHANGED <<include_paths, schedule, running, counted, setting, registering, made>>
      /\ pos' = pos + 1
  BY DEF StoreScript
<1>2. \A c \in 1..pos : mem'[c] = mem[c]
  BY DEF StoreScript, LetterInv, TypeOK
<1>3. pos' >= pos /\ Len(include_paths') >= Len(include_paths)
  BY <1>1 DEF LetterInv, TypeOK
<1>4. Entries' /\ EachPathOnce' /\ FirstEntry' /\ MadeOfTable'
  BY <1>1, <1>2, <1>3, TableGrows DEF LetterInv, EachPathOnce, Entries, num_entries
<1>5. \A v \in Worker : HoldsEntry(v)' /\ WaitsCounted(v)'
  BY <1>1, <1>2, <1>3, TableGrows DEF LetterInv, WaitsCounted, setting
<1> QED BY <1>4, <1>5 DEF LetterInv

LEMMA EndKeeps ==
  ASSUME LetterInv, TypeOK', Default \in Path, NEW w \in Worker, End(w)
  PROVE  LetterInv'
<1>1. UNCHANGED <<mem, pos, include_paths, schedule, made>> /\ registering[w] = "no"
  BY DEF End, shared
<1>2. counted' = [counted EXCEPT ![w] = FALSE] /\ counted \in [Worker -> BOOLEAN]
  BY DEF End, LetterInv, TypeOK
<1>3. FirstEntry' /\ Entries' /\ EachPathOnce' /\ MadeOfTable'
  BY <1>1, SameTable DEF LetterInv, MadeOfTable
<1>4. HoldsEntry(w)' /\ WaitsCounted(w)' /\ \A v \in Worker \ {w} :
        UNCHANGED <<include_path[v], include_path_key[v], registering[v]>>
  <2>1. CASE include_path[w] = Default
    <3>1. UNCHANGED <<include_path, include_path_key, registering>>
      BY <2>1 DEF End, setting
    <3>2. HoldsEntry(w)'
      BY <3>1, <2>1, <1>1, DefaultIsFirst DEF LetterInv, HoldsEntry
    <3> QED BY <3>1, <3>2, <1>1 DEF WaitsCounted
  <2>2. CASE include_path[w] # Default
    <3>1. OnModify(w, Default, ~restart_pending)
      BY <2>2 DEF End
    <3>2. Find(Default) # 0
      <4>1. 1 \in 1..Len(include_paths) /\ mem[include_paths[1]].path = Default
        BY DEF LetterInv, FirstEntry, TypeOK
      <4> QED BY <4>1, FindSpec DEF LetterInv, TypeOK
    <3>3. (~restart_pending) \in BOOLEAN
      OBVIOUS
    <3>4. /\ include_path'[w] = Default
          /\ \/ include_path_key'[w] = 0
             \/ \E i \in 1..Len(include_paths) :
                  include_path_key'[w] = include_paths[i] /\ mem[include_paths[i]].path = Default
          /\ registering'[w] = "no"
          /\ \A v \in Worker \ {w} :
               UNCHANGED <<include_path[v], include_path_key[v], registering[v]>>
      BY <3>1, <3>2, <3>3, <1>1, OnModifyLetters
    <3>5. HoldsEntry(w)'
      BY <3>4, <1>1, DefaultIsFirst DEF HoldsEntry
    <3> QED BY <3>4, <3>5 DEF WaitsCounted
  <2> QED BY <2>1, <2>2
<1>5. ASSUME NEW v \in Worker \ {w} PROVE HoldsEntry(v)' /\ WaitsCounted(v)'
  BY <1>1, <1>2, <1>4 DEF LetterInv, HoldsEntry, WaitsCounted
<1> QED BY <1>3, <1>4, <1>5 DEF LetterInv

LEMMA SetIncludePathKeeps ==
  ASSUME LetterInv, TypeOK', ~Early, NEW w \in Worker, NEW p \in Path \cup {NoPath},
         SetIncludePath(w, p)
  PROVE  LetterInv'
<1>1. UNCHANGED <<mem, pos, include_paths, counted, made>> /\ registering[w] = "no"
  BY DEF SetIncludePath, shared
<1>2. FirstEntry' /\ Entries' /\ EachPathOnce' /\ MadeOfTable'
  BY <1>1, SameTable DEF LetterInv, MadeOfTable
<1>3. OnModify(w, p, UsesTable(w)) /\ UsesTable(w) \in BOOLEAN
  BY DEF SetIncludePath, LetterInv, TypeOK
<1>4. UsesTable(w) => counted[w]
  BY DEF SetIncludePath
<1>5. HoldsEntry(w)' /\ WaitsCounted(w)' /\ \A v \in Worker \ {w} :
        UNCHANGED <<include_path[v], include_path_key[v], registering[v]>>
  <2>1. /\ include_path'[w] = p
        /\ \/ include_path_key'[w] = 0
           \/ /\ counted[w]
              /\ \E i \in 1..Len(include_paths) :
                   include_path_key'[w] = include_paths[i] /\ mem[include_paths[i]].path = p
        /\ registering'[w] # registering[w] => counted[w]
        /\ \A v \in Worker \ {w} :
             UNCHANGED <<include_path[v], include_path_key[v], registering[v]>>
    BY <1>3, <1>4, OnModifyLetters
  <2>2. HoldsEntry(w)'
    BY <2>1, <1>1 DEF HoldsEntry
  <2> QED BY <2>1, <2>2, <1>1 DEF WaitsCounted
<1>6. ASSUME NEW v \in Worker \ {w} PROVE HoldsEntry(v)' /\ WaitsCounted(v)'
  BY <1>1, <1>5 DEF LetterInv, HoldsEntry, WaitsCounted
<1> QED BY <1>2, <1>5, <1>6 DEF LetterInv

LEMMA MakeKeyKeeps ==
  ASSUME LetterInv, TypeOK', ~Early, NEW w \in Worker, MakeKey(w)
  PROVE  LetterInv'
<1>1. UNCHANGED <<mem, pos, include_paths, schedule, running, counted, setting>> /\ counted[w]
  BY DEF MakeKey
<1>2. FirstEntry' /\ Entries' /\ EachPathOnce'
  BY <1>1, SameTable
<1>3. \A v \in Worker : HoldsEntry(v)'
  BY <1>1 DEF LetterInv, HoldsEntry, setting
<1>4. \A v \in Worker : WaitsCounted(v)'
  BY <1>1 DEF LetterInv, WaitsCounted, MakeKey, TypeOK
<1>5. MadeOfTable'
  <2>1. made' = made \/ Made(w, include_path_key[w])
    BY DEF MakeKey
  <2>2. CASE made' = made
    BY <2>2, <1>1 DEF LetterInv, MadeOfTable
  <2>3. CASE Made(w, include_path_key[w]) /\ include_path_key[w] # 0
    <3>1. PICK i \in 1..Len(include_paths) :
            include_path_key[w] = include_paths[i] /\ mem[include_paths[i]].path = include_path[w]
      BY <2>3 DEF LetterInv, HoldsEntry
    <3>2. mem[include_paths[i]].letter = i
      BY DEF LetterInv, Entries
    <3>3. made' = made \cup {[path |-> include_path[w], letter |-> i]}
      BY <1>1, <2>3, <3>1, <3>2 DEF Made
    <3> QED BY <1>1, <3>1, <3>3 DEF LetterInv, MadeOfTable
  <2> QED BY <2>1, <2>2, <2>3 DEF Made
<1> QED BY <1>2, <1>3, <1>4, <1>5 DEF LetterInv

LEMMA RegisterKeeps ==
  ASSUME LetterInv, TypeOK', NEW w \in Worker, Register(w)
  PROVE  LetterInv'
<1> DEFINE p == include_path[w]
           n == Len(include_paths)
           new == Entered(p) = 0 /\ ~Full /\ pos < Cells
           k == IF new THEN pos + 1 ELSE Entered(p)
<1>1. /\ UNCHANGED <<running, counted, include_path, include_path_check>>
      /\ include_path_key' = [include_path_key EXCEPT ![w] = k]
      /\ registering' = [registering EXCEPT ![w] = "no"]
      /\ made' = made \/ Made(w, k)
  BY DEF Register
<1>2. /\ Entered(p) # 0 => \E i \in 1..Len(include_paths) :
                             Entered(p) = include_paths[i] /\ mem[include_paths[i]].path = p
      /\ Entered(p) = 0 => \A i \in 1..Len(include_paths) : mem[include_paths[i]].path # p
  BY FindSpec DEF Entered, LetterInv, TypeOK
<1>3. counted[w]
  BY DEF LetterInv, WaitsCounted, Register
(* The table afterwards, and the entry of the path in it.                   *)
<1>4. /\ FirstEntry' /\ Entries' /\ EachPathOnce'
      /\ \A x \in made : /\ x.letter \in 1..Len(include_paths')
                         /\ mem'[include_paths'[x.letter]].path = x.path
      /\ \A v \in Worker :
           UNCHANGED <<include_path_key[v], include_path[v], counted[v]>> => HoldsEntry(v)'
      /\ k # 0 => \E i \in 1..Len(include_paths') :
                    k = include_paths'[i] /\ mem'[include_paths'[i]].path = p
  <2>1. CASE new
    <3>1. /\ mem' = [mem EXCEPT ![pos + 1] = [path |-> p, letter |-> n + 1]]
          /\ pos' = pos + 1
          /\ include_paths' = Append(include_paths, pos + 1)
      BY <2>1 DEF Register
    <3>2. /\ n \in Nat /\ Len(include_paths') = n + 1 /\ include_paths'[n + 1] = pos + 1
          /\ \A i \in 1..n : include_paths'[i] = include_paths[i]
      BY <3>1, <2>1 DEF LetterInv, TypeOK
    <3>3. /\ pos' >= pos /\ Len(include_paths') >= Len(include_paths)
          /\ \A c \in 1..pos : mem'[c] = mem[c]
          /\ mem'[pos + 1] = [path |-> p, letter |-> n + 1]
      BY <3>1, <3>2, <2>1 DEF LetterInv, TypeOK
    <3>4. FirstEntry' 
      BY <3>2, <3>3, TableGrows
    <3>5. \A i \in 1..n : /\ include_paths'[i] \in 1..pos' /\ mem'[include_paths'[i]].letter = i
                          /\ mem'[include_paths'[i]] = mem[include_paths[i]]
      BY <3>2, <3>3, TableGrows
    <3>6. \A v \in Worker :
            UNCHANGED <<include_path_key[v], include_path[v], counted[v]>> => HoldsEntry(v)'
      BY <3>2, <3>3, TableGrows
    <3>7. \A i \in 1..Len(include_paths') : i \in 1..n \/ i = n + 1
      BY <3>2
    <3>8. pos + 1 \in 1..pos' /\ n + 1 \in 1..Len(include_paths')
      BY <3>1, <3>2 DEF LetterInv, TypeOK
    <3>9. Entries'
      BY <3>2, <3>3, <3>5, <3>7, <3>8 DEF Entries
    <3>10. EachPathOnce'
      <4>1. \A i \in 1..n : mem'[include_paths'[i]].path # p
        BY <2>1, <1>2, <3>5
      <4>2. mem'[include_paths'[n + 1]].path = p
        BY <3>2, <3>3
      <4>3. \A i, j \in 1..n : i # j => mem'[include_paths'[i]].path # mem'[include_paths'[j]].path
        BY <3>5 DEF LetterInv, EachPathOnce
      <4> QED BY <4>1, <4>2, <4>3, <3>7 DEF EachPathOnce
    <3>11. \A x \in made : /\ x.letter \in 1..Len(include_paths')
                           /\ mem'[include_paths'[x.letter]].path = x.path
      BY <3>2, <3>5 DEF LetterInv, MadeOfTable
    <3>12. \E i \in 1..Len(include_paths') :
             k = include_paths'[i] /\ mem'[include_paths'[i]].path = p
      BY <3>2, <3>3, <3>8, <2>1
    <3> QED BY <3>4, <3>6, <3>9, <3>10, <3>11, <3>12
  <2>2. CASE ~new
    <3>1. UNCHANGED <<mem, pos, include_paths>>
      BY <2>2 DEF Register, shared
    <3> QED BY <3>1, <2>2, <1>2, SameTable DEF LetterInv, MadeOfTable, HoldsEntry
  <2> QED BY <2>1, <2>2
<1>5. MadeOfTable'
  <2>1. CASE made' = made
    BY <2>1, <1>4 DEF MadeOfTable
  <2>2. CASE Made(w, k) /\ k # 0
    <3>1. PICK i \in 1..Len(include_paths') :
            k = include_paths'[i] /\ mem'[include_paths'[i]].path = p
      BY <2>2, <1>4
    <3>2. mem'[k].letter = i
      BY <1>4, <3>1 DEF Entries
    <3>3. made' = made \cup {[path |-> p, letter |-> i]}
      BY <2>2, <3>2 DEF Made
    <3> QED BY <1>4, <3>1, <3>3 DEF MadeOfTable
  <2> QED BY <1>1, <2>1, <2>2 DEF Made
<1>6. ASSUME NEW v \in Worker PROVE HoldsEntry(v)' /\ WaitsCounted(v)'
  <2>1. CASE v = w
    <3>1. include_path_key'[w] = k /\ registering'[w] = "no" /\ include_path'[w] = p /\ counted'[w]
      BY <1>1, <1>3 DEF LetterInv, TypeOK
    <3> QED BY <2>1, <3>1, <1>4 DEF HoldsEntry, WaitsCounted
  <2>2. CASE v # w
    <3>1. UNCHANGED <<include_path_key[v], include_path[v], counted[v], registering[v]>>
      BY <2>2, <1>1 DEF LetterInv, TypeOK
    <3> QED BY <3>1, <1>4 DEF LetterInv, WaitsCounted
  <2> QED BY <2>1, <2>2
<1> QED BY <1>4, <1>5, <1>6 DEF LetterInv

-----------------------------------------------------------------------------
(* With an include_path in php.ini, and requests that touch the table only  *)
(* when they are counted, the invariant holds in every reachable state.     *)
LEMMA LettersInvariant ==
  ASSUME Default \in Path, ~Early
  PROVE  Spec => []LetterInv
<1>1. Init => LetterInv
  <2> SUFFICES ASSUME Init, TypeOK PROVE LetterInv
    BY LettersTypeInit
  <2>1. Saved = 1 /\ Default # NoPath
    BY DEF Saved
  <2>2. include_paths = << 1 >> /\ pos = 1 /\ made = {}
    BY <2>1 DEF Init
  <2>3. mem[1] = [path |-> Default, letter |-> 1]
    BY <2>1 DEF Init
  <2>4. Len(include_paths) = 1 /\ include_paths[1] = 1
    BY <2>2
  <2>5. FirstEntry /\ Entries /\ EachPathOnce /\ MadeOfTable
    BY <2>2, <2>3, <2>4 DEF FirstEntry, Entries, EachPathOnce, MadeOfTable
  <2>6. ASSUME NEW w \in Worker PROVE HoldsEntry(w) /\ WaitsCounted(w)
    <3>1. include_path_key[w] = 1 /\ include_path[w] = Default /\ registering[w] = "no"
      BY <2>1 DEF Init
    <3> QED BY <3>1, <2>3, <2>4 DEF HoldsEntry, WaitsCounted
  <2> QED BY <2>5, <2>6 DEF LetterInv
<1>2. LetterInv /\ [Next]_vars => LetterInv'
  <2> SUFFICES ASSUME LetterInv, [Next]_vars, TypeOK' PROVE LetterInv'
    BY LettersTypeStep DEF LetterInv
  <2>1. CASE UNCHANGED vars
    <3>1. UNCHANGED <<mem, pos, include_paths, made, counted, include_path, include_path_key,
                      registering>>
      BY <2>1 DEF vars, shared, setting
    <3> QED BY <3>1, SameTable DEF LetterInv, MadeOfTable, HoldsEntry, WaitsCounted
  <2>2. ASSUME NEW w \in Worker, Count(w) PROVE LetterInv'
    <3>1. /\ UNCHANGED <<mem, pos, include_paths, made, include_path, include_path_key, registering>>
          /\ counted' = [counted EXCEPT ![w] = TRUE]
      BY <2>2 DEF Count, shared, setting
    <3>2. \A v \in Worker : counted[v] => counted'[v]
      BY <3>1 DEF LetterInv, TypeOK
    <3> QED BY <3>1, <3>2, SameTable DEF LetterInv, MadeOfTable, HoldsEntry, WaitsCounted
  <2>3. ASSUME NEW w \in Worker, Schedule(w) PROVE LetterInv'
    <3>1. UNCHANGED <<mem, pos, include_paths, made, counted, include_path, include_path_key,
                      registering>>
      BY <2>3 DEF Schedule, shared, setting
    <3> QED BY <3>1, SameTable DEF LetterInv, MadeOfTable, HoldsEntry, WaitsCounted
  <2> QED BY <2>1, <2>2, <2>3, ActivateKeeps, StoreKeeps, EndKeeps, SetIncludePathKeeps,
             MakeKeyKeeps, RegisterKeeps DEF Next
<1>3. Spec => []LetterInv
  BY <1>1, <1>2, PTL DEF Spec
<1> QED BY <1>3

(* The keys of two include_paths never end with the same letter, whatever   *)
(* restarts happen between them: a script of one directory is not found for *)
(* the same relative name in another.                                       *)
THEOREM LettersAreDistinct ==
  ASSUME Default \in Path, ~Early
  PROVE  Spec => []KeysDistinguishPaths
<1>1. LetterInv => KeysDistinguishPaths
  BY DEF LetterInv, MadeOfTable, KeysDistinguishPaths
<1>2. Spec => []LetterInv
  BY LettersInvariant
<1> QED BY <1>1, <1>2, PTL

(* The letter a worker will use next is that of its include_path.           *)
THEOREM LetterIsCurrent ==
  ASSUME Default \in Path, ~Early
  PROVE  Spec => []LetterOfCurrentPath
<1>1. LetterInv => LetterOfCurrentPath
  BY DEF LetterInv, HoldsEntry, LetterOfCurrentPath
<1>2. Spec => []LetterInv
  BY LettersInvariant
<1> QED BY <1>1, <1>2, PTL

(* Two workers that miss the same path at the same time enter it once.      *)
THEOREM PathEnteredOnce ==
  ASSUME Default \in Path, ~Early
  PROVE  Spec => []EachPathOnce
<1>1. LetterInv => EachPathOnce
  BY DEF LetterInv
<1>2. Spec => []LetterInv
  BY LettersInvariant
<1> QED BY <1>1, <1>2, PTL
=============================================================================
