-------------------------- MODULE AccelCache_proofs --------------------------
(***************************************************************************)
(* Proofs about AccelCache, for any workers, names, files and bounds: what *)
(* the cache returns is what the files contain, or has contained not long  *)
(* ago, as long as no name changes its meaning.                            *)
(*                                                                         *)
(* The reason is an order of moments.  A script has the timestamp its file *)
(* had before it was compiled, and a timestamp of a second that was over   *)
(* by then: an edit gives the file a later one.  What a worker has seen to *)
(* be current was current after the worker's request began.                *)
(*                                                                         *)
(* The last part is about the memory: a sum over the scripts is the number *)
(* of boxes in columns of their heights, and every step of the cache moves *)
(* boxes between what is free, what is being entered and what is stored.   *)
(***************************************************************************)
EXTENDS AccelCache, FiniteSetTheorems, FunctionTheorems, WellFoundedInduction, TLAPS

(* Timestamps are validated, and young files are not cached. *)
Careful == ValidateTimestamps /\ Protection # 0

-----------------------------------------------------------------------------
(* The inductive invariant. *)

Outside == {"idle", "run", "apimark"}
Searching == {"resolve", "open", "addkey", "check", "mark", "miss"}
Compiled == {"store", "publish", "link"}
Storing == {"stamp", "compile"} \cup Compiled

Typed ==
  /\ pc \in [Worker -> Outside \cup Searching \cup Storing]
  /\ counted \in [Worker -> BOOLEAN] /\ claim \in [Worker -> BOOLEAN]
  /\ key \in [Worker -> Name \cup {NoName}] /\ path \in [Worker -> Name \cup {NoName}]
  /\ asked \in [Worker -> Name \cup {NoName}] /\ bucket \in [Worker -> Name \cup {NoName}]
  /\ request_time \in [Worker -> Nat] /\ found \in [Worker -> Nat]
  /\ stamp \in [Worker -> Nat] /\ code \in [Worker -> Nat]
  /\ used \in [Worker -> [path : Name \cup {NoName}, version : {0} \cup Version]]

(* Versions are numbered as they come, and each belongs to one file.        *)
Files ==
  /\ now \in 1..MaxTime /\ edits \in 0..MaxEdits
  /\ real \in [Name -> Name] /\ \A n \in Name : real[real[n]] = real[n]
  /\ mtime \in [Name -> Nat] /\ \A n \in Name : mtime[n] # 0 /\ mtime[n] <= now
  /\ version \in [Name -> Nat]
  /\ \A n \in Name : version[n] \in 1..(Cardinality(Name) + edits)
  /\ \A m, n \in Name : version[m] = version[n] => m = n
  /\ over \in [Version -> Nat]
  /\ \A n \in Name : over[version[n]] = Never
  /\ \A v \in Version : v > Cardinality(Name) + edits => over[v] = Never

(* A path has its script, and another key of it has its path.               *)
Keys ==
  /\ entry \in [Name -> [indirect : BOOLEAN, data : Name \cup Nat]]
  /\ \A k \in Name :
       /\ ~entry[k].indirect =>
            /\ entry[k].data \in 0..stored
            /\ entry[k].data # 0 => real[k] = k /\ scripts[entry[k].data].full_path = k
       /\ entry[k].indirect => entry[k].data = real[k] /\ real[k] # k

Current(s) ==
  /\ scripts[s].timestamp # 0 /\ scripts[s].timestamp < now
  /\ scripts[s].timestamp = mtime[scripts[s].full_path] =>
       scripts[s].version = version[scripts[s].full_path]

Scripts ==
  /\ stored \in Nat
  /\ scripts \in [1..stored -> [full_path : Name, timestamp : Nat, version : Version,
                    corrupted : BOOLEAN, revalidate : Nat, memory_consumption : Nat]]
  /\ \A s \in 1..stored :
       /\ real[scripts[s].full_path] = scripts[s].full_path
       /\ scripts[s].revalidate <= over[scripts[s].version] + Freq
       /\ scripts[s].revalidate <= now + Freq
       /\ ~scripts[s].corrupted => Current(s)

(* What a worker looks for is the file its name resolves to.                *)
Where(v) ==
  /\ pc[v] \in Outside => path[v] = NoName /\ claim[v] = FALSE
  /\ pc[v] \notin Outside =>
       /\ counted[v] /\ asked[v] \in Name /\ key[v] \in Name /\ real[key[v]] = real[asked[v]]
       /\ path[v] \in {NoName, real[asked[v]]} /\ (claim[v] => path[v] # NoName)
  /\ pc[v] \in {"resolve", "open", "addkey"} \cup Storing => path[v] = real[asked[v]]

Holds(v) ==
  /\ pc[v] \in {"addkey", "check", "mark", "apimark"} => found[v] \in 1..stored
  /\ pc[v] = "addkey" =>
       bucket[v] = path[v] /\ ~entry[path[v]].indirect /\ entry[path[v]].data # 0

Fresh(v) ==
  /\ request_time[v] <= now
  /\ pc[v] = "idle" => used[v] = Nothing
  /\ used[v].version # 0 => request_time[v] <= over[used[v].version] + Freq
  /\ pc[v] \in {"compile"} \cup Compiled => stamp[v] # 0 /\ stamp[v] < now
  /\ pc[v] \in Compiled =>
       /\ code[v] \in Version /\ request_time[v] <= over[code[v]]
       /\ stamp[v] = mtime[path[v]] => code[v] = version[path[v]]

Own(v) == Where(v) /\ Holds(v) /\ Fresh(v)

Sound == Typed /\ Files /\ Keys /\ Scripts /\ \A v \in Worker : Own(v)

Safe == relinks \in Nat /\ (relinks = 0 => Sound)

-----------------------------------------------------------------------------
(* The constants.                                                            *)
LEMMA Constants ==
  /\ Cardinality(Name) \in Nat /\ Never \in Nat /\ MaxTime < Never /\ Freq \in Nat
  /\ Version \subseteq Nat /\ 0 \notin Version /\ NoName \notin Name
  /\ \A v \in Nat : v \in Version <=> 1 <= v /\ v <= Cardinality(Name) + MaxEdits
<1>1. Cardinality(Name) \in Nat
  BY CacheAssumption, FS_CardinalityType
<1>2. QED BY <1>1, CacheAssumption DEF Version, Never

(* What a look-up by name returns is the script of the file.                 *)
LEMMA FindIs ==
  ASSUME Files, Keys, Scripts, NEW n \in Name
  PROVE  /\ Find(n) \in 0..stored
         /\ Find(n) # 0 =>
              /\ scripts[Find(n)].full_path = real[n]
              /\ FindEntry(real[n]) = real[n]
              /\ ~entry[real[n]].indirect /\ entry[real[n]].data # 0
<1>1. real[n] \in Name /\ real[real[n]] = real[n] /\ stored \in Nat
  BY DEF Files, Scripts
<1>2. ~entry[real[n]].indirect
  BY <1>1 DEF Keys
<1>3. CASE ~entry[n].indirect
  BY <1>1, <1>3 DEF Keys, Find, FindEntry
<1>4. CASE entry[n].indirect
  <2>1. FindEntry(n) = real[n] /\ FindEntry(real[n]) = real[n]
    BY <1>2, <1>4 DEF Keys, FindEntry
  <2>2. Find(n) = entry[real[n]].data
    BY <2>1 DEF Find
  <2>3. QED BY <1>1, <1>2, <2>1, <2>2 DEF Keys
<1>5. QED BY <1>3, <1>4

-----------------------------------------------------------------------------
(* A step of one worker leaves what another one has, the files, and the      *)
(* scripts that can be found.                                                *)
OthersKept(w) ==
  \A v \in Worker \ {w} :
    /\ pc'[v] = pc[v] /\ counted'[v] = counted[v] /\ request_time'[v] = request_time[v]
    /\ key'[v] = key[v] /\ path'[v] = path[v] /\ claim'[v] = claim[v] /\ found'[v] = found[v]
    /\ bucket'[v] = bucket[v] /\ stamp'[v] = stamp[v] /\ code'[v] = code[v]
    /\ used'[v] = used[v] /\ asked'[v] = asked[v]

FilesKept == UNCHANGED <<now, real, mtime, version, over, edits>>

TableGrows ==
  /\ stored <= stored'
  /\ \A k \in Name : ~entry[k].indirect /\ entry[k].data # 0 =>
       ~entry'[k].indirect /\ entry'[k].data # 0

TableKept == UNCHANGED <<scripts, stored, entry>>

LEMMA KeptTable ==
  ASSUME Files, Keys, Scripts, FilesKept, TableKept
  PROVE  Files' /\ Keys' /\ Scripts' /\ TableGrows
<1>1. Files'
  BY DEF Files, FilesKept
<1>2. Keys'
  BY DEF Keys, FilesKept, TableKept
<1>3. Scripts'
  BY DEF Scripts, Current, FilesKept, TableKept
<1>4. TableGrows
  BY DEF TableGrows, TableKept, Scripts
<1>5. QED BY <1>1, <1>2, <1>3, <1>4

LEMMA Others ==
  ASSUME Typed, Files, Scripts, FilesKept, Scripts', TableGrows,
         NEW w \in Worker, OthersKept(w), NEW v \in Worker \ {w}, Own(v)
  PROVE  Own(v)'
<1>1. /\ pc'[v] = pc[v] /\ counted'[v] = counted[v] /\ request_time'[v] = request_time[v]
      /\ key'[v] = key[v] /\ path'[v] = path[v] /\ claim'[v] = claim[v] /\ found'[v] = found[v]
      /\ bucket'[v] = bucket[v] /\ stamp'[v] = stamp[v] /\ code'[v] = code[v]
      /\ used'[v] = used[v] /\ asked'[v] = asked[v]
  BY DEF OthersKept
<1>2. UNCHANGED <<now, real, mtime, version, over, edits>>
  BY DEF FilesKept
<1>3. Where(v)'
  BY <1>1, <1>2 DEF Own, Where
<1>4. Holds(v)'
  <2>1. \A s \in 1..stored : s \in 1..stored'
    BY DEF Scripts, TableGrows
  <2>2. pc[v] = "addkey" => path[v] \in Name
    BY DEF Own, Where, Outside, Searching, Files
  <2>3. QED BY <1>1, <2>1, <2>2 DEF Own, Holds, TableGrows
<1>5. Fresh(v)'
  BY <1>1, <1>2 DEF Own, Fresh
<1>6. QED BY <1>3, <1>4, <1>5 DEF Own

LEMMA Finish ==
  ASSUME Sound, FilesKept, Typed', Keys', Scripts', TableGrows,
         NEW w \in Worker, OthersKept(w), Own(w)'
  PROVE  Sound'
<1>1. ASSUME NEW v \in Worker PROVE Own(v)'
  <2>1. CASE v = w
    BY <2>1
  <2>2. CASE v # w
    <3>1. v \in Worker \ {w} /\ Own(v) /\ Typed /\ Files /\ Scripts
      BY <2>2 DEF Sound
    <3>2. QED BY <3>1, Others, Zenon
  <2>3. QED BY <2>1, <2>2
<1>2. Files'
  BY DEF Sound, Files, FilesKept
<1>3. QED BY <1>1, <1>2 DEF Sound

(* A worker that executes something.                                         *)
LEMMA RunStep ==
  ASSUME Typed, FilesKept, NEW w \in Worker, NEW p \in Name, NEW v \in Version, Run(w, p, v),
         UNCHANGED <<counted, request_time, asked>>,
         request_time[w] <= now, request_time[w] <= over[v] + Freq
  PROVE  Typed' /\ OthersKept(w) /\ Own(w)'
<1>1. /\ pc' = [pc EXCEPT ![w] = "run"]
      /\ key' = [key EXCEPT ![w] = NoName]
      /\ path' = [path EXCEPT ![w] = NoName] /\ claim' = [claim EXCEPT ![w] = FALSE]
      /\ found' = [found EXCEPT ![w] = 0] /\ bucket' = [bucket EXCEPT ![w] = NoName]
      /\ stamp' = [stamp EXCEPT ![w] = 0] /\ code' = [code EXCEPT ![w] = 0]
      /\ used' = [used EXCEPT ![w] = [path |-> p, version |-> v]]
  BY DEF Run, Forget, Goto
<1>2. Typed'
  BY <1>1 DEF Typed, Outside
<1>3. OthersKept(w)
  BY <1>1 DEF Typed, OthersKept
<1>4. pc'[w] = "run" /\ path'[w] = NoName /\ claim'[w] = FALSE /\ used'[w].version = v
  BY <1>1 DEF Typed
<1>5. now' = now /\ over' = over
  BY DEF FilesKept
<1>6. Where(w)' /\ Holds(w)'
  BY <1>4 DEF Where, Holds, Outside, Storing, Compiled
<1>7. Fresh(w)'
  BY <1>4, <1>5 DEF Fresh, Compiled
<1>8. QED BY <1>2, <1>3, <1>6, <1>7 DEF Own

-----------------------------------------------------------------------------
(* The scripts and the table.                                                *)
LEMMA SameScripts ==
  ASSUME Scripts, FilesKept, stored' = stored,
         scripts' \in [1..stored -> [full_path : Name, timestamp : Nat, version : Version,
                         corrupted : BOOLEAN, revalidate : Nat, memory_consumption : Nat]],
         \A s \in 1..stored :
           /\ scripts'[s].full_path = scripts[s].full_path
           /\ scripts'[s].timestamp = scripts[s].timestamp
           /\ scripts'[s].version = scripts[s].version
           /\ scripts'[s].corrupted = scripts[s].corrupted
           /\ scripts'[s].revalidate = scripts[s].revalidate
  PROVE  Scripts'
  BY DEF Scripts, Current, FilesKept

(* Another key of a path.                                                    *)
LEMMA IndirectStep ==
  ASSUME Files, Keys, Scripts, FilesKept, stored' = stored,
         \A s \in 1..stored : scripts'[s].full_path = scripts[s].full_path,
         NEW k \in Name, NEW b \in Name, b = real[k], k # b,
         ~entry[b].indirect, entry' = HashIndirect(entry, k, b)
  PROVE  Keys' /\ TableGrows
<1>1. entry' = [entry EXCEPT ![k] = [indirect |-> TRUE, data |-> b]]
  BY DEF HashIndirect
<1>2. /\ entry'[k] = [indirect |-> TRUE, data |-> b]
      /\ \A n \in Name : n # k => entry'[n] = entry[n]
  BY <1>1 DEF Keys
<1>3. entry'[k].indirect /\ entry'[k].data = b
  BY <1>2
<1>4. real' = real /\ stored \in Nat
  BY DEF FilesKept, Scripts
<1>5. entry' \in [Name -> [indirect : BOOLEAN, data : Name \cup Nat]]
  BY <1>1 DEF Keys
<1>6. Keys'
  <2> SUFFICES ASSUME NEW n \in Name
               PROVE  /\ ~entry'[n].indirect =>
                           /\ entry'[n].data \in 0..stored'
                           /\ entry'[n].data # 0 =>
                                real'[n] = n /\ scripts'[entry'[n].data].full_path = n
                      /\ entry'[n].indirect => entry'[n].data = real'[n] /\ real'[n] # n
    BY <1>5 DEF Keys
  <2>1. CASE n = k
    BY <1>3, <1>4, <2>1
  <2>2. CASE n # k
    BY <1>2, <1>4, <2>2 DEF Keys
  <2>3. QED BY <2>1, <2>2
<1>7. \A n \in Name : ~entry[n].indirect /\ entry[n].data # 0 => n # k
  BY DEF Keys
<1>8. TableGrows
  BY <1>2, <1>4, <1>7 DEF TableGrows
<1>9. QED BY <1>6, <1>8

LEMMA AddKeyStep ==
  ASSUME Files, Keys, Scripts, FilesKept, NEW k \in Name, NEW b \in Name, b = real[k],
         ~entry[b].indirect, entry[b].data # 0, AddKey(k, b)
  PROVE  Keys' /\ Scripts' /\ TableGrows
<1>1. scripts' = scripts /\ stored' = stored
  BY DEF AddKey
<1>2. CASE entry' = entry
  BY <1>1, <1>2, KeptTable DEF TableKept
<1>3. CASE Absent(k) /\ entry' = HashIndirect(entry, k, b)
  <2>1. k # b
    BY <1>3 DEF Absent, NoEntry
  <2>2. Keys' /\ TableGrows
    BY <1>1, <1>3, <2>1, IndirectStep
  <2>3. Scripts'
    BY <1>1 DEF Scripts, Current, FilesKept
  <2>4. QED BY <2>2, <2>3
<1>4. QED BY <1>2, <1>3 DEF AddKey

(* A script is marked.                                                       *)
LEMMA MarkStep ==
  ASSUME Files, Keys, Scripts, FilesKept, UNCHANGED <<stored, entry>>, NEW s \in 1..stored,
         scripts' = [scripts EXCEPT ![s].corrupted = TRUE, ![s].timestamp = 0]
  PROVE  Keys' /\ Scripts' /\ TableGrows
<1>1. scripts' \in [1..stored -> [full_path : Name, timestamp : Nat, version : Version,
                     corrupted : BOOLEAN, revalidate : Nat, memory_consumption : Nat]]
  BY DEF Scripts
<1>2. \A t \in 1..stored :
        /\ scripts'[t].full_path = scripts[t].full_path /\ scripts'[t].version = scripts[t].version
        /\ scripts'[t].revalidate = scripts[t].revalidate
        /\ t = s => scripts'[t].corrupted
        /\ t # s => scripts'[t] = scripts[t]
  BY DEF Scripts
<1>3. Scripts'
  <2>1. UNCHANGED <<now, real, mtime, version, over, stored>>
    BY DEF FilesKept
  <2>2. ASSUME NEW t \in 1..stored
        PROVE  /\ real'[scripts'[t].full_path] = scripts'[t].full_path
               /\ scripts'[t].revalidate <= over'[scripts'[t].version] + Freq
               /\ scripts'[t].revalidate <= now' + Freq
    <3>1. /\ real[scripts[t].full_path] = scripts[t].full_path
          /\ scripts[t].revalidate <= over[scripts[t].version] + Freq
          /\ scripts[t].revalidate <= now + Freq
      BY DEF Scripts
    <3>2. QED BY <3>1, <2>1, <1>2, Zenon
  <2>3. ASSUME NEW t \in 1..stored, ~scripts'[t].corrupted PROVE Current(t)'
    <3>1. scripts'[t] = scripts[t]
      BY <2>3, <1>2
    <3>2. Current(t)
      BY <2>3, <3>1 DEF Scripts
    <3>3. QED BY <3>1, <3>2, <2>1 DEF Current
  <2>4. stored' \in Nat /\ stored' = stored
    BY <2>1 DEF Scripts
  <2>5. QED BY <1>1, <2>2, <2>3, <2>4 DEF Scripts
<1>4. Keys' /\ TableGrows
  BY <1>2 DEF Keys, Scripts, TableGrows, FilesKept
<1>5. QED BY <1>3, <1>4

(* A script is validated: what its file contains now is what it was made of. *)
LEMMA ValidIsCurrent ==
  ASSUME Files, Scripts, NEW s \in 1..stored, ~scripts[s].corrupted, NEW p \in Name, Validates(s, p)
  PROVE  /\ scripts[s].version \in Version /\ scripts[s].full_path = p
         /\ over[scripts[s].version] = Never
<1>1. /\ scripts[s].full_path = p /\ real[p] = p /\ scripts[s].timestamp = mtime[p]
  BY DEF Validates, SameFile, Scripts
<1>2. scripts[s].version = version[p]
  BY <1>1 DEF Scripts, Current
<1>3. QED BY <1>1, <1>2 DEF Files, Scripts

LEMMA RecordStep ==
  ASSUME Files, Keys, Scripts, FilesKept, UNCHANGED <<stored, entry>>, NEW w \in Worker,
         NEW s \in 1..stored, Record(w, s), over[scripts[s].version] = Never,
         request_time[w] \in Nat, request_time[w] <= now
  PROVE  Keys' /\ Scripts' /\ TableGrows
<1>1. scripts' = [scripts EXCEPT ![s].revalidate = request_time[w] + Freq]
  BY DEF Record
<1>2. request_time[w] + Freq \in Nat /\ request_time[w] + Freq <= now + Freq
  BY Constants DEF Files
<1>3. request_time[w] + Freq <= Never + Freq
  BY <1>2, Constants, CacheAssumption DEF Files
<1>4. scripts' \in [1..stored -> [full_path : Name, timestamp : Nat, version : Version,
                     corrupted : BOOLEAN, revalidate : Nat, memory_consumption : Nat]]
  BY <1>1, <1>2 DEF Scripts
<1>5. \A t \in 1..stored :
        /\ scripts'[t].full_path = scripts[t].full_path /\ scripts'[t].version = scripts[t].version
        /\ scripts'[t].timestamp = scripts[t].timestamp
        /\ scripts'[t].corrupted = scripts[t].corrupted
        /\ t = s => scripts'[t].revalidate = request_time[w] + Freq
        /\ t # s => scripts'[t].revalidate = scripts[t].revalidate
  BY <1>1 DEF Scripts
<1>6. Scripts'
  BY <1>2, <1>3, <1>4, <1>5 DEF Scripts, Current, FilesKept
<1>7. Keys' /\ TableGrows
  BY <1>5 DEF Keys, Scripts, TableGrows, FilesKept
<1>8. QED BY <1>6, <1>7

-----------------------------------------------------------------------------
(* Looking for a script.                                                     *)
LEMMA IncludeStep ==
  ASSUME Sound, NEW w \in Worker, NEW n \in Name, Include(w, n)
  PROVE  Sound'
<1>0. Typed /\ Files /\ Keys /\ Scripts /\ Where(w) /\ Fresh(w) /\ real[n] \in Name
  BY DEF Sound, Own, Files
<1>1. /\ FilesKept /\ TableKept /\ UNCHANGED <<claim, request_time, bucket, stamp, code>>
      /\ pc[w] = "run" /\ counted' = [counted EXCEPT ![w] = TRUE]
      /\ asked' = [asked EXCEPT ![w] = n] /\ key' = [key EXCEPT ![w] = n]
      /\ used' = [used EXCEPT ![w] = Nothing]
      /\ \/ /\ Find(n) # 0 /\ path' = path /\ found' = [found EXCEPT ![w] = Find(n)]
            /\ pc' = [pc EXCEPT ![w] = "check"]
         \/ /\ path' = [path EXCEPT ![w] = real[n]] /\ found' = found
            /\ pc' = [pc EXCEPT ![w] = "open"]
  BY DEF Include, Goto, FilesKept, TableKept, disk, table, past
<1>2. path[w] = NoName /\ claim[w] = FALSE
  BY <1>0, <1>1 DEF Where, Outside
<1>3. Keys' /\ Scripts' /\ TableGrows
  BY <1>0, <1>1, KeptTable
<1>4. Find(n) \in 0..stored /\ stored \in Nat /\ Find(n) \in Nat
  BY <1>0, FindIs DEF Scripts
<1>5. Nothing \in [path : Name \cup {NoName}, version : {0} \cup Version] /\ Nothing.version = 0
  BY DEF Nothing
<1>6. Typed'
  <2>1. used' \in [Worker -> [path : Name \cup {NoName}, version : {0} \cup Version]]
    BY <1>0, <1>1, <1>5 DEF Typed
  <2>2. pc' \in [Worker -> Outside \cup Searching \cup Storing]
    BY <1>0, <1>1 DEF Typed, Searching
  <2>3. /\ path' \in [Worker -> Name \cup {NoName}] /\ found' \in [Worker -> Nat]
        /\ key' \in [Worker -> Name \cup {NoName}] /\ claim' \in [Worker -> BOOLEAN]
    BY <1>0, <1>1, <1>4 DEF Typed
  <2>4. QED BY <1>0, <1>1, <2>1, <2>2, <2>3 DEF Typed
<1>7. OthersKept(w)
  BY <1>0, <1>1 DEF Typed, OthersKept
<1>8. /\ counted'[w] /\ asked'[w] = n /\ key'[w] = n /\ used'[w] = Nothing
      /\ claim'[w] = FALSE /\ request_time'[w] = request_time[w] /\ real' = real /\ now' = now
      /\ stored' = stored
      /\ \/ pc'[w] = "check" /\ path'[w] = NoName /\ found'[w] \in 1..stored
         \/ pc'[w] = "open" /\ path'[w] = real[n]
  BY <1>0, <1>1, <1>2, <1>4 DEF Typed, FilesKept, TableKept
<1>9. Where(w)' /\ Holds(w)' /\ Fresh(w)'
  BY <1>0, <1>5, <1>8 DEF Where, Holds, Fresh, Outside, Storing, Compiled
<1>10. QED BY <1>1, <1>3, <1>6, <1>7, <1>9, Finish DEF Own

LEMMA IncludeOnceStep ==
  ASSUME Sound, NEW w \in Worker, NEW n \in Name, IncludeOnce(w, n)
  PROVE  Sound'
<1>0. /\ Typed /\ Files /\ Keys /\ Scripts /\ Where(w) /\ Fresh(w)
      /\ real[n] \in Name /\ real[real[n]] = real[n] /\ NoName \notin Name
  BY Constants DEF Sound, Own, Files
<1>1. /\ FilesKept /\ TableKept /\ UNCHANGED <<request_time, bucket, stamp, code>>
      /\ pc[w] = "run" /\ counted' = [counted EXCEPT ![w] = TRUE]
      /\ asked' = [asked EXCEPT ![w] = n] /\ used' = [used EXCEPT ![w] = Nothing]
      /\ \/ /\ Find(n) # 0 /\ found' = [found EXCEPT ![w] = Find(n)]
            /\ claim' = [claim EXCEPT ![w] = TRUE]
            /\ path' = [path EXCEPT ![w] = scripts[Find(n)].full_path]
            /\ \/ key' = [key EXCEPT ![w] = scripts[Find(n)].full_path]
               \/ key' = [key EXCEPT ![w] = n]
            /\ pc' = [pc EXCEPT ![w] = "check"]
         \/ /\ path' = [path EXCEPT ![w] = real[n]] /\ key' = [key EXCEPT ![w] = n]
            /\ pc' = [pc EXCEPT ![w] = "resolve"] /\ UNCHANGED <<found, claim>>
  BY DEF IncludeOnce, Claim, Goto, FilesKept, TableKept, disk, table, past
<1>2. path[w] = NoName /\ claim[w] = FALSE
  BY <1>0, <1>1 DEF Where, Outside
<1>3. Keys' /\ Scripts' /\ TableGrows
  BY <1>0, <1>1, KeptTable
<1>4. /\ Find(n) \in 0..stored /\ stored \in Nat /\ Find(n) \in Nat
      /\ Find(n) # 0 => scripts[Find(n)].full_path = real[n]
  BY <1>0, FindIs DEF Scripts
<1>5. Nothing \in [path : Name \cup {NoName}, version : {0} \cup Version] /\ Nothing.version = 0
  BY DEF Nothing
<1>6. Typed'
  <2>1. used' \in [Worker -> [path : Name \cup {NoName}, version : {0} \cup Version]]
    BY <1>0, <1>1, <1>5 DEF Typed
  <2>2. pc' \in [Worker -> Outside \cup Searching \cup Storing]
    BY <1>0, <1>1 DEF Typed, Searching
  <2>3. path' \in [Worker -> Name \cup {NoName}]
    <3>1. path' = [path EXCEPT ![w] = real[n]]
      BY <1>1, <1>4
    <3>2. QED BY <1>0, <3>1 DEF Typed
  <2>4. key' \in [Worker -> Name \cup {NoName}]
    <3>1. key' = [key EXCEPT ![w] = real[n]] \/ key' = [key EXCEPT ![w] = n]
      BY <1>1, <1>4
    <3>2. QED BY <1>0, <3>1 DEF Typed
  <2>5. found' \in [Worker -> Nat]
    BY <1>0, <1>1, <1>4 DEF Typed
  <2>6. claim' \in [Worker -> BOOLEAN]
    BY <1>0, <1>1 DEF Typed
  <2>7. QED BY <1>0, <1>1, <2>1, <2>2, <2>3, <2>4, <2>5, <2>6 DEF Typed
<1>7. OthersKept(w)
  BY <1>0, <1>1 DEF Typed, OthersKept
<1>8. /\ counted'[w] /\ asked'[w] = n /\ used'[w] = Nothing
      /\ request_time'[w] = request_time[w] /\ real' = real /\ now' = now /\ stored' = stored
      /\ key'[w] \in {n, real[n]} /\ path'[w] = real[n]
      /\ \/ pc'[w] = "check" /\ found'[w] \in 1..stored
         \/ pc'[w] = "resolve"
  BY <1>0, <1>1, <1>2, <1>4 DEF Typed, FilesKept, TableKept
<1>9. Where(w)' /\ Holds(w)' /\ Fresh(w)'
  BY <1>0, <1>5, <1>8 DEF Where, Holds, Fresh, Outside, Storing, Compiled
<1>10. QED BY <1>1, <1>3, <1>6, <1>7, <1>9, Finish DEF Own

LEMMA ResolveStep ==
  ASSUME Sound, NEW w \in Worker, ResolveReal(w)
  PROVE  Sound'
<1>0. Typed /\ Files /\ Keys /\ Scripts /\ Where(w) /\ Fresh(w) /\ NoName \notin Name
  BY Constants DEF Sound, Own
<1>1. /\ FilesKept /\ TableKept /\ UNCHANGED <<counted, request_time, stamp, code, used, asked>>
      /\ pc[w] = "resolve"
      /\ \/ /\ Find(path[w]) # 0 /\ found' = [found EXCEPT ![w] = Find(path[w])]
            /\ claim' = [claim EXCEPT ![w] = TRUE]
            /\ path' = [path EXCEPT ![w] = scripts[Find(path[w])].full_path]
            /\ bucket' = [bucket EXCEPT ![w] = FindEntry(path[w])] /\ key' = key
            /\ pc' = [pc EXCEPT ![w] = "check"] \/ pc' = [pc EXCEPT ![w] = "addkey"]
         \/ /\ key' = [key EXCEPT ![w] = path[w]] /\ pc' = [pc EXCEPT ![w] = "open"]
            /\ UNCHANGED <<found, claim, path, bucket>>
  BY DEF ResolveReal, Claim, Goto, FilesKept, TableKept, disk, table, past
<1>2. /\ path[w] = real[asked[w]] /\ asked[w] \in Name /\ path[w] \in Name /\ real[path[w]] = path[w]
      /\ key[w] \in Name /\ real[key[w]] = real[asked[w]] /\ counted[w]
  BY <1>0, <1>1 DEF Where, Outside, Files
<1>3. Keys' /\ Scripts' /\ TableGrows
  BY <1>0, <1>1, KeptTable
<1>4. /\ Find(path[w]) \in 0..stored /\ stored \in Nat /\ Find(path[w]) \in Nat
      /\ Find(path[w]) # 0 => /\ scripts[Find(path[w])].full_path = path[w]
                              /\ FindEntry(path[w]) = path[w]
                              /\ ~entry[path[w]].indirect /\ entry[path[w]].data # 0
  <2>1. PICK n \in Name : n = path[w] /\ real[n] = n
    BY <1>2
  <2>2. /\ Find(n) \in 0..stored
        /\ Find(n) # 0 => /\ scripts[Find(n)].full_path = real[n]
                          /\ FindEntry(real[n]) = real[n]
                          /\ ~entry[real[n]].indirect /\ entry[real[n]].data # 0
    BY <1>0, FindIs
  <2>3. stored \in Nat /\ Find(n) \in Nat
    BY <1>0, <2>2 DEF Scripts
  <2>4. QED BY <2>1, <2>2, <2>3, Zenon
<1>5. Typed'
  <2>1. pc' \in [Worker -> Outside \cup Searching \cup Storing]
    BY <1>0, <1>1 DEF Typed, Searching
  <2>2. path' \in [Worker -> Name \cup {NoName}]
    <3>1. path' = path \/ path' = [path EXCEPT ![w] = path[w]]
      BY <1>1, <1>4
    <3>2. QED BY <1>0, <1>2, <3>1 DEF Typed
  <2>3. key' \in [Worker -> Name \cup {NoName}]
    BY <1>0, <1>1, <1>2 DEF Typed
  <2>4. bucket' \in [Worker -> Name \cup {NoName}]
    <3>1. bucket' = bucket \/ bucket' = [bucket EXCEPT ![w] = path[w]]
      BY <1>1, <1>4
    <3>2. QED BY <1>0, <1>2, <3>1 DEF Typed
  <2>5. found' \in [Worker -> Nat]
    BY <1>0, <1>1, <1>4 DEF Typed
  <2>6. claim' \in [Worker -> BOOLEAN]
    BY <1>0, <1>1 DEF Typed
  <2>7. QED BY <1>0, <1>1, <2>1, <2>2, <2>3, <2>4, <2>5, <2>6 DEF Typed
<1>6. OthersKept(w)
  BY <1>0, <1>1 DEF Typed, OthersKept
<1>7. /\ counted'[w] /\ asked'[w] = asked[w] /\ used'[w] = used[w] /\ over' = over
      /\ request_time'[w] = request_time[w] /\ real' = real /\ now' = now /\ stored' = stored
      /\ entry' = entry /\ key'[w] \in {key[w], path[w]} /\ path'[w] = path[w]
      /\ \/ pc'[w] \in {"check", "addkey"} /\ found'[w] \in 1..stored /\ bucket'[w] = path[w]
            /\ ~entry[path[w]].indirect /\ entry[path[w]].data # 0
         \/ pc'[w] = "open"
  BY <1>0, <1>1, <1>2, <1>4 DEF Typed, FilesKept, TableKept
<1>8. Where(w)'
  BY <1>0, <1>2, <1>7 DEF Where, Outside, Storing, Compiled
<1>9. Holds(w)'
  BY <1>7 DEF Holds
<1>10. Fresh(w)'
  BY <1>0, <1>1, <1>7 DEF Fresh, Compiled
<1>11. QED BY <1>1, <1>3, <1>5, <1>6, <1>8, <1>9, <1>10, Finish DEF Own

LEMMA LookupStep ==
  ASSUME Sound, NEW w \in Worker, LookupReal(w)
  PROVE  Sound'
<1>0. Typed /\ Files /\ Keys /\ Scripts /\ Where(w) /\ Fresh(w) /\ NoName \notin Name
  BY Constants DEF Sound, Own
<1>1. /\ FilesKept /\ TableKept
      /\ UNCHANGED <<counted, request_time, key, path, claim, stamp, code, used, asked>>
      /\ pc[w] = "open" /\ found' = [found EXCEPT ![w] = Find(path[w])]
      /\ \/ /\ Find(path[w]) = 0 /\ bucket' = [bucket EXCEPT ![w] = NoName]
            /\ pc' = [pc EXCEPT ![w] = "miss"]
         \/ /\ Find(path[w]) # 0 /\ bucket' = [bucket EXCEPT ![w] = FindEntry(path[w])]
            /\ pc' = [pc EXCEPT ![w] = "check"] \/ pc' = [pc EXCEPT ![w] = "addkey"]
  BY DEF LookupReal, Goto, FilesKept, TableKept, disk, table, past
<1>2. /\ path[w] = real[asked[w]] /\ asked[w] \in Name /\ path[w] \in Name /\ real[path[w]] = path[w]
      /\ key[w] \in Name /\ real[key[w]] = real[asked[w]] /\ counted[w]
  BY <1>0, <1>1 DEF Where, Outside, Files
<1>3. Keys' /\ Scripts' /\ TableGrows
  BY <1>0, <1>1, KeptTable
<1>4. /\ Find(path[w]) \in 0..stored /\ stored \in Nat /\ Find(path[w]) \in Nat
      /\ Find(path[w]) # 0 => /\ FindEntry(path[w]) = path[w]
                              /\ ~entry[path[w]].indirect /\ entry[path[w]].data # 0
  <2>1. PICK n \in Name : n = path[w] /\ real[n] = n
    BY <1>2
  <2>2. /\ Find(n) \in 0..stored
        /\ Find(n) # 0 => /\ FindEntry(real[n]) = real[n]
                          /\ ~entry[real[n]].indirect /\ entry[real[n]].data # 0
    BY <1>0, FindIs
  <2>3. stored \in Nat /\ Find(n) \in Nat
    BY <1>0, <2>2 DEF Scripts
  <2>4. QED BY <2>1, <2>2, <2>3, Zenon
<1>5. Typed'
  BY <1>0, <1>1, <1>2, <1>4 DEF Typed, Searching
<1>6. OthersKept(w)
  BY <1>0, <1>1 DEF Typed, OthersKept
<1>7. /\ counted'[w] /\ asked'[w] = asked[w] /\ used'[w] = used[w] /\ over' = over
      /\ request_time'[w] = request_time[w] /\ real' = real /\ now' = now /\ stored' = stored
      /\ entry' = entry /\ key'[w] = key[w] /\ path'[w] = path[w]
      /\ \/ pc'[w] \in {"check", "addkey"} /\ found'[w] \in 1..stored /\ bucket'[w] = path[w]
            /\ ~entry[path[w]].indirect /\ entry[path[w]].data # 0
         \/ pc'[w] = "miss"
  BY <1>0, <1>1, <1>2, <1>4 DEF Typed, FilesKept, TableKept
<1>8. Where(w)'
  BY <1>0, <1>2, <1>7 DEF Where, Outside, Storing, Compiled
<1>9. Holds(w)'
  BY <1>7 DEF Holds
<1>10. Fresh(w)'
  BY <1>0, <1>1, <1>7 DEF Fresh, Compiled
<1>11. QED BY <1>1, <1>3, <1>5, <1>6, <1>8, <1>9, <1>10, Finish DEF Own

LEMMA AddFoundKeyStep ==
  ASSUME Sound, NEW w \in Worker, AddFoundKey(w)
  PROVE  Sound'
<1>0. Typed /\ Files /\ Keys /\ Scripts /\ Where(w) /\ Holds(w) /\ Fresh(w) /\ NoName \notin Name
  BY Constants DEF Sound, Own
<1>1. /\ FilesKept /\ pc[w] = "addkey" /\ AddKey(key[w], bucket[w])
      /\ pc' = [pc EXCEPT ![w] = "check"]
      /\ UNCHANGED <<counted, request_time, key, path, claim, found, bucket, stamp, code, used, asked>>
  BY DEF AddFoundKey, Goto, FilesKept, disk, local, past
<1>2. /\ key[w] \in Name /\ bucket[w] = real[key[w]] /\ bucket[w] \in Name
      /\ ~entry[bucket[w]].indirect /\ entry[bucket[w]].data # 0
      /\ found[w] \in 1..stored
  BY <1>0, <1>1 DEF Where, Holds, Outside, Files
<1>3. Keys' /\ Scripts' /\ TableGrows
  BY <1>0, <1>1, <1>2, AddKeyStep
<1>4. Typed'
  BY <1>0, <1>1 DEF Typed, Searching
<1>5. OthersKept(w)
  BY <1>0, <1>1 DEF Typed, OthersKept
<1>6. pc'[w] = "check" /\ real' = real /\ now' = now /\ over' = over
  BY <1>0, <1>1 DEF Typed, FilesKept
<1>7. found'[w] \in 1..stored'
  BY <1>0, <1>1, <1>2, <1>3 DEF TableGrows, Scripts
<1>8. Where(w)' /\ Holds(w)' /\ Fresh(w)'
  BY <1>0, <1>1, <1>6, <1>7 DEF Where, Holds, Fresh, Outside, Storing, Compiled
<1>9. QED BY <1>1, <1>3, <1>4, <1>5, <1>8, Finish DEF Own

(* The path that is compared with the script's, and the one that is opened.  *)
LEMMA Paths ==
  ASSUME Files, NEW w \in Worker, Where(w), pc[w] \notin Outside
  PROVE  /\ real[asked[w]] \in Name /\ real[real[asked[w]]] = real[asked[w]]
         /\ Opened(w) = real[asked[w]] /\ Resolved(w) = real[asked[w]]
<1>1. asked[w] \in Name /\ path[w] \in {NoName, real[asked[w]]} /\ (claim[w] => path[w] # NoName)
  BY DEF Where
<1>2. real[asked[w]] \in Name /\ real[real[asked[w]]] = real[asked[w]] /\ real[asked[w]] # NoName
  BY <1>1, Constants DEF Files
<1>3. Opened(w) = real[asked[w]]
  BY <1>1, <1>2 DEF Opened
<1>4. QED BY <1>1, <1>2, <1>3 DEF Resolved

LEMMA CheckStep ==
  ASSUME Careful, Sound, NEW w \in Worker, Check(w)
  PROVE  Sound'
<1> DEFINE s == found[w]
<1>0. Typed /\ Files /\ Keys /\ Scripts /\ Where(w) /\ Holds(w) /\ Fresh(w)
  BY DEF Sound, Own
<1>1. /\ FilesKept /\ UNCHANGED <<stored, entry, counted, request_time, asked>> /\ pc[w] = "check"
      /\ \/ /\ UNCHANGED <<scripts, key, path, claim, found, bucket, stamp, code, used>>
            /\ pc' = [pc EXCEPT ![w] = "miss"] \/ pc' = [pc EXCEPT ![w] = "mark"]
         \/ StillTrusted(w, s) /\ scripts' = scripts /\ Run(w, scripts[s].full_path, scripts[s].version)
         \/ /\ ~scripts[s].corrupted /\ Validates(s, Opened(w)) /\ Record(w, s)
            /\ Run(w, scripts[s].full_path, scripts[s].version)
  BY DEF Check, Careful, Goto, FilesKept, disk, local, past
<1>2. /\ s \in 1..stored /\ Opened(w) \in Name /\ request_time[w] <= now /\ request_time[w] \in Nat
      /\ scripts[s].full_path \in Name /\ scripts[s].version \in Version
      /\ scripts[s].revalidate \in Nat /\ scripts[s].revalidate <= over[scripts[s].version] + Freq
      /\ over[scripts[s].version] \in Nat
  BY <1>0, <1>1, Paths DEF Holds, Fresh, Typed, Outside, Scripts, Files
<1>3. CASE /\ UNCHANGED <<scripts, key, path, claim, found, bucket, stamp, code, used>>
           /\ pc' = [pc EXCEPT ![w] = "miss"] \/ pc' = [pc EXCEPT ![w] = "mark"]
  <2>1. Keys' /\ Scripts' /\ TableGrows
    BY <1>0, <1>1, <1>3, KeptTable DEF TableKept
  <2>2. Typed'
    BY <1>0, <1>1, <1>3 DEF Typed, Searching
  <2>3. OthersKept(w)
    BY <1>0, <1>1, <1>3 DEF Typed, OthersKept
  <2>4. pc'[w] \in {"miss", "mark"} /\ real' = real /\ now' = now /\ over' = over
    BY <1>0, <1>1, <1>3 DEF Typed, FilesKept
  <2>5. Where(w)' /\ Holds(w)' /\ Fresh(w)'
    BY <1>0, <1>1, <1>2, <1>3, <2>4 DEF Where, Holds, Fresh, Outside, Storing, Compiled
  <2>6. QED BY <1>1, <2>1, <2>2, <2>3, <2>5, Finish DEF Own
<1>4. CASE StillTrusted(w, s) /\ scripts' = scripts /\ Run(w, scripts[s].full_path, scripts[s].version)
  <2>1. Keys' /\ Scripts' /\ TableGrows
    BY <1>0, <1>1, <1>4, KeptTable DEF TableKept
  <2>2. request_time[w] <= over[scripts[s].version] + Freq
    BY <1>2, <1>4, Constants DEF StillTrusted
  <2>3. Typed' /\ OthersKept(w) /\ Own(w)'
    BY <1>0, <1>1, <1>2, <1>4, <2>2, RunStep
  <2>4. QED BY <1>1, <2>1, <2>3, Finish
<1>5. CASE /\ ~scripts[s].corrupted /\ Validates(s, Opened(w)) /\ Record(w, s)
           /\ Run(w, scripts[s].full_path, scripts[s].version)
  <2>1. over[scripts[s].version] = Never
    BY <1>0, <1>2, <1>5, ValidIsCurrent
  <2>2. Keys' /\ Scripts' /\ TableGrows
    BY <1>0, <1>1, <1>2, <1>5, <2>1, RecordStep
  <2>3. request_time[w] <= over[scripts[s].version] + Freq
    BY <1>0, <1>2, <2>1, Constants, CacheAssumption DEF Files
  <2>4. Typed' /\ OthersKept(w) /\ Own(w)'
    BY <1>0, <1>1, <1>2, <1>5, <2>3, RunStep
  <2>5. QED BY <1>1, <2>2, <2>4, Finish
<1>6. QED BY <1>1, <1>3, <1>4, <1>5

LEMMA MarkingStep ==
  ASSUME Sound, NEW w \in Worker, Mark(w)
  PROVE  Sound'
<1>0. Typed /\ Files /\ Keys /\ Scripts /\ Where(w) /\ Holds(w) /\ Fresh(w)
  BY DEF Sound, Own
<1>1. /\ FilesKept /\ UNCHANGED <<stored, entry, counted, request_time, asked, key, path, claim,
                                 bucket, stamp, code, used>>
      /\ pc[w] \in {"mark", "apimark"} /\ found' = [found EXCEPT ![w] = 0]
      /\ \/ scripts' = scripts
         \/ scripts' = [scripts EXCEPT ![found[w]].corrupted = TRUE, ![found[w]].timestamp = 0]
      /\ pc[w] = "mark" => pc' = [pc EXCEPT ![w] = "miss"]
      /\ pc[w] = "apimark" => pc' = [pc EXCEPT ![w] = "run"]
  BY DEF Mark, Goto, FilesKept, disk, past
<1>2. found[w] \in 1..stored
  BY <1>0, <1>1 DEF Holds
<1>3. Keys' /\ Scripts' /\ TableGrows
  BY <1>0, <1>1, <1>2, KeptTable, MarkStep DEF TableKept
<1>4. Typed'
  BY <1>0, <1>1 DEF Typed, Searching, Outside
<1>5. OthersKept(w)
  BY <1>0, <1>1 DEF Typed, OthersKept
<1>6. /\ pc[w] = "mark" => pc'[w] = "miss"
      /\ pc[w] = "apimark" => pc'[w] = "run"
      /\ real' = real /\ now' = now /\ over' = over
  BY <1>0, <1>1 DEF Typed, FilesKept
<1>7. Where(w)' /\ Holds(w)' /\ Fresh(w)'
  BY <1>0, <1>1, <1>6 DEF Where, Holds, Fresh, Outside, Storing, Compiled
<1>8. QED BY <1>1, <1>3, <1>4, <1>5, <1>7, Finish DEF Own

-----------------------------------------------------------------------------
(* Opening, compiling and storing.                                           *)

(* What a file contains is current.                                          *)
LEMMA ContentIsCurrent ==
  ASSUME Files, NEW n \in Name, NEW t \in Nat, t <= now
  PROVE  version[n] \in Version /\ over[version[n]] = Never /\ t <= Never + Freq /\ t <= Never
<1>1. version[n] \in Nat /\ 1 <= version[n] /\ version[n] <= Cardinality(Name) + MaxEdits
  BY Constants, CacheAssumption DEF Files
<1>2. QED BY <1>1, Constants, CacheAssumption DEF Files

LEMMA MissStep ==
  ASSUME Sound, NEW w \in Worker, Miss(w)
  PROVE  Sound'
<1> DEFINE r == real[asked[w]]
<1>0. Typed /\ Files /\ Keys /\ Scripts /\ Where(w) /\ Fresh(w)
  BY DEF Sound, Own
<1>1. /\ FilesKept /\ TableKept /\ UNCHANGED <<counted, request_time, asked>> /\ pc[w] = "miss"
      /\ \/ Run(w, Resolved(w), version[real[Resolved(w)]])
         \/ /\ pc' = [pc EXCEPT ![w] = "stamp"] /\ path' = [path EXCEPT ![w] = Resolved(w)]
            /\ claim' = [claim EXCEPT ![w] = FALSE]
            /\ UNCHANGED <<key, found, bucket, stamp, code, used>>
  BY DEF Miss, Goto, FilesKept, TableKept, disk, table, past
<1>2. /\ r \in Name /\ real[r] = r /\ Resolved(w) = r
      /\ request_time[w] \in Nat /\ request_time[w] <= now
  BY <1>0, <1>1, Paths DEF Outside, Typed, Fresh
<1>3. Keys' /\ Scripts' /\ TableGrows
  BY <1>0, <1>1, KeptTable
<1>4. CASE Run(w, Resolved(w), version[real[Resolved(w)]])
  <2>1. version[r] \in Version /\ request_time[w] <= over[version[r]] + Freq
    BY <1>0, <1>2, ContentIsCurrent
  <2>2. Run(w, r, version[r])
    BY <1>2, <1>4
  <2>3. Typed' /\ OthersKept(w) /\ Own(w)'
    BY <1>0, <1>1, <1>2, <2>1, <2>2, RunStep
  <2>4. QED BY <1>1, <1>3, <2>3, Finish
<1>5. CASE /\ pc' = [pc EXCEPT ![w] = "stamp"] /\ path' = [path EXCEPT ![w] = Resolved(w)]
           /\ claim' = [claim EXCEPT ![w] = FALSE]
           /\ UNCHANGED <<key, found, bucket, stamp, code, used>>
  <2>1. Typed'
    BY <1>0, <1>1, <1>2, <1>5 DEF Typed, Storing
  <2>2. OthersKept(w)
    BY <1>0, <1>1, <1>5 DEF Typed, OthersKept
  <2>3. /\ pc'[w] = "stamp" /\ path'[w] = r /\ claim'[w] = FALSE
        /\ real' = real /\ now' = now /\ over' = over
    BY <1>0, <1>1, <1>2, <1>5 DEF Typed, FilesKept
  <2>4. Where(w)' /\ Holds(w)' /\ Fresh(w)'
    BY <1>0, <1>1, <1>5, <2>3 DEF Where, Holds, Fresh, Outside, Storing, Compiled
  <2>5. QED BY <1>1, <1>3, <2>1, <2>2, <2>4, Finish DEF Own
<1>6. QED BY <1>1, <1>4, <1>5

LEMMA StampStep ==
  ASSUME Careful, Sound, NEW w \in Worker, Stamp(w)
  PROVE  Sound'
<1> DEFINE t == mtime[real[path[w]]]
<1>0. Typed /\ Files /\ Keys /\ Scripts /\ Where(w) /\ Fresh(w)
  BY DEF Sound, Own
<1>1. /\ FilesKept /\ TableKept /\ UNCHANGED <<counted, request_time, asked>> /\ pc[w] = "stamp"
      /\ \/ Run(w, path[w], version[real[path[w]]])
         \/ /\ ~TooNew(w, t) /\ pc' = [pc EXCEPT ![w] = "compile"] /\ stamp' = [stamp EXCEPT ![w] = t]
            /\ UNCHANGED <<key, path, claim, found, bucket, code, used>>
  BY DEF Stamp, Careful, Goto, FilesKept, TableKept, disk, table, past
<1>2. /\ path[w] \in Name /\ real[path[w]] = path[w] /\ path[w] = real[asked[w]]
      /\ request_time[w] \in Nat /\ request_time[w] <= now
  BY <1>0, <1>1 DEF Where, Outside, Storing, Files, Typed, Fresh
<1>3. Keys' /\ Scripts' /\ TableGrows
  BY <1>0, <1>1, KeptTable
<1>4. CASE Run(w, path[w], version[real[path[w]]])
  <2>1. version[path[w]] \in Version /\ request_time[w] <= over[version[path[w]]] + Freq
    BY <1>0, <1>2, ContentIsCurrent
  <2>2. Run(w, path[w], version[path[w]])
    BY <1>2, <1>4
  <2>3. Typed' /\ OthersKept(w) /\ Own(w)'
    BY <1>0, <1>1, <1>2, <2>1, <2>2, RunStep
  <2>4. QED BY <1>1, <1>3, <2>3, Finish
<1>5. CASE /\ ~TooNew(w, t) /\ pc' = [pc EXCEPT ![w] = "compile"] /\ stamp' = [stamp EXCEPT ![w] = t]
           /\ UNCHANGED <<key, path, claim, found, bucket, code, used>>
  <2>1. t \in Nat /\ t # 0
    BY <1>0, <1>2 DEF Files
  <2>2. t < now
    <3>1. Protection \in Nat /\ Protection # 0 /\ now \in Nat
      BY <1>0, CacheAssumption DEF Careful, Files
    <3>2. ~(request_time[w] < t + Protection)
      BY <1>5, <3>1 DEF TooNew
    <3>3. QED BY <1>2, <2>1, <3>1, <3>2
  <2>3. Typed'
    BY <1>0, <1>1, <1>5, <2>1 DEF Typed, Storing
  <2>4. OthersKept(w)
    BY <1>0, <1>1, <1>5 DEF Typed, OthersKept
  <2>5. /\ pc'[w] = "compile" /\ stamp'[w] = t
        /\ real' = real /\ now' = now /\ over' = over
    BY <1>0, <1>1, <1>5 DEF Typed, FilesKept
  <2>6. Where(w)' /\ Holds(w)'
    BY <1>0, <1>1, <1>5, <2>5 DEF Where, Holds, Outside, Storing, Compiled
  <2>7. Fresh(w)'
    BY <1>0, <1>1, <1>5, <2>1, <2>2, <2>5 DEF Fresh, Compiled
  <2>8. QED BY <1>1, <1>3, <2>3, <2>4, <2>6, <2>7, Finish DEF Own
<1>6. QED BY <1>1, <1>4, <1>5

LEMMA CompileStep ==
  ASSUME Sound, NEW w \in Worker, Compile(w) \/ CompileFails(w)
  PROVE  Sound'
<1>0. Typed /\ Files /\ Keys /\ Scripts /\ Where(w) /\ Fresh(w)
  BY DEF Sound, Own
<1>1. /\ FilesKept /\ TableKept /\ UNCHANGED <<counted, request_time, asked, used>> /\ pc[w] = "compile"
  BY DEF Compile, CompileFails, FilesKept, TableKept, disk, table, past
<1>2. /\ path[w] \in Name /\ real[path[w]] = path[w] /\ path[w] = real[asked[w]]
      /\ request_time[w] \in Nat /\ request_time[w] <= now
  BY <1>0, <1>1 DEF Where, Outside, Storing, Files, Typed, Fresh
<1>3. Keys' /\ Scripts' /\ TableGrows
  BY <1>0, <1>1, KeptTable
<1>4. CASE Compile(w)
  <2>1. /\ code' = [code EXCEPT ![w] = version[path[w]]] /\ pc' = [pc EXCEPT ![w] = "store"]
        /\ UNCHANGED <<key, path, claim, found, bucket, stamp>>
    BY <1>2, <1>4 DEF Compile, Goto
  <2>2. /\ version[path[w]] \in Version /\ version[path[w]] \in Nat
        /\ request_time[w] <= over[version[path[w]]]
    BY <1>0, <1>2, ContentIsCurrent DEF Files
  <2>3. Typed'
    BY <1>0, <1>1, <2>1, <2>2 DEF Typed, Storing, Compiled
  <2>4. OthersKept(w)
    BY <1>0, <1>1, <2>1 DEF Typed, OthersKept
  <2>5. /\ pc'[w] = "store" /\ code'[w] = version[path[w]]
        /\ real' = real /\ now' = now /\ over' = over /\ version' = version /\ mtime' = mtime
    BY <1>0, <1>1, <2>1 DEF Typed, FilesKept
  <2>6. Where(w)' /\ Holds(w)'
    BY <1>0, <1>1, <2>1, <2>5 DEF Where, Holds, Outside, Storing, Compiled
  <2>7. Fresh(w)'
    BY <1>0, <1>1, <2>1, <2>2, <2>5 DEF Fresh, Compiled
  <2>8. QED BY <1>1, <1>3, <2>3, <2>4, <2>6, <2>7, Finish DEF Own
<1>5. CASE CompileFails(w)
  <2>1. /\ pc' = [pc EXCEPT ![w] = "run"]
        /\ key' = [key EXCEPT ![w] = NoName]
        /\ path' = [path EXCEPT ![w] = NoName] /\ claim' = [claim EXCEPT ![w] = FALSE]
        /\ found' = [found EXCEPT ![w] = 0] /\ bucket' = [bucket EXCEPT ![w] = NoName]
        /\ stamp' = [stamp EXCEPT ![w] = 0] /\ code' = [code EXCEPT ![w] = 0]
    BY <1>5 DEF CompileFails, Forget, Goto
  <2>2. Typed'
    BY <1>0, <1>1, <2>1 DEF Typed, Outside
  <2>3. OthersKept(w)
    BY <1>0, <1>1, <2>1 DEF Typed, OthersKept
  <2>4. pc'[w] = "run" /\ path'[w] = NoName /\ claim'[w] = FALSE /\ now' = now /\ over' = over
    BY <1>0, <1>1, <2>1 DEF Typed, FilesKept
  <2>5. Where(w)' /\ Holds(w)' /\ Fresh(w)'
    BY <1>0, <1>1, <2>4 DEF Where, Holds, Fresh, Outside, Storing, Compiled
  <2>6. QED BY <1>1, <1>3, <2>2, <2>3, <2>5, Finish DEF Own
<1>6. QED BY <1>4, <1>5

(* What a worker has compiled is executed, and was current in its request.   *)
LEMMA StoredRun ==
  ASSUME Sound, FilesKept, NEW w \in Worker, pc[w] \in Compiled, Run(w, path[w], code[w]),
         UNCHANGED <<counted, request_time, asked>>
  PROVE  Typed' /\ OthersKept(w) /\ Own(w)'
<1>0. Typed /\ Files /\ Where(w) /\ Fresh(w)
  BY DEF Sound, Own
<1>1. /\ path[w] \in Name /\ code[w] \in Version
      /\ request_time[w] \in Nat /\ request_time[w] <= now /\ request_time[w] <= over[code[w]]
  BY <1>0 DEF Where, Outside, Storing, Compiled, Files, Typed, Fresh
<1>2. over[code[w]] \in Nat
  BY <1>0, <1>1 DEF Files
<1>3. request_time[w] <= over[code[w]] + Freq
  BY <1>1, <1>2, Constants
<1>4. QED BY <1>0, <1>1, <1>3, RunStep

LEMMA StoreNothingStep ==
  ASSUME Sound, NEW w \in Worker, StoreNothing(w)
  PROVE  Sound'
<1>0. Typed /\ Files /\ Keys /\ Scripts /\ Where(w)
  BY DEF Sound, Own
<1>1. /\ FilesKept /\ UNCHANGED <<counted, request_time, asked>> /\ pc[w] = "store"
      /\ Run(w, path[w], code[w])
      /\ TableKept \/ (Find(path[w]) # 0 /\ AddKey(key[w], FindEntry(path[w])))
  BY DEF StoreNothing, StoredMeanwhile, FilesKept, TableKept, disk, table, past
<1>2. /\ path[w] \in Name /\ key[w] \in Name /\ path[w] = real[key[w]] /\ real[path[w]] = path[w]
  BY <1>0, <1>1 DEF Where, Outside, Storing, Compiled, Files
<1>3. Keys' /\ Scripts' /\ TableGrows
  <2>1. CASE TableKept
    BY <1>0, <1>1, <2>1, KeptTable
  <2>2. CASE Find(path[w]) # 0 /\ AddKey(key[w], FindEntry(path[w]))
    <3>1. FindEntry(path[w]) = path[w] /\ ~entry[path[w]].indirect /\ entry[path[w]].data # 0
      BY <1>0, <1>2, <2>2, FindIs
    <3>2. AddKey(key[w], path[w])
      BY <2>2, <3>1
    <3>3. QED BY <1>0, <1>1, <1>2, <3>1, <3>2, AddKeyStep
  <2>3. QED BY <1>1, <2>1, <2>2
<1>4. Typed' /\ OthersKept(w) /\ Own(w)'
  BY <1>1, StoredRun DEF Compiled
<1>5. QED BY <1>1, <1>3, <1>4, Finish

LEMMA StoreBeginStep ==
  ASSUME Sound, NEW w \in Worker, StoreBegin(w)
  PROVE  Sound'
<1>0. Typed /\ Files /\ Keys /\ Scripts /\ Where(w) /\ Fresh(w)
  BY DEF Sound, Own
<1>1. /\ FilesKept /\ TableKept /\ pc[w] = "store" /\ pc' = [pc EXCEPT ![w] = "publish"]
      /\ UNCHANGED <<counted, request_time, asked, used, key, path, claim, found, bucket, stamp, code>>
  BY DEF StoreBegin, Goto, FilesKept, TableKept, disk, table, local, past
<1>2. Keys' /\ Scripts' /\ TableGrows
  BY <1>0, <1>1, KeptTable
<1>3. Typed'
  BY <1>0, <1>1 DEF Typed, Storing, Compiled
<1>4. OthersKept(w)
  BY <1>0, <1>1 DEF Typed, OthersKept
<1>5. /\ pc'[w] = "publish" /\ real' = real /\ now' = now /\ over' = over /\ version' = version
      /\ mtime' = mtime
  BY <1>0, <1>1 DEF Typed, FilesKept
<1>6. Where(w)' /\ Holds(w)' /\ Fresh(w)'
  BY <1>0, <1>1, <1>5 DEF Where, Holds, Fresh, Outside, Storing, Compiled
<1>7. QED BY <1>1, <1>2, <1>3, <1>4, <1>6, Finish DEF Own

LEMMA StorePublishStep ==
  ASSUME Careful, Sound, NEW w \in Worker, StorePublish(w)
  PROVE  Sound'
<1> DEFINE p == path[w]
           new == [full_path |-> p, timestamp |-> stamp[w], version |-> code[w],
                   corrupted |-> FALSE, memory_consumption |-> 0,
                   revalidate |-> request_time[w] + Freq]
<1>0. Typed /\ Files /\ Keys /\ Scripts /\ Where(w) /\ Fresh(w)
  BY DEF Sound, Own
<1>1. /\ FilesKept /\ pc[w] = "publish" /\ pc' = [pc EXCEPT ![w] = "link"]
      /\ UNCHANGED <<counted, request_time, asked, used, key, path, claim, found, bucket, stamp, code>>
      /\ stored' = stored + 1
      /\ scripts' = [s \in 1..(stored + 1) |-> IF s <= stored THEN scripts[s] ELSE new]
      /\ entry' = HashDirect(entry, p, stored + 1)
  BY DEF StorePublish, Careful, Goto, FilesKept, disk, local, past
<1>2. /\ p \in Name /\ real[p] = p /\ code[w] \in Version /\ stamp[w] \in Nat
      /\ stamp[w] # 0 /\ stamp[w] < now /\ (stamp[w] = mtime[p] => code[w] = version[p])
      /\ request_time[w] \in Nat /\ request_time[w] <= now /\ request_time[w] <= over[code[w]]
      /\ stored \in Nat /\ over[code[w]] \in Nat
  BY <1>0, <1>1 DEF Where, Outside, Storing, Compiled, Files, Typed, Fresh, Scripts
<1>3. /\ request_time[w] + Freq \in Nat /\ request_time[w] + Freq <= now + Freq
      /\ request_time[w] + Freq <= over[code[w]] + Freq
  BY <1>0, <1>2, Constants DEF Files
<1>4. scripts' \in [1..stored' -> [full_path : Name, timestamp : Nat, version : Version,
                      corrupted : BOOLEAN, revalidate : Nat, memory_consumption : Nat]]
  <2>1. new \in [full_path : Name, timestamp : Nat, version : Version,
                 corrupted : BOOLEAN, revalidate : Nat, memory_consumption : Nat]
    BY <1>2, <1>3
  <2> HIDE DEF new
  <2>2. \A s \in 1..(stored + 1) : s <= stored => s \in 1..stored
    BY <1>2
  <2>3. QED BY <1>0, <1>1, <2>1, <2>2 DEF Scripts
<1>5. /\ stored' \in 1..stored' /\ \A s \in 1..stored' : s = stored' \/ s \in 1..stored
      /\ \A s \in 1..stored : s \in 1..stored' /\ s <= stored
  BY <1>1, <1>2
<1>6. scripts'[stored'] = new /\ \A s \in 1..stored : scripts'[s] = scripts[s]
  BY <1>1, <1>2, <1>5
<1>7. Scripts'
  <2> SUFFICES ASSUME NEW s \in 1..stored'
               PROVE  /\ real[scripts'[s].full_path] = scripts'[s].full_path
                      /\ scripts'[s].revalidate <= over[scripts'[s].version] + Freq
                      /\ scripts'[s].revalidate <= now + Freq
                      /\ ~scripts'[s].corrupted =>
                           /\ scripts'[s].timestamp # 0 /\ scripts'[s].timestamp < now
                           /\ scripts'[s].timestamp = mtime[scripts'[s].full_path] =>
                                scripts'[s].version = version[scripts'[s].full_path]
    BY <1>1, <1>2, <1>4 DEF Scripts, Current, FilesKept
  <2>1. CASE s = stored'
    <3>1. scripts'[s] = new
      BY <1>6, <2>1
    <3>2. QED BY <1>2, <1>3, <3>1
  <2>2. CASE s \in 1..stored
    BY <1>0, <1>6, <2>2 DEF Scripts, Current
  <2>3. QED BY <1>5, <2>1, <2>2
<1>8. ~entry[p].indirect
  BY <1>0, <1>2 DEF Keys
<1>9. entry' = [entry EXCEPT ![p] = [indirect |-> FALSE, data |-> stored + 1]]
  BY <1>1, <1>8 DEF HashDirect
<1>10. /\ ~entry'[p].indirect /\ entry'[p].data = stored'
       /\ \A k \in Name : k # p => entry'[k] = entry[k]
       /\ entry' \in [Name -> [indirect : BOOLEAN, data : Name \cup Nat]]
  <2> DEFINE direct == [indirect |-> FALSE, data |-> stored + 1]
  <2>1. direct \in [indirect : BOOLEAN, data : Name \cup Nat]
    BY <1>2
  <2>2. ~direct.indirect /\ direct.data = stored'
    BY <1>1
  <2>3. entry' = [entry EXCEPT ![p] = direct] /\ p \in Name
        /\ entry \in [Name -> [indirect : BOOLEAN, data : Name \cup Nat]]
    BY <1>0, <1>2, <1>9 DEF Keys
  <2> HIDE DEF direct, p
  <2>4. entry'[p] = direct /\ \A k \in Name : k # p => entry'[k] = entry[k]
    BY <2>3
  <2>5. entry' \in [Name -> [indirect : BOOLEAN, data : Name \cup Nat]]
    BY <2>1, <2>3
  <2>6. QED BY <2>2, <2>4, <2>5
<1>11. Keys'
  <2> SUFFICES ASSUME NEW k \in Name
               PROVE  /\ ~entry'[k].indirect =>
                           /\ entry'[k].data \in 0..stored'
                           /\ entry'[k].data # 0 =>
                                real'[k] = k /\ scripts'[entry'[k].data].full_path = k
                      /\ entry'[k].indirect => entry'[k].data = real'[k] /\ real'[k] # k
    BY <1>10 DEF Keys
  <2>1. real' = real
    BY <1>1 DEF FilesKept
  <2>2. CASE k = p
    BY <1>1, <1>2, <1>6, <1>10, <2>1, <2>2
  <2>3. CASE k # p
    <3>1. entry'[k] = entry[k]
      BY <1>10, <2>3
    <3>2. entry[k].data \in 0..stored => entry[k].data \in 0..stored'
      BY <1>1, <1>2
    <3>3. entry[k].data \in 0..stored /\ entry[k].data # 0 => entry[k].data \in 1..stored
      BY <1>2
    <3>4. QED BY <1>0, <1>6, <2>1, <3>1, <3>2, <3>3 DEF Keys
  <2>4. QED BY <2>2, <2>3
<1>12. TableGrows
  BY <1>1, <1>2, <1>10 DEF TableGrows
<1>13. Typed'
  BY <1>0, <1>1 DEF Typed, Storing, Compiled
<1>14. OthersKept(w)
  BY <1>0, <1>1 DEF Typed, OthersKept
<1>15. /\ pc'[w] = "link" /\ real' = real /\ now' = now /\ over' = over /\ version' = version
       /\ mtime' = mtime
  BY <1>0, <1>1 DEF Typed, FilesKept
<1>16. Where(w)' /\ Holds(w)' /\ Fresh(w)'
  BY <1>0, <1>1, <1>15 DEF Where, Holds, Fresh, Outside, Storing, Compiled
<1>17. QED BY <1>1, <1>7, <1>11, <1>12, <1>13, <1>14, <1>16, Finish DEF Own

LEMMA StoreLinkStep ==
  ASSUME Sound, NEW w \in Worker, StoreLink(w)
  PROVE  Sound'
<1>0. Typed /\ Files /\ Keys /\ Scripts /\ Where(w)
  BY DEF Sound, Own
<1>1. /\ FilesKept /\ UNCHANGED <<counted, request_time, asked, stored>> /\ pc[w] = "link"
      /\ Run(w, path[w], code[w])
      /\ scripts' = [scripts EXCEPT ![stored].memory_consumption = Consumption(w)]
      /\ entry' = entry \/ (key[w] # path[w] /\ entry' = HashIndirect(entry, key[w], path[w]))
  BY DEF StoreLink, FilesKept, disk, past
<1>2. /\ path[w] \in Name /\ key[w] \in Name /\ path[w] = real[key[w]] /\ real[path[w]] = path[w]
  BY <1>0, <1>1 DEF Where, Outside, Storing, Compiled, Files
<1>3. Consumption(w) \in Nat
  BY <1>2, CacheAssumption DEF Consumption, Size
<1>4. /\ scripts' \in [1..stored -> [full_path : Name, timestamp : Nat, version : Version,
                          corrupted : BOOLEAN, revalidate : Nat, memory_consumption : Nat]]
      /\ \A s \in 1..stored :
           /\ scripts'[s].full_path = scripts[s].full_path
           /\ scripts'[s].timestamp = scripts[s].timestamp
           /\ scripts'[s].version = scripts[s].version
           /\ scripts'[s].corrupted = scripts[s].corrupted
           /\ scripts'[s].revalidate = scripts[s].revalidate
  BY <1>0, <1>1, <1>3 DEF Scripts
<1>5. Scripts'
  BY <1>0, <1>1, <1>4, SameScripts
<1>6. Keys' /\ TableGrows
  <2>1. CASE entry' = entry
    BY <1>0, <1>1, <1>4, <2>1 DEF Keys, Scripts, TableGrows, FilesKept
  <2>2. CASE key[w] # path[w] /\ entry' = HashIndirect(entry, key[w], path[w])
    <3>1. ~entry[path[w]].indirect
      BY <1>0, <1>2 DEF Keys
    <3>2. QED BY <1>0, <1>1, <1>2, <1>4, <2>2, <3>1, IndirectStep
  <2>3. QED BY <1>1, <2>1, <2>2
<1>7. Typed' /\ OthersKept(w) /\ Own(w)'
  BY <1>1, StoredRun DEF Compiled
<1>8. QED BY <1>1, <1>5, <1>6, <1>7, Finish

-----------------------------------------------------------------------------
(* The API functions, and the ends of a request.                             *)
LEMMA InvalidateStep ==
  ASSUME Sound, NEW w \in Worker, NEW n \in Name, NEW force \in BOOLEAN, Invalidate(w, n, force)
  PROVE  Sound'
<1>0. Typed /\ Files /\ Keys /\ Scripts /\ Where(w) /\ Fresh(w) /\ real[n] \in Name
  BY DEF Sound, Own, Files
<1>1. /\ FilesKept /\ TableKept /\ pc[w] = "run" /\ Find(real[n]) # 0
      /\ UNCHANGED <<counted, request_time, key, path, claim, bucket, stamp, code, used, asked>>
      /\ found' = [found EXCEPT ![w] = Find(real[n])] /\ pc' = [pc EXCEPT ![w] = "apimark"]
  BY DEF Invalidate, Goto, FilesKept, TableKept, disk, table, past
<1>2. Keys' /\ Scripts' /\ TableGrows
  BY <1>0, <1>1, KeptTable
<1>3. Find(real[n]) \in 1..stored /\ Find(real[n]) \in Nat /\ stored' = stored
  BY <1>0, <1>1, FindIs DEF Scripts, TableKept
<1>4. Typed'
  BY <1>0, <1>1, <1>3 DEF Typed, Outside
<1>5. OthersKept(w)
  BY <1>0, <1>1 DEF Typed, OthersKept
<1>6. /\ pc'[w] = "apimark" /\ found'[w] = Find(real[n]) /\ path'[w] = NoName /\ claim'[w] = FALSE
      /\ now' = now /\ over' = over
  BY <1>0, <1>1 DEF Typed, FilesKept, Where, Outside
<1>7. Where(w)' /\ Holds(w)' /\ Fresh(w)'
  BY <1>0, <1>1, <1>3, <1>6 DEF Where, Holds, Fresh, Outside, Storing, Compiled
<1>8. QED BY <1>1, <1>2, <1>4, <1>5, <1>7, Finish DEF Own

LEMMA IsScriptCachedStep ==
  ASSUME Sound, NEW w \in Worker, NEW n \in Name, IsScriptCached(w, n)
  PROVE  Sound'
<1> DEFINE s == Find(n)
<1>0. Typed /\ Files /\ Keys /\ Scripts /\ Own(w) /\ Fresh(w) /\ real[n] \in Name
  BY DEF Sound, Own, Files
<1>1. /\ FilesKept /\ UNCHANGED <<stored, entry>> /\ s # 0 /\ ~scripts[s].corrupted
      /\ Validates(s, real[n]) /\ Record(w, s)
      /\ UNCHANGED <<pc, counted, request_time, key, path, claim, found, bucket, stamp, code,
                     used, asked>>
  BY DEF IsScriptCached, FilesKept, disk, local, past
<1>2. s \in 1..stored
  BY <1>0, <1>1, FindIs DEF Scripts
<1> HIDE DEF s
<1>3. over[scripts[s].version] = Never
  BY <1>0, <1>1, <1>2, ValidIsCurrent
<1>4. request_time[w] \in Nat /\ request_time[w] <= now
  BY <1>0 DEF Typed, Fresh
<1>5. Keys' /\ Scripts' /\ TableGrows
  BY <1>0, <1>1, <1>2, <1>3, <1>4, RecordStep
<1>6. Typed' /\ OthersKept(w)
  BY <1>0, <1>1 DEF Typed, OthersKept
<1>7. Own(w)'
  BY <1>0, <1>1 DEF Own, Where, Holds, Fresh, FilesKept
<1>8. QED BY <1>1, <1>5, <1>6, <1>7, Finish

(* A worker that has nothing left of its last request.                       *)
LEMMA IdleStep ==
  ASSUME Sound, NEW w \in Worker, FilesKept, TableKept, Typed', OthersKept(w),
         pc'[w] = "idle", path'[w] = NoName, claim'[w] = FALSE, used'[w] = Nothing,
         request_time'[w] = 0
  PROVE  Sound'
<1>1. Keys' /\ Scripts' /\ TableGrows
  BY KeptTable DEF Sound
<1>2. Nothing.version = 0 /\ now' = now /\ now \in Nat
  BY DEF Nothing, FilesKept, Sound, Files
<1>3. Where(w)' /\ Holds(w)' /\ Fresh(w)'
  BY <1>2 DEF Where, Holds, Fresh, Outside, Storing, Compiled
<1>4. QED BY <1>1, <1>3, Finish DEF Own

LEMMA EndStep ==
  ASSUME Sound, NEW w \in Worker, End(w)
  PROVE  Sound'
<1>0. Typed /\ Where(w)
  BY DEF Sound, Own
<1>1. /\ FilesKept /\ TableKept /\ pc[w] = "run" /\ pc' = [pc EXCEPT ![w] = "idle"]
      /\ counted' = [counted EXCEPT ![w] = FALSE] /\ used' = [used EXCEPT ![w] = Nothing]
      /\ asked' = [asked EXCEPT ![w] = NoName]
      /\ request_time' = [request_time EXCEPT ![w] = 0]
      /\ UNCHANGED <<key, path, claim, found, bucket, stamp, code>>
  BY DEF End, FilesKept, TableKept, disk, table, local, past
<1>2. Nothing \in [path : Name \cup {NoName}, version : {0} \cup Version]
  BY DEF Nothing
<1>3. Typed'
  BY <1>0, <1>1, <1>2 DEF Typed, Outside
<1>4. OthersKept(w)
  BY <1>0, <1>1 DEF Typed, OthersKept
<1>5. /\ pc'[w] = "idle" /\ path'[w] = NoName /\ claim'[w] = FALSE /\ used'[w] = Nothing
      /\ request_time'[w] = 0
  BY <1>0, <1>1 DEF Typed, Where, Outside
<1>6. QED BY <1>1, <1>3, <1>4, <1>5, IdleStep

LEMMA CrashStep ==
  ASSUME Sound, NEW w \in Worker, Crash(w)
  PROVE  Sound'
<1>0. Typed
  BY DEF Sound
<1>1. /\ FilesKept /\ TableKept /\ pc' = [pc EXCEPT ![w] = "idle"]
      /\ counted' = [counted EXCEPT ![w] = FALSE] /\ used' = [used EXCEPT ![w] = Nothing]
      /\ key' = [key EXCEPT ![w] = NoName] /\ asked' = [asked EXCEPT ![w] = NoName]
      /\ path' = [path EXCEPT ![w] = NoName] /\ claim' = [claim EXCEPT ![w] = FALSE]
      /\ found' = [found EXCEPT ![w] = 0] /\ bucket' = [bucket EXCEPT ![w] = NoName]
      /\ stamp' = [stamp EXCEPT ![w] = 0] /\ code' = [code EXCEPT ![w] = 0]
      /\ request_time' = [request_time EXCEPT ![w] = 0]
  BY DEF Crash, Goto, FilesKept, TableKept, disk, table, past
<1>2. Nothing \in [path : Name \cup {NoName}, version : {0} \cup Version]
  BY DEF Nothing
<1>3. Typed'
  <2>1. used' \in [Worker -> [path : Name \cup {NoName}, version : {0} \cup Version]]
    BY <1>0, <1>1, <1>2 DEF Typed
  <2>2. QED BY <1>0, <1>1, <2>1 DEF Typed, Outside
<1>4. OthersKept(w)
  BY <1>0, <1>1 DEF Typed, OthersKept
<1>5. /\ pc'[w] = "idle" /\ path'[w] = NoName /\ claim'[w] = FALSE /\ used'[w] = Nothing
      /\ request_time'[w] = 0
  BY <1>0, <1>1 DEF Typed
<1>6. QED BY <1>1, <1>3, <1>4, <1>5, IdleStep

(* A request begins, and may find that the cache is to be emptied.           *)
LEMMA BeginStep ==
  ASSUME Sound, NEW w \in Worker, Begin(w)
  PROVE  Sound'
<1>0. /\ Typed /\ Files /\ Keys /\ Scripts /\ Where(w) /\ Fresh(w)
      /\ \A v \in Worker : Own(v)
  BY DEF Sound, Own
<1>1. /\ FilesKept /\ pc[w] = "idle" /\ pc' = [pc EXCEPT ![w] = "run"]
      /\ request_time' = [request_time EXCEPT ![w] = now]
      /\ UNCHANGED <<counted, key, path, claim, found, bucket, stamp, code, used, asked>>
      /\ \/ TableKept
         \/ /\ \A v \in Worker : ~Reading(v)
            /\ scripts' = << >> /\ stored' = 0 /\ entry' = [n \in Name |-> NoEntry]
  BY DEF Begin, FilesKept, TableKept, disk, table, local, past
<1>2. now \in Nat /\ now' = now /\ over' = over /\ real' = real
  BY <1>0, <1>1 DEF Files, FilesKept
<1>3. Typed'
  BY <1>0, <1>1, <1>2 DEF Typed, Outside
<1>4. OthersKept(w)
  BY <1>0, <1>1 DEF Typed, OthersKept
<1>5. /\ pc'[w] = "run" /\ path'[w] = NoName /\ claim'[w] = FALSE /\ used'[w] = Nothing
      /\ request_time'[w] = now /\ Nothing.version = 0
  BY <1>0, <1>1 DEF Typed, Where, Fresh, Outside, Nothing
<1>6. Own(w)'
  BY <1>2, <1>5 DEF Own, Where, Holds, Fresh, Outside, Storing, Compiled
<1>7. CASE TableKept
  <2>1. Keys' /\ Scripts' /\ TableGrows
    BY <1>0, <1>1, <1>7, KeptTable
  <2>2. QED BY <1>1, <1>3, <1>4, <1>6, <2>1, Finish
<1>8. CASE /\ \A v \in Worker : ~Reading(v)
           /\ scripts' = << >> /\ stored' = 0 /\ entry' = [n \in Name |-> NoEntry]
  <2>1. Files'
    BY <1>0, <1>1 DEF Files, FilesKept
  <2>2. Keys'
    <3>1. entry' \in [Name -> [indirect : BOOLEAN, data : Name \cup Nat]]
      BY <1>8 DEF NoEntry
    <3>2. \A n \in Name : ~entry'[n].indirect /\ entry'[n].data = 0
      BY <1>8 DEF NoEntry
    <3>3. 0 \in 0..stored'
      BY <1>8
    <3>4. QED BY <3>1, <3>2, <3>3 DEF Keys
  <2>3. Scripts'
    <3>1. << >> \in [1..0 -> [full_path : Name, timestamp : Nat, version : Version,
                      corrupted : BOOLEAN, revalidate : Nat, memory_consumption : Nat]]
      OBVIOUS
    <3>2. \A s \in 1..stored' : FALSE
      BY <1>8
    <3>3. stored' \in Nat /\ stored' = 0 /\ scripts' = << >>
      BY <1>8
    <3>4. QED BY <3>1, <3>2, <3>3 DEF Scripts
  <2>4. ASSUME NEW v \in Worker, v # w PROVE Own(v)'
    <3>1. pc[v] \in {"idle", "run"}
      <4>1. ~counted[v] /\ pc[v] # "apimark"
        BY <1>8 DEF Reading
      <4>2. Where(v)
        BY <1>0 DEF Own
      <4>3. QED BY <4>1, <4>2 DEF Where, Outside
    <3>2. /\ pc'[v] = pc[v] /\ request_time'[v] = request_time[v] /\ path'[v] = path[v]
          /\ claim'[v] = claim[v] /\ used'[v] = used[v]
      BY <1>4, <2>4 DEF OthersKept
    <3>3. Where(v)' /\ Holds(v)'
      BY <1>0, <3>1, <3>2 DEF Own, Where, Holds, Outside, Storing, Compiled
    <3>4. Fresh(v)'
      BY <1>0, <1>2, <3>1, <3>2 DEF Own, Fresh, Compiled
    <3>5. QED BY <3>3, <3>4 DEF Own
  <2>5. \A v \in Worker : Own(v)'
    BY <1>6, <2>4
  <2>6. QED BY <1>3, <2>1, <2>2, <2>3, <2>5 DEF Sound
<1>9. QED BY <1>1, <1>7, <1>8

-----------------------------------------------------------------------------
(* The clock and the files.                                                  *)
WorkersKept ==
  UNCHANGED <<pc, counted, request_time, key, path, claim, found, bucket, stamp, code, used, asked>>

LEMMA TickStep ==
  ASSUME Sound, Tick
  PROVE  Sound'
<1>0. Typed /\ Files /\ Keys /\ Scripts /\ \A v \in Worker : Own(v)
  BY DEF Sound
<1>1. /\ now < MaxTime /\ now' = now + 1 /\ TableKept /\ WorkersKept
      /\ UNCHANGED <<real, mtime, version, over, edits>>
  BY DEF Tick, TableKept, WorkersKept, table, local, past
<1>2. now \in Nat /\ MaxTime \in Nat /\ now' \in 1..MaxTime /\ \A t \in Nat : t <= now => t <= now'
  BY <1>0, <1>1, CacheAssumption DEF Files
<1>3. Typed'
  BY <1>0, <1>1 DEF Typed, WorkersKept
<1>4. Files'
  BY <1>0, <1>1, <1>2 DEF Files
<1>5. Keys'
  BY <1>0, <1>1 DEF Keys, TableKept
<1>6. Scripts'
  <2>1. \A s \in 1..stored : scripts[s].revalidate \in Nat /\ scripts[s].timestamp \in Nat
    BY <1>0 DEF Scripts
  <2>2. \A s \in 1..stored : /\ scripts[s].revalidate <= now + Freq => scripts[s].revalidate <= now' + Freq
                             /\ scripts[s].timestamp < now => scripts[s].timestamp < now'
    BY <1>1, <1>2, <2>1, Constants
  <2>3. QED BY <1>0, <1>1, <2>2 DEF Scripts, Current, TableKept
<1>7. ASSUME NEW v \in Worker PROVE Own(v)'
  <2>1. Where(v)' /\ Holds(v)'
    BY <1>0, <1>1 DEF Own, Where, Holds, WorkersKept, TableKept
  <2>2. request_time[v] \in Nat /\ stamp[v] \in Nat
    BY <1>0 DEF Typed
  <2>3. /\ request_time[v] <= now => request_time[v] <= now'
        /\ stamp[v] < now => stamp[v] < now'
    BY <1>1, <1>2, <2>2
  <2>4. Fresh(v)'
    BY <1>0, <1>1, <2>3 DEF Own, Fresh, WorkersKept
  <2>5. QED BY <2>1, <2>4 DEF Own
<1>8. QED BY <1>3, <1>4, <1>5, <1>6, <1>7 DEF Sound

(* An edit: what was current until now is of an earlier second.              *)
LEMMA EditStep ==
  ASSUME Sound, NEW p \in Name, Edit(p)
  PROVE  Sound'
<1> DEFINE new == Cardinality(Name) + edits + 1
<1>0. Typed /\ Files /\ Keys /\ Scripts /\ \A v \in Worker : Own(v)
  BY DEF Sound
<1>1. /\ edits < MaxEdits /\ edits' = edits + 1 /\ TableKept /\ WorkersKept /\ UNCHANGED <<now, real>>
      /\ version' = [version EXCEPT ![p] = new] /\ mtime' = [mtime EXCEPT ![p] = now]
      /\ over' = [over EXCEPT ![version[p]] = now]
  BY DEF Edit, NewContent, TableKept, WorkersKept, table, local
<1>2. /\ now \in Nat /\ now # 0 /\ now <= MaxTime /\ edits \in Nat /\ MaxEdits \in Nat
      /\ Cardinality(Name) \in Nat /\ new \in Nat /\ new \in Version
  BY <1>0, <1>1, Constants, CacheAssumption DEF Files
<1>3. \A n \in Name : /\ version[n] \in Nat /\ version[n] < new /\ version[n] \in Version
                      /\ mtime[n] \in Nat
  BY <1>0, <1>2, CacheAssumption, Constants DEF Files
<1>4. /\ version'[p] = new /\ \A n \in Name : n # p => version'[n] = version[n] /\ mtime'[n] = mtime[n]
      /\ mtime'[p] = now
      /\ over'[version[p]] = now /\ \A v \in Version : v # version[p] => over'[v] = over[v]
  BY <1>0, <1>1, <1>3 DEF Files
<1>5. version' \in [Name -> Nat] /\ mtime' \in [Name -> Nat] /\ over' \in [Version -> Nat]
  BY <1>0, <1>1, <1>2 DEF Files
<1> HIDE DEF new
<1>6. Files'
  <2>1. \A n \in Name : mtime'[n] # 0 /\ mtime'[n] <= now
    BY <1>0, <1>2, <1>4 DEF Files
  <2>2. \A n \in Name : version'[n] \in 1..(Cardinality(Name) + edits')
    BY <1>0, <1>1, <1>2, <1>3, <1>4 DEF Files, new
  <2>3. \A m, n \in Name : version'[m] = version'[n] => m = n
    BY <1>0, <1>3, <1>4 DEF Files
  <2>4. \A n \in Name : version'[n] # version[p] /\ version'[n] \in Version
    BY <1>0, <1>2, <1>3, <1>4 DEF Files
  <2>5. \A n \in Name : over'[version'[n]] = Never
    <3> SUFFICES ASSUME NEW n \in Name PROVE over[version'[n]] = Never
      BY <1>4, <2>4
    <3>1. CASE n = p
      BY <1>0, <1>2, <1>4, <3>1 DEF Files, new
    <3>2. CASE n # p
      BY <1>0, <1>4, <3>2 DEF Files
    <3>3. QED BY <3>1, <3>2
  <2>6. \A v \in Version : v > Cardinality(Name) + edits' => over'[v] = Never
    <3> SUFFICES ASSUME NEW v \in Version, v > Cardinality(Name) + edits' PROVE over'[v] = Never
      OBVIOUS
    <3>1. v \in Nat /\ v > Cardinality(Name) + edits /\ v > new - 1
      BY <1>1, <1>2, Constants DEF new
    <3>2. v # version[p]
      BY <1>2, <1>3, <3>1
    <3>3. QED BY <1>0, <1>4, <3>1, <3>2 DEF Files
  <2>7. edits' \in 0..MaxEdits
    BY <1>1, <1>2
  <2>8. QED BY <1>0, <1>1, <1>5, <2>1, <2>2, <2>3, <2>5, <2>6, <2>7 DEF Files
<1>7. Keys'
  BY <1>0, <1>1 DEF Keys, TableKept
<1>8. Scripts'
  <2> SUFFICES ASSUME NEW s \in 1..stored
               PROVE  /\ scripts[s].revalidate <= over'[scripts[s].version] + Freq
                      /\ ~scripts[s].corrupted /\ scripts[s].timestamp = mtime'[scripts[s].full_path] =>
                           scripts[s].version = version'[scripts[s].full_path]
    BY <1>0, <1>1 DEF Scripts, Current, TableKept
  <2>1. /\ scripts[s].version \in Version /\ scripts[s].full_path \in Name
        /\ scripts[s].timestamp \in Nat
    BY <1>0 DEF Scripts
  <2>2. scripts[s].revalidate <= over'[scripts[s].version] + Freq
    <3>1. CASE scripts[s].version = version[p]
      BY <1>0, <1>4, <3>1 DEF Scripts
    <3>2. CASE scripts[s].version # version[p]
      BY <1>0, <1>4, <2>1, <3>2 DEF Scripts
    <3>3. QED BY <3>1, <3>2
  <2>3. CASE scripts[s].full_path = p
    BY <1>0, <1>2, <1>4, <2>1, <2>2, <2>3 DEF Scripts, Current
  <2>4. CASE scripts[s].full_path # p
    BY <1>0, <1>4, <2>1, <2>2, <2>4 DEF Scripts, Current
  <2>5. QED BY <2>3, <2>4
<1>9. ASSUME NEW v \in Worker PROVE Own(v)'
  <2>1. Where(v)' /\ Holds(v)'
    BY <1>0, <1>1 DEF Own, Where, Holds, WorkersKept, TableKept
  <2>2. /\ request_time[v] \in Nat /\ stamp[v] \in Nat /\ request_time[v] <= now
        /\ used[v].version # 0 => used[v].version \in Version
    BY <1>0 DEF Typed, Own, Fresh
  <2>3. used[v].version # 0 => request_time[v] <= over'[used[v].version] + Freq
    <3>1. request_time[v] <= now + Freq
      BY <1>2, <2>2, Constants
    <3>2. QED BY <1>0, <1>4, <2>2, <3>1 DEF Own, Fresh
  <2>4. pc[v] \in Compiled =>
          /\ request_time[v] <= over'[code[v]]
          /\ stamp[v] = mtime'[path[v]] => code[v] = version'[path[v]]
    <3> SUFFICES ASSUME pc[v] \in Compiled
                 PROVE  /\ request_time[v] <= over'[code[v]]
                        /\ stamp[v] = mtime'[path[v]] => code[v] = version'[path[v]]
      OBVIOUS
    <3>1. /\ code[v] \in Version /\ request_time[v] <= over[code[v]] /\ stamp[v] < now
          /\ stamp[v] = mtime[path[v]] => code[v] = version[path[v]]
      BY <1>0 DEF Own, Fresh
    <3>2. path[v] \in Name
      BY <1>0 DEF Own, Where, Files, Storing, Compiled, Outside
    <3>3. stamp[v] # now
      BY <1>2, <2>2, <3>1
    <3>4. QED BY <1>4, <2>2, <3>1, <3>2, <3>3
  <2>5. Fresh(v)'
    BY <1>0, <1>1, <2>3, <2>4 DEF Own, Fresh, WorkersKept
  <2>6. QED BY <2>1, <2>5 DEF Own
<1>10. Typed'
  BY <1>0, <1>1 DEF Typed, WorkersKept
<1>11. QED BY <1>6, <1>7, <1>8, <1>9, <1>10 DEF Sound

-----------------------------------------------------------------------------
(* The first state, and every step.                                          *)
LEMMA FirstVersions ==
  /\ FirstVersion \in [Name -> 1..Cardinality(Name)]
  /\ \A m, n \in Name : FirstVersion[m] = FirstVersion[n] => m = n
<1>1. ExistsBijection(1..Cardinality(Name), Name)
  BY CacheAssumption, FS_CardinalityType
<1>2. ExistsBijection(Name, 1..Cardinality(Name))
  BY <1>1, Fun_ExistsBijSymmetric
<1>3. PICK f \in [Name -> 1..Cardinality(Name)] : \A m, n \in Name : m # n => f[m] # f[n]
  BY <1>2 DEF ExistsBijection, Bijection, Injection, IsInjective
<1>4. /\ FirstVersion \in [Name -> 1..Cardinality(Name)]
      /\ \A m, n \in Name : m # n => FirstVersion[m] # FirstVersion[n]
  BY <1>3 DEF FirstVersion
<1>5. QED BY <1>4

LEMMA InitSound == Init => Sound
<1> SUFFICES ASSUME Init PROVE Sound
  OBVIOUS
<1>1. Typed
  BY DEF Init, Typed, Outside, Nothing
<1>2. Files
  <2>1. /\ now = 1 /\ edits = 0 /\ real = InitialReal /\ mtime = [n \in Name |-> 1]
        /\ version = FirstVersion /\ over = [v \in Version |-> Never]
    BY DEF Init
  <2>2. /\ 1 \in 1..MaxTime /\ 0 \in 0..MaxEdits /\ Never \in Nat /\ Cardinality(Name) \in Nat
        /\ MaxEdits \in Nat
    BY CacheAssumption, Constants
  <2>3. /\ version \in [Name -> Nat] /\ \A n \in Name : version[n] \in 1..(Cardinality(Name) + edits)
        /\ \A n \in Name : version[n] \in Version
        /\ \A m, n \in Name : version[m] = version[n] => m = n
    <3>1. Cardinality(Name) + edits = Cardinality(Name)
      BY <2>1, <2>2
    <3>2. 1..Cardinality(Name) \subseteq Nat /\ 1..Cardinality(Name) \subseteq Version
      BY <2>2 DEF Version
    <3>3. QED BY <2>1, <3>1, <3>2, FirstVersions
  <2>4. real \in [Name -> Name] /\ \A n \in Name : real[real[n]] = real[n]
    BY <2>1, CacheAssumption
  <2>5. over \in [Version -> Nat] /\ \A v \in Version : over[v] = Never
    BY <2>1, <2>2
  <2>6. mtime \in [Name -> Nat] /\ \A n \in Name : mtime[n] # 0 /\ mtime[n] <= now
    BY <2>1
  <2>7. QED BY <2>1, <2>2, <2>3, <2>4, <2>5, <2>6 DEF Files
<1>3. Keys
  BY DEF Init, Keys, NoEntry
<1>4. Scripts
  <2>1. << >> \in [1..0 -> [full_path : Name, timestamp : Nat, version : Version,
                    corrupted : BOOLEAN, revalidate : Nat, memory_consumption : Nat]]
    OBVIOUS
  <2>2. stored \in Nat /\ stored = 0 /\ scripts = << >> /\ \A s \in 1..stored : FALSE
    BY DEF Init
  <2>3. QED BY <2>1, <2>2 DEF Scripts
<1>5. ASSUME NEW v \in Worker PROVE Own(v)
  BY DEF Init, Own, Where, Holds, Fresh, Outside, Storing, Compiled, Nothing
<1>6. QED BY <1>1, <1>2, <1>3, <1>4, <1>5 DEF Sound

(* A step of a worker, of the clock or of an editor, while names keep their  *)
(* meaning.                                                                  *)
LEMMA SoundStep ==
  ASSUME Careful, Sound, [Next]_vars, relinks' = relinks, relinks \in Nat
  PROVE  Sound'
<1>1. ASSUME NEW w \in Worker, Begin(w) \/ End(w) \/ Crash(w)
      PROVE  Sound'
  BY <1>1, BeginStep, EndStep, CrashStep
<1>2. ASSUME NEW w \in Worker, Lookup(w)
      PROVE  Sound'
  BY <1>2, ResolveStep, LookupStep, AddFoundKeyStep, CheckStep, MarkingStep DEF Lookup
<1>3. ASSUME NEW w \in Worker, Store(w)
      PROVE  Sound'
  BY <1>3, MissStep, StampStep, CompileStep, StoreNothingStep, StoreBeginStep, StorePublishStep,
     StoreLinkStep DEF Store
<1>4. ASSUME NEW w \in Worker, NEW n \in Name, Call(w, n)
      PROVE  Sound'
  BY <1>4, IncludeStep, IncludeOnceStep, IsScriptCachedStep, InvalidateStep DEF Call
<1>5. CASE Tick
  BY <1>5, TickStep
<1>6. ASSUME NEW n \in Name, Edit(n)
      PROVE  Sound'
  BY <1>6, EditStep
<1>7. ASSUME NEW n \in Name, Unlink(n) \/ \E p \in Name : Relink(n, p)
      PROVE  Sound'
  <2>1. relinks' = relinks + 1
    BY <1>7 DEF Unlink, Relink
  <2>2. QED BY <2>1
<1>8. CASE UNCHANGED vars
  <2>1. FilesKept /\ TableKept /\ WorkersKept /\ Typed /\ Files /\ Keys /\ Scripts
        /\ \A v \in Worker : Own(v)
    BY <1>8 DEF vars, disk, table, local, past, FilesKept, TableKept, WorkersKept, Sound
  <2>2. Files' /\ Keys' /\ Scripts'
    BY <2>1, KeptTable
  <2>3. Typed'
    BY <2>1 DEF Typed, WorkersKept
  <2>4. \A v \in Worker : Own(v)'
    BY <2>1 DEF Own, Where, Holds, Fresh, WorkersKept, TableKept, FilesKept
  <2>5. QED BY <2>2, <2>3, <2>4 DEF Sound
<1>9. QED BY <1>1, <1>2, <1>3, <1>4, <1>5, <1>6, <1>7, <1>8 DEF Next

LEMMA RelinksGrow ==
  ASSUME [Next]_vars
  PROVE  relinks' = relinks \/ relinks' = relinks + 1
<1>1. ASSUME NEW w \in Worker, Begin(w) \/ End(w) \/ Crash(w) PROVE relinks' = relinks
  BY <1>1 DEF Begin, End, Crash, past
<1>2. ASSUME NEW w \in Worker, Lookup(w) PROVE relinks' = relinks
  BY <1>2 DEF Lookup, ResolveReal, LookupReal, AddFoundKey, Check, Mark, past
<1>3. ASSUME NEW w \in Worker, Store(w) PROVE relinks' = relinks
  BY <1>3 DEF Store, Miss, Stamp, Compile, CompileFails, StoreNothing, StoreBegin, StorePublish,
              StoreLink, past
<1>4. ASSUME NEW w \in Worker, NEW n \in Name, Call(w, n) PROVE relinks' = relinks
  BY <1>4 DEF Call, Include, IncludeOnce, IsScriptCached, Invalidate, past
<1>5. CASE Tick
  BY <1>5 DEF Tick, past
<1>6. ASSUME NEW n \in Name, Edit(n) \/ Unlink(n) \/ \E p \in Name : Relink(n, p)
      PROVE  relinks' = relinks \/ relinks' = relinks + 1
  BY <1>6 DEF Edit, Unlink, Relink
<1>7. CASE UNCHANGED vars
  BY <1>7 DEF vars, past
<1>8. QED BY <1>1, <1>2, <1>3, <1>4, <1>5, <1>6, <1>7 DEF Next

LEMMA SafeStep ==
  ASSUME Careful, Safe, [Next]_vars
  PROVE  Safe'
<1>1. relinks' = relinks \/ relinks' = relinks + 1
  BY RelinksGrow
<1>2. relinks \in Nat
  BY DEF Safe
<1>3. relinks' \in Nat /\ (relinks' = 0 => relinks' = relinks /\ relinks = 0)
  BY <1>1, <1>2
<1>4. relinks' = 0 => Sound'
  BY <1>2, <1>3, SoundStep DEF Safe
<1>5. QED BY <1>3, <1>4 DEF Safe

LEMMA SafeAlways ==
  ASSUME Careful
  PROVE  Spec => []Safe
<1>1. Init => Safe
  BY InitSound DEF Init, Safe
<1>2. Safe /\ [Next]_vars => Safe'
  BY SafeStep
<1>3. QED BY <1>1, <1>2, PTL DEF Spec

-----------------------------------------------------------------------------
(* The timestamps are meaningful: a live script whose timestamp is that of   *)
(* its file is what the file contains (do_validate_timestamps() compares     *)
(* nothing else).                                                            *)
THEOREM TimestampsAreMeaningful ==
  ASSUME Careful
  PROVE  Spec => [](relinks = 0 => StoredIsCurrent)
<1>1. Safe => (relinks = 0 => StoredIsCurrent)
  BY DEF Safe, Sound, Scripts, Current, StoredIsCurrent, Live
<1>2. QED BY <1>1, SafeAlways, PTL

(* What a request executes was the file's content no longer than             *)
(* revalidate_freq before the request began, whichever of the ways through   *)
(* persistent_compile_file() and persistent_zend_resolve_path() it came.     *)
THEOREM StalenessIsBounded ==
  ASSUME Careful
  PROVE  Spec => [](relinks = 0 => BoundedStaleness)
<1>1. Safe => (relinks = 0 => BoundedStaleness)
  <2> SUFFICES ASSUME Safe, relinks = 0, NEW w \in Worker, used[w].version # 0
               PROVE  over[used[w].version] + Freq >= request_time[w]
    BY DEF BoundedStaleness
  <2>1. /\ request_time[w] <= over[used[w].version] + Freq /\ request_time[w] \in Nat
        /\ used[w].version \in Version /\ over \in [Version -> Nat]
    BY DEF Safe, Sound, Own, Fresh, Typed, Files
  <2>2. over[used[w].version] \in Nat
    BY <2>1
  <2>3. over[used[w].version] + Freq \in Nat
    BY <2>2, CacheAssumption
  <2>4. QED BY <2>1, <2>3
<1>2. QED BY <1>1, SafeAlways, PTL

-----------------------------------------------------------------------------
(* A memory declared exhausted while too much of it is wasted is scheduled   *)
(* to be emptied, in every state: each of the places that declares it tests  *)
(* the waste (zend_accel_schedule_restart_if_necessary), and marking a       *)
(* script tests it again.                                                    *)
THEOREM ExhaustionLeadsToRestart == Spec => []ExhaustionSchedules
<1> DEFINE wasteKept == wasted' = wasted /\ memory_exhausted' = memory_exhausted
                        /\ restart_pending' = restart_pending
           scheduled == wasted' = wasted /\ Schedule
<1>1. Init => ExhaustionSchedules
  BY DEF Init, ExhaustionSchedules
<1>2. ExhaustionSchedules /\ [Next]_vars => ExhaustionSchedules'
  <2> SUFFICES ASSUME ExhaustionSchedules, [Next]_vars PROVE ExhaustionSchedules'
    OBVIOUS
  <2>1. wasteKept \/ scheduled => ExhaustionSchedules'
    <3>1. CASE wasteKept
      BY <3>1 DEF ExhaustionSchedules
    <3>2. CASE scheduled
      <4>1. wasted' = wasted /\ restart_pending' = (restart_pending \/ wasted >= WastedLimit)
        BY <3>2, Zenon DEF Schedule, TooMuchWasted
      <4>2. wasted' >= WastedLimit => restart_pending'
        <5>1. ASSUME wasted' >= WastedLimit PROVE restart_pending' = TRUE
          BY <4>1, <5>1, Zenon
        <5>2. QED BY <5>1
      <4>3. QED BY <4>2, Zenon DEF ExhaustionSchedules
    <3>3. QED BY <3>1, <3>2
  <2>2. ASSUME NEW k, NEW b, AddKey(k, b) PROVE wasteKept \/ scheduled
    BY <2>2 DEF AddKey
  <2>3. ASSUME NEW w \in Worker, Begin(w) PROVE ExhaustionSchedules'
    BY <2>3 DEF Begin, memory, ExhaustionSchedules
  <2>4. ASSUME NEW w \in Worker, End(w) \/ Crash(w) PROVE wasteKept
    BY <2>4 DEF End, Crash, memory
  <2>5. ASSUME NEW w \in Worker, Mark(w) PROVE ExhaustionSchedules'
    <3>1. memory_exhausted' = memory_exhausted
      BY <2>5 DEF Mark
    <3>2. CASE wasted' = wasted /\ restart_pending' = restart_pending
      BY <2>1, <3>1, <3>2
    <3>3. CASE restart_pending' = (restart_pending \/ (memory_exhausted /\ TooMuchWasted(wasted')))
      BY <3>1, <3>3 DEF ExhaustionSchedules, TooMuchWasted
    <3>4. QED BY <2>5, <3>2, <3>3 DEF Mark
  <2>6. ASSUME NEW w \in Worker, Lookup(w) PROVE ExhaustionSchedules'
    <3>1. AddFoundKey(w) => AddKey(key[w], bucket[w])
      BY DEF AddFoundKey
    <3>2. ResolveReal(w) \/ LookupReal(w) \/ Check(w) => wasteKept
      BY DEF ResolveReal, LookupReal, Check, memory
    <3>3. QED BY <2>1, <2>2, <2>5, <2>6, <3>1, <3>2 DEF Lookup
  <2>7. ASSUME NEW w \in Worker, Store(w) PROVE ExhaustionSchedules'
    <3>1. StoreNothing(w) => wasteKept \/ scheduled
      <4> SUFFICES ASSUME StoreNothing(w) PROVE wasteKept \/ scheduled
        OBVIOUS
      <4>1. \/ wasted' = wasted /\ Schedule
            \/ UNCHANGED memory
            \/ AddKey(key[w], FindEntry(path[w]))
        BY DEF StoreNothing
      <4>2. QED BY <2>2, <4>1 DEF memory
    <3>2. StoreLink(w) => wasteKept \/ scheduled
      BY DEF StoreLink
    <3>3. (Miss(w) \/ Stamp(w) \/ Compile(w) \/ CompileFails(w) \/ StoreBegin(w)
           \/ StorePublish(w)) => wasteKept
      BY DEF Miss, Stamp, Compile, CompileFails, StoreBegin, StorePublish, memory
    <3>4. QED BY <2>1, <2>7, <3>1, <3>2, <3>3 DEF Store
  <2>8. ASSUME NEW w \in Worker, NEW n \in Name, Call(w, n) PROVE wasteKept
    BY <2>8 DEF Call, Include, IncludeOnce, IsScriptCached, Invalidate, memory
  <2>9. CASE Tick
    BY <2>1, <2>9 DEF Tick, memory
  <2>10. ASSUME NEW n \in Name, Edit(n) \/ Unlink(n) \/ \E p \in Name : Relink(n, p)
         PROVE  wasteKept
    BY <2>10 DEF Edit, Unlink, Relink, memory
  <2>11. CASE UNCHANGED vars
    BY <2>1, <2>11 DEF vars, memory
  <2>12. QED
    BY <2>1, <2>3, <2>4, <2>6, <2>7, <2>8, <2>9, <2>10, <2>11 DEF Next
<1>3. QED BY <1>1, <1>2, PTL DEF Spec

-----------------------------------------------------------------------------
(* One live script of a file.  A live script is the one its path leads to.   *)
(* A worker that has allocated a script to enter holds the lock, and nothing *)
(* else enters or leaves until it has.                                       *)
Entering == {"publish", "link"}

Single ==
  /\ \A v \in Worker : pc[v] \in Entering => lock = v
  /\ \A v \in Worker : pc[v] = "publish" => \A s \in Live : scripts[s].full_path # path[v]
  /\ \A s \in Live : entry[scripts[s].full_path].data = s

(* What the steps that enter nothing have in common.                         *)
NothingEntered ==
  /\ stored' = stored /\ real' = real
  /\ \A s \in 1..stored : /\ scripts'[s].full_path = scripts[s].full_path
                          /\ scripts[s].corrupted => scripts'[s].corrupted
  /\ \A n \in Name : real[n] = n => entry'[n] = entry[n]

NobodyEnters ==
  \A v \in Worker : pc'[v] \in Entering =>
    pc[v] = pc'[v] /\ path'[v] = path[v] /\ lock' = lock

LEMMA SingleKept ==
  ASSUME Sound, Single, NothingEntered, NobodyEnters
  PROVE  Single'
<1>1. Live' \subseteq Live
  BY DEF Live, NothingEntered
<1>2. \A s \in Live : /\ scripts[s].full_path \in Name /\ scripts'[s].full_path = scripts[s].full_path
                      /\ real[scripts[s].full_path] = scripts[s].full_path
  BY DEF Sound, Scripts, Live, NothingEntered
<1>3. \A v \in Worker : pc'[v] \in Entering => lock' = v
  BY DEF Single, NobodyEnters
<1>4. \A v \in Worker : pc'[v] = "publish" => \A s \in Live' : scripts'[s].full_path # path'[v]
  BY <1>1, <1>2 DEF Single, NobodyEnters, Entering
<1>5. \A s \in Live' : entry'[scripts'[s].full_path].data = s
  BY <1>1, <1>2 DEF Single, NothingEntered
<1>6. QED BY <1>3, <1>4, <1>5 DEF Single

(* A key of a path is not a path of its own.                                 *)
LEMMA AddedKey ==
  ASSUME Sound, NEW k \in Name, NEW b \in Name, b = real[k], k # b, real' = real,
         stored' = stored, entry' = HashIndirect(entry, k, b),
         \A s \in 1..stored : /\ scripts'[s].full_path = scripts[s].full_path
                              /\ scripts'[s].corrupted = scripts[s].corrupted
  PROVE  NothingEntered
<1>1. /\ ~entry[b].indirect /\ entry \in [Name -> [indirect : BOOLEAN, data : Name \cup Nat]]
  BY DEF Sound, Keys, Files
<1>2. entry' = [entry EXCEPT ![k] = [indirect |-> TRUE, data |-> b]]
  BY <1>1 DEF HashIndirect
<1>3. \A n \in Name : n # k => entry'[n] = entry[n]
  BY <1>1, <1>2
<1>4. QED BY <1>3 DEF NothingEntered

LEMMA AddKeyEntersNothing ==
  ASSUME Sound, NEW k \in Name, NEW b \in Name, b = real[k], entry[b].data # 0, real' = real,
         AddKey(k, b)
  PROVE  NothingEntered
<1>1. scripts' = scripts /\ stored' = stored
  BY DEF AddKey
<1>2. CASE entry' = entry
  BY <1>1, <1>2 DEF NothingEntered
<1>3. CASE Absent(k) /\ entry' = HashIndirect(entry, k, b)
  <2>1. k # b
    BY <1>3 DEF Absent, NoEntry
  <2>2. QED BY <1>1, <1>3, <2>1, AddedKey
<1>4. QED BY <1>2, <1>3 DEF AddKey

LEMMA SingleLookup ==
  ASSUME Sound, Single, NEW w \in Worker, Lookup(w)
  PROVE  Single'
<1>0. Typed /\ Files /\ Keys /\ Scripts /\ Where(w) /\ Holds(w)
  BY DEF Sound, Own
<1>1. NobodyEnters
  <2>1. /\ lock' = lock
        /\ \E x \in {"check", "addkey", "open", "miss", "mark", "run"} : pc' = [pc EXCEPT ![w] = x]
        /\ \A v \in Worker : v # w => path'[v] = path[v]
    <3>1. CASE ResolveReal(w)
      <4>1. path' = path \/ \E p : path' = [path EXCEPT ![w] = p]
        BY <3>1 DEF ResolveReal, Claim
      <4>2. QED BY <1>0, <3>1, <4>1 DEF ResolveReal, Goto, Typed
    <3>2. CASE LookupReal(w)
      BY <3>2 DEF LookupReal, Goto
    <3>3. CASE AddFoundKey(w)
      BY <3>3 DEF AddFoundKey, Goto, local
    <3>4. CASE Check(w)
      <4>1. path' = path \/ \E p : path' = [path EXCEPT ![w] = p]
        BY <3>4 DEF Check, Run, Forget, local
      <4>2. QED BY <1>0, <3>4, <4>1 DEF Check, Run, Forget, Goto, Typed
    <3>5. CASE Mark(w)
      BY <3>5 DEF Mark, Goto
    <3>6. QED BY <3>1, <3>2, <3>3, <3>4, <3>5 DEF Lookup
  <2>2. QED BY <1>0, <2>1 DEF NobodyEnters, Entering, Typed
<1>2. NothingEntered
  <2>1. CASE ResolveReal(w) \/ LookupReal(w)
    BY <2>1 DEF ResolveReal, LookupReal, NothingEntered, table, disk
  <2>2. CASE AddFoundKey(w)
    <3>1. /\ pc[w] = "addkey" /\ AddKey(key[w], bucket[w]) /\ real' = real
      BY <2>2 DEF AddFoundKey, disk
    <3>2. /\ key[w] \in Name /\ bucket[w] \in Name /\ bucket[w] = real[key[w]]
          /\ entry[bucket[w]].data # 0
      BY <1>0, <3>1 DEF Where, Holds, Outside, Files
    <3>3. QED BY <3>1, <3>2, AddKeyEntersNothing
  <2>3. CASE Check(w)
    <3>1. /\ scripts' = scripts \/ Record(w, found[w])
          /\ UNCHANGED <<stored, entry, real>>
      BY <2>3 DEF Check, disk
    <3>2. QED BY <1>0, <3>1 DEF Record, Scripts, NothingEntered
  <2>4. CASE Mark(w)
    <3>1. /\ \/ scripts' = scripts
             \/ scripts' = [scripts EXCEPT ![found[w]].corrupted = TRUE, ![found[w]].timestamp = 0]
          /\ UNCHANGED <<stored, entry, real>>
      BY <2>4 DEF Mark, disk
    <3>2. QED BY <1>0, <3>1 DEF Scripts, NothingEntered
  <2>5. QED BY <2>1, <2>2, <2>3, <2>4 DEF Lookup
<1>3. QED BY <1>1, <1>2, SingleKept

(* A worker that leaves, or never comes to, the end of storing.              *)
LEMMA SingleMiss ==
  ASSUME Sound, Single, NEW w \in Worker,
         Miss(w) \/ Stamp(w) \/ Compile(w) \/ CompileFails(w) \/ StoreNothing(w)
  PROVE  Single'
<1>0. Typed /\ Files /\ Keys /\ Scripts /\ Where(w)
  BY DEF Sound, Own
<1>1. /\ lock' = lock
      /\ \E x \in {"stamp", "compile", "store", "run"} : pc' = [pc EXCEPT ![w] = x]
      /\ path' = path \/ \E p : path' = [path EXCEPT ![w] = p]
  <2>1. CASE Miss(w)
    BY <2>1 DEF Miss, Run, Forget, Goto
  <2>2. CASE Stamp(w)
    BY <2>2 DEF Stamp, Run, Forget, Goto
  <2>3. CASE Compile(w) \/ CompileFails(w)
    BY <2>3 DEF Compile, CompileFails, Forget, Goto
  <2>4. CASE StoreNothing(w)
    BY <2>4 DEF StoreNothing, Run, Forget, Goto
  <2>5. QED BY <2>1, <2>2, <2>3, <2>4
<1>2. NobodyEnters
  BY <1>0, <1>1 DEF NobodyEnters, Entering, Typed
<1>3. NothingEntered
  <2>1. CASE Miss(w) \/ Stamp(w) \/ Compile(w) \/ CompileFails(w)
    BY <2>1 DEF Miss, Stamp, Compile, CompileFails, NothingEntered, table, disk
  <2>2. CASE StoreNothing(w)
    <3>1. /\ pc[w] = "store" /\ real' = real
          /\ \/ UNCHANGED table
             \/ Find(path[w]) # 0 /\ AddKey(key[w], FindEntry(path[w]))
      BY <2>2 DEF StoreNothing, StoredMeanwhile, disk
    <3>2. /\ path[w] \in Name /\ key[w] \in Name /\ real[key[w]] = path[w] /\ real[path[w]] = path[w]
      BY <1>0, <3>1 DEF Where, Outside, Storing, Compiled, Files
    <3>3. FindEntry(path[w]) = path[w] /\ Find(path[w]) = entry[path[w]].data
      BY <1>0, <3>2 DEF Keys, Find, FindEntry
    <3>4. CASE UNCHANGED table
      BY <3>1, <3>4 DEF table, NothingEntered
    <3>5. CASE Find(path[w]) # 0 /\ AddKey(key[w], FindEntry(path[w]))
      BY <3>1, <3>2, <3>3, <3>5, AddKeyEntersNothing
    <3>6. QED BY <3>1, <3>4, <3>5
  <2>3. QED BY <2>1, <2>2
<1>4. QED BY <1>2, <1>3, SingleKept

LEMMA SingleStoreBegin ==
  ASSUME Sound, Single, NEW w \in Worker, StoreBegin(w)
  PROVE  Single'
<1>0. Typed /\ Files /\ Keys /\ Scripts /\ Where(w)
  BY DEF Sound, Own
<1>1. /\ pc[w] = "store" /\ lock = NoWorker /\ lock' = w /\ pc' = [pc EXCEPT ![w] = "publish"]
      /\ ~StoredMeanwhile(Find(path[w])) /\ path' = path
      /\ scripts' = scripts /\ stored' = stored /\ entry' = entry
  BY DEF StoreBegin, Goto, table, local
<1>2. path[w] \in Name /\ real[path[w]] = path[w]
  BY <1>0, <1>1 DEF Where, Outside, Storing, Compiled, Files
<1>3. Find(path[w]) = entry[path[w]].data
  BY <1>0, <1>2 DEF Keys, Find, FindEntry
<1>4. ASSUME NEW s \in Live, scripts[s].full_path = path[w] PROVE FALSE
  <2>1. entry[path[w]].data = s /\ s # 0 /\ ~scripts[s].corrupted
    BY <1>0, <1>4 DEF Single, Live, Scripts
  <2>2. QED BY <1>1, <1>3, <2>1 DEF StoredMeanwhile
<1>5. \A v \in Worker : pc'[v] \in Entering => v = w
  BY <1>0, <1>1, CacheAssumption DEF Single, Typed
<1>6. Live' = Live
  BY <1>1 DEF Live
<1>7. QED BY <1>1, <1>4, <1>5, <1>6 DEF Single, Entering

LEMMA SingleStorePublish ==
  ASSUME Sound, Single, NEW w \in Worker, StorePublish(w)
  PROVE  Single'
<1> DEFINE p == path[w]
<1>0. Typed /\ Files /\ Keys /\ Scripts /\ Where(w)
  BY DEF Sound, Own
<1>1. /\ pc[w] = "publish" /\ pc' = [pc EXCEPT ![w] = "link"] /\ lock' = lock /\ path' = path
      /\ stored' = stored + 1 /\ entry' = HashDirect(entry, p, stored + 1)
      /\ \A s \in 1..stored : s \in 1..(stored + 1) => scripts'[s] = scripts[s]
      /\ stored + 1 \in 1..(stored + 1) => scripts'[stored + 1].full_path = p
  <2>1. stored \in Nat /\ (\A s \in 1..stored : s <= stored) /\ ~(stored + 1 <= stored)
    BY <1>0 DEF Scripts
  <2>2. QED BY <2>1 DEF StorePublish, Goto, local
<1>2. p \in Name /\ real[p] = p /\ stored \in Nat
  BY <1>0, <1>1 DEF Where, Outside, Storing, Compiled, Files, Scripts
<1>3. /\ stored + 1 \in Nat /\ stored + 1 \in 1..(stored + 1)
      /\ \A s \in 1..stored : s \in 1..(stored + 1)
      /\ \A s \in 1..(stored + 1) : s = stored + 1 \/ s \in 1..stored
  BY <1>2
<1>4. ~entry[p].indirect /\ entry \in [Name -> [indirect : BOOLEAN, data : Name \cup Nat]]
  BY <1>0, <1>2 DEF Keys
<1>5. entry' = [entry EXCEPT ![p] = [indirect |-> FALSE, data |-> stored + 1]]
  BY <1>1, <1>4 DEF HashDirect
<1>6. entry'[p].data = stored + 1 /\ \A n \in Name : n # p => entry'[n] = entry[n]
  BY <1>2, <1>4, <1>5
<1>7. \A v \in Worker : pc'[v] \in Entering => v = w
  BY <1>0, <1>1 DEF Single, Typed, Entering
<1>8. \A v \in Worker : pc'[v] \in Entering => lock' = v
  BY <1>1, <1>7 DEF Single, Entering
<1>9. \A v \in Worker : pc'[v] # "publish"
  BY <1>0, <1>1, <1>7 DEF Typed, Entering
<1>10. ASSUME NEW s \in Live' PROVE entry'[scripts'[s].full_path].data = s
  <2>1. CASE s = stored + 1
    BY <1>1, <1>3, <1>6, <2>1
  <2>2. CASE s \in 1..stored
    <3>1. scripts'[s] = scripts[s] /\ scripts[s].full_path \in Name
      BY <1>0, <1>1, <1>3, <2>2 DEF Scripts
    <3>2. s \in Live
      BY <1>10, <2>2, <3>1 DEF Live
    <3>3. scripts[s].full_path # p /\ entry[scripts[s].full_path].data = s
      BY <1>1, <3>2 DEF Single
    <3>4. QED BY <1>6, <3>1, <3>3
  <2>3. QED BY <1>1, <1>3, <2>1, <2>2 DEF Live
<1>11. QED BY <1>8, <1>9, <1>10 DEF Single

LEMMA SingleStoreLink ==
  ASSUME Sound, Single, NEW w \in Worker, StoreLink(w)
  PROVE  Single'
<1>0. Typed /\ Files /\ Keys /\ Scripts /\ Where(w)
  BY DEF Sound, Own
<1>1. /\ pc[w] = "link" /\ pc' = [pc EXCEPT ![w] = "run"] /\ stored' = stored /\ real' = real
      /\ scripts' = [scripts EXCEPT ![stored].memory_consumption = Consumption(w)]
      /\ entry' = entry \/ (key[w] # path[w] /\ entry' = HashIndirect(entry, key[w], path[w]))
  BY DEF StoreLink, Run, Forget, Goto, disk
<1>2. NobodyEnters
  <2>1. \A v \in Worker : pc'[v] \in Entering => FALSE
    BY <1>0, <1>1 DEF Single, Typed, Entering
  <2>2. QED BY <2>1 DEF NobodyEnters
<1>3. path[w] \in Name /\ key[w] \in Name /\ path[w] = real[key[w]]
  BY <1>0, <1>1 DEF Where, Outside, Storing, Compiled, Files
<1>4. \A s \in 1..stored : /\ scripts'[s].full_path = scripts[s].full_path
                           /\ scripts'[s].corrupted = scripts[s].corrupted
  BY <1>0, <1>1 DEF Scripts
<1>5. NothingEntered
  <2>1. CASE entry' = entry
    BY <1>1, <1>4, <2>1 DEF NothingEntered
  <2>2. CASE key[w] # path[w] /\ entry' = HashIndirect(entry, key[w], path[w])
    BY <1>1, <1>3, <1>4, <2>2, AddedKey
  <2>3. QED BY <1>1, <2>1, <2>2
<1>6. QED BY <1>2, <1>5, SingleKept

LEMMA SingleCall ==
  ASSUME Sound, Single, NEW w \in Worker, NEW n \in Name, Call(w, n)
  PROVE  Single'
<1>0. Typed /\ Files /\ Keys /\ Scripts
  BY DEF Sound
<1>1. CASE Include(w, n) \/ IncludeOnce(w, n) \/ \E force \in BOOLEAN : Invalidate(w, n, force)
  <2>1. NothingEntered
    BY <1>1 DEF Include, IncludeOnce, Invalidate, NothingEntered, table, disk
  <2>2. /\ lock' = lock
        /\ \E x \in {"check", "open", "resolve", "apimark"} : pc' = [pc EXCEPT ![w] = x]
        /\ path' = path \/ \E p : path' = [path EXCEPT ![w] = p]
    <3>1. CASE Include(w, n)
      BY <3>1 DEF Include, Goto
    <3>2. CASE IncludeOnce(w, n)
      BY <3>2 DEF IncludeOnce, Claim, Goto
    <3>3. CASE \E force \in BOOLEAN : Invalidate(w, n, force)
      BY <3>3 DEF Invalidate, Goto
    <3>4. QED BY <1>1, <3>1, <3>2, <3>3
  <2>3. NobodyEnters
    BY <1>0, <2>2 DEF NobodyEnters, Entering, Typed
  <2>4. QED BY <2>1, <2>3, SingleKept
<1>2. CASE IsScriptCached(w, n)
  <2>1. Record(w, Find(n)) /\ UNCHANGED <<stored, entry, real, pc, path, lock>>
    BY <1>2 DEF IsScriptCached, disk, local
  <2>2. NothingEntered /\ NobodyEnters
    BY <1>0, <2>1 DEF NothingEntered, NobodyEnters, Record, Scripts
  <2>3. QED BY <2>2, SingleKept
<1>3. QED BY <1>1, <1>2 DEF Call

LEMMA SingleRequest ==
  ASSUME Sound, Single, NEW w \in Worker, Begin(w) \/ End(w) \/ Crash(w)
  PROVE  Single'
<1>0. Typed /\ Files /\ Keys /\ Scripts /\ \A v \in Worker : Where(v)
  BY DEF Sound, Own
<1>1. /\ \E x \in {"run", "idle"} : pc' = [pc EXCEPT ![w] = x]
      /\ path' = path \/ \E p : path' = [path EXCEPT ![w] = p]
      /\ lock' = lock \/ lock = w
      /\ real' = real
  <2>1. CASE Begin(w)
    BY <2>1 DEF Begin, local, disk
  <2>2. CASE End(w)
    BY <2>2 DEF End, local, disk
  <2>3. CASE Crash(w)
    BY <2>3 DEF Crash, Goto, disk
  <2>4. QED BY <2>1, <2>2, <2>3
<1>2. NobodyEnters
  <2> SUFFICES ASSUME NEW v \in Worker, pc'[v] \in Entering
               PROVE  pc[v] = pc'[v] /\ path'[v] = path[v] /\ lock' = lock
    BY DEF NobodyEnters
  <2>1. v # w /\ pc'[v] = pc[v] /\ path'[v] = path[v]
    BY <1>0, <1>1 DEF Entering, Typed
  <2>2. lock = v
    BY <2>1 DEF Single
  <2>3. QED BY <1>1, <2>1, <2>2
<1>3. CASE UNCHANGED table
  BY <1>1, <1>2, <1>3, SingleKept DEF table, NothingEntered
<1>4. CASE stored' = 0 /\ \A v \in Worker : ~Reading(v)
  <2>1. Live' = {}
    BY <1>4 DEF Live
  <2>2. \A v \in Worker : pc'[v] \notin Entering
    <3> SUFFICES ASSUME NEW v \in Worker, pc'[v] \in Entering PROVE FALSE
      OBVIOUS
    <3>1. pc[v] \in Entering
      BY <1>2 DEF NobodyEnters
    <3>2. counted[v]
      BY <1>0, <3>1 DEF Where, Outside, Entering
    <3>3. QED BY <1>4, <3>2 DEF Reading
  <2>3. QED BY <2>1, <2>2 DEF Single, Entering
<1>5. QED BY <1>3, <1>4 DEF Begin, End, Crash

LEMMA SingleStep ==
  ASSUME Sound, Single, [Next]_vars, relinks' = relinks, relinks \in Nat
  PROVE  Single'
<1>1. ASSUME NEW w \in Worker, Store(w)
      PROVE  Single'
  BY <1>1, SingleMiss, SingleStoreBegin, SingleStorePublish, SingleStoreLink DEF Store
<1>2. ASSUME NEW n \in Name, Unlink(n) \/ \E p \in Name : Relink(n, p)
      PROVE  Single'
  <2>1. relinks' = relinks + 1
    BY <1>2 DEF Unlink, Relink
  <2>2. QED BY <2>1
<1>3. ASSUME UNCHANGED <<table, real, pc, path, lock>>
      PROVE  Single'
  BY <1>3, SingleKept DEF NothingEntered, NobodyEnters, table
<1>4. Tick => UNCHANGED <<table, real, pc, path, lock>>
  BY DEF Tick, local
<1>5. ASSUME NEW n \in Name, Edit(n) PROVE UNCHANGED <<table, real, pc, path, lock>>
  BY <1>5 DEF Edit, local
<1>6. UNCHANGED vars => UNCHANGED <<table, real, pc, path, lock>>
  BY DEF vars, disk, local
<1>7. QED
  BY <1>1, <1>2, <1>3, <1>4, <1>5, <1>6, SingleLookup, SingleCall, SingleRequest DEF Next

(* "may be it was already stored by another process": the test under the     *)
(* lock in cache_script_in_shared_memory() keeps a file from having two      *)
(* live scripts, and a live script that cannot be found would be memory      *)
(* nobody can use or give back.                                              *)
THEOREM FilesAreStoredOnce ==
  ASSUME Careful
  PROVE  Spec => []OneLiveScript
<1> DEFINE Inv == Safe /\ (relinks = 0 => Single)
<1>1. Init => Inv
  BY InitSound DEF Init, Safe, Single, Live, Entering
<1>2. Inv /\ [Next]_vars => Inv'
  <2> SUFFICES ASSUME Inv, [Next]_vars PROVE Inv'
    OBVIOUS
  <2>1. Safe'
    BY SafeStep
  <2>2. relinks' = relinks \/ relinks' = relinks + 1
    BY RelinksGrow
  <2>3. relinks' = 0 => relinks = 0 /\ relinks' = relinks
    BY <2>2 DEF Safe
  <2>4. ASSUME relinks' = 0 PROVE Single'
    <3>1. Sound /\ Single /\ relinks' = relinks /\ relinks \in Nat
      BY <2>3, <2>4 DEF Safe
    <3>2. QED BY <3>1, SingleStep
  <2>5. QED BY <2>1, <2>4
<1>3. Inv => OneLiveScript
  <2> SUFFICES ASSUME Sound, Single
               PROVE  /\ \A s, t \in Live : scripts[s].full_path = scripts[t].full_path => s = t
                      /\ \A s \in Live : Find(scripts[s].full_path) = s
    BY DEF Safe, OneLiveScript
  <2>1. \A s, t \in Live : scripts[s].full_path = scripts[t].full_path => s = t
    BY DEF Single
  <2>2. ASSUME NEW s \in Live PROVE Find(scripts[s].full_path) = s
    <3> DEFINE p == scripts[s].full_path
    <3>1. p \in Name /\ real[p] = p /\ entry[p].data = s
      BY DEF Single, Live, Sound, Scripts
    <3>2. ~entry[p].indirect
      BY <3>1 DEF Sound, Keys
    <3>3. QED BY <3>1, <3>2 DEF Find, FindEntry
  <2>3. QED BY <2>1, <2>2
<1>4. QED BY <1>1, <1>2, <1>3, PTL DEF Spec

-----------------------------------------------------------------------------
(* Every set of numbers that is not empty has a least one. *)
LEMMA LeastNumber == \A T \in SUBSET Nat : T # {} => \E x \in T : \A y \in T : x <= y
<1> SUFFICES ASSUME NEW T \in SUBSET Nat, T # {} PROVE \E x \in T : \A y \in T : x <= y
  OBVIOUS
<1>1. \E x \in T : \A y \in T : <<y, x>> \notin OpToRel(<, Nat)
  BY NatLessThanWellFounded, WFMin, Zenon
<1>2. PICK x \in T : \A y \in T : <<y, x>> \notin OpToRel(<, Nat)
  BY <1>1
<1>3. \A y \in T : ~(y < x)
  BY <1>2 DEF OpToRel
<1>4. QED BY <1>3

(* A sum of numbers is the number of boxes in columns of these heights. *)
Boxes(f, S) == UNION {{x} \X (1..f[x]) : x \in S}
Total(f, S) == Cardinality(Boxes(f, S))

LEMMA FiniteBoxes ==
  ASSUME NEW f, NEW S, IsFiniteSet(S), \A x \in S : f[x] \in Nat
  PROVE  IsFiniteSet(Boxes(f, S)) /\ Total(f, S) \in Nat
<1> DEFINE Column(x) == {x} \X (1..f[x])
           C == {Column(x) : x \in S}
           g == [x \in S |-> Column(x)]
<1>1. IsFiniteSet(C)
  <2>1. g \in [S -> C] /\ \A t \in C : \E x \in S : g[x] = t
    BY Zenon
  <2>2. g \in Surjection(S, C)
    BY <2>1, Zenon DEF Surjection
  <2>3. QED BY <2>2, FS_Surjection
<1>2. \A x \in S : IsFiniteSet(Column(x))
  <2> TAKE x \in S
  <2>1. IsFiniteSet({x})
    BY FS_Singleton
  <2>2. f[x] \in Int /\ 1 \in Int
    OBVIOUS
  <2>3. IsFiniteSet(1..f[x])
    BY <2>2, FS_Interval
  <2>4. QED BY <2>1, <2>3, FS_Product
<1>3. IsFiniteSet(UNION C)
  BY <1>1, <1>2, FS_UNION
<1>4. QED BY <1>3, FS_CardinalityType DEF Boxes, Total

LEMMA ColumnHeight ==
  ASSUME NEW n \in Nat PROVE IsFiniteSet(1..n) /\ Cardinality(1..n) = n
<1>1. 1 \in Int /\ n \in Int
  OBVIOUS
<1>2. Cardinality(1..n) = IF 1 > n THEN 0 ELSE n - 1 + 1
  BY <1>1, FS_Interval
<1>3. IsFiniteSet(1..n)
  BY <1>1, FS_Interval
<1>4. QED BY <1>2, <1>3

LEMMA TotalEmpty == \A f : Total(f, {}) = 0
BY FS_EmptySet DEF Total, Boxes

LEMMA TotalAdd ==
  ASSUME NEW f, NEW S, IsFiniteSet(S), \A y \in S : f[y] \in Nat, NEW x, x \notin S, f[x] \in Nat
  PROVE  Total(f, S \cup {x}) = f[x] + Total(f, S)
<1> DEFINE B == Boxes(f, S)
           C == {x} \X (1..f[x])
<1>1. Boxes(f, S \cup {x}) = C \cup B
  BY DEF Boxes
<1>2. C \cap B = {}
  BY DEF Boxes
<1>3. IsFiniteSet(C) /\ Cardinality(C) = f[x]
  <2>1. IsFiniteSet({x}) /\ Cardinality({x}) = 1
    BY FS_Singleton
  <2>2. IsFiniteSet(1..f[x]) /\ Cardinality(1..f[x]) = f[x]
    BY ColumnHeight, Zenon
  <2>3. IsFiniteSet(C) /\ Cardinality(C) = 1 * f[x]
    <3> DEFINE Q == {x}
               R == 1..f[x]
    <3>1. IsFiniteSet(Q) /\ Cardinality(Q) = 1 /\ IsFiniteSet(R) /\ Cardinality(R) = f[x]
      BY <2>1, <2>2, Zenon
    <3> HIDE DEF Q, R
    <3>2. IsFiniteSet(Q \X R) /\ Cardinality(Q \X R) = Cardinality(Q) * Cardinality(R)
      BY <3>1, FS_Product, Zenon
    <3>3. IsFiniteSet(Q \X R) /\ Cardinality(Q \X R) = 1 * f[x]
      BY <3>1, <3>2, Zenon
    <3>4. QED BY <3>3, Zenon DEF Q, R
  <2>4. 1 * f[x] = f[x]
    OBVIOUS
  <2>5. QED BY <2>3, <2>4, Zenon
<1>4. IsFiniteSet(B) /\ Cardinality(B) \in Nat
  BY FiniteBoxes DEF Total
<1> HIDE DEF B, C
<1>5. Cardinality(C \cup B) = Cardinality(C) + Cardinality(B) - Cardinality(C \cap B)
  BY <1>3, <1>4, FS_Union
<1>6. Cardinality({}) = 0
  BY FS_EmptySet
<1>7. Total(f, S) = Cardinality(B) /\ Total(f, S \cup {x}) = Cardinality(C \cup B)
  BY <1>1 DEF Total, B
<1>8. Cardinality(C \cup B) = f[x] + Cardinality(B) - 0
  BY <1>2, <1>3, <1>5, <1>6, Zenon
<1>9. QED BY <1>4, <1>7, <1>8

LEMMA TotalSame ==
  ASSUME NEW f, NEW g, NEW S, \A x \in S : f[x] = g[x]
  PROVE  Total(f, S) = Total(g, S)
<1>1. Boxes(f, S) = Boxes(g, S)
  BY DEF Boxes
<1>2. QED BY <1>1 DEF Total

LEMMA TotalPart ==
  ASSUME NEW f, NEW S, IsFiniteSet(S), \A y \in S : f[y] \in Nat, NEW T \in SUBSET S
  PROVE  Total(f, T) <= Total(f, S)
<1>1. IsFiniteSet(Boxes(f, S))
  BY FiniteBoxes
<1>2. Boxes(f, T) \subseteq Boxes(f, S)
  BY DEF Boxes
<1>3. QED BY <1>1, <1>2, FS_Subset DEF Total

(* What the scripts occupy, as a function. *)
Weights == [s \in 1..stored |-> SizeOf[scripts[s].full_path]]

LEMMA OccupiesTotal ==
  ASSUME stored \in Nat, \A s \in 1..stored : SizeOf[scripts[s].full_path] \in Nat,
         NEW S \in SUBSET (1..stored)
  PROVE  Occupies(S) = Total(Weights, S)
<1> DEFINE Def(g) == [s \in SUBSET S |->
              IF s = {} THEN 0
              ELSE LET x == CHOOSE x \in s : TRUE
                   IN SizeOf[scripts[x].full_path] + g[s \ {x}]]
           r == [s \in SUBSET S |-> Total(Weights, s)]
           iter == CHOOSE g : g = Def(g)
<1>1. ASSUME NEW s \in SUBSET S, s # {}, NEW x \in s
      PROVE  Total(Weights, s) = SizeOf[scripts[x].full_path] + Total(Weights, s \ {x})
  <2>1. s \ {x} \in SUBSET (1..stored) /\ 1 \in Int /\ stored \in Int
    OBVIOUS
  <2>2. IsFiniteSet(s \ {x})
    BY <2>1, FS_Interval, FS_Subset
  <2>3. (s \ {x}) \cup {x} = s /\ x \notin s \ {x}
    OBVIOUS
  <2>4. /\ \A y \in s \ {x} : Weights[y] \in Nat
        /\ Weights[x] = SizeOf[scripts[x].full_path] /\ Weights[x] \in Nat
    BY DEF Weights
  <2>5. Total(Weights, (s \ {x}) \cup {x}) = Weights[x] + Total(Weights, s \ {x})
    BY <2>2, <2>3, <2>4, TotalAdd
  <2>6. QED BY <2>3, <2>4, <2>5
<1>2. r = Def(r)
  <2>1. ASSUME NEW s \in SUBSET S PROVE r[s] = Def(r)[s]
    <3>1. CASE s = {}
      BY <3>1, TotalEmpty
    <3>2. CASE s # {}
      <4> DEFINE x == CHOOSE x \in s : TRUE
      <4>1. x \in s
        BY <3>2
      <4>2. r[s] = SizeOf[scripts[x].full_path] + r[s \ {x}]
        BY <1>1, <3>2, <4>1
      <4>3. QED BY <3>2, <4>2
    <3>3. QED BY <3>1, <3>2
  <2>2. QED BY <2>1
<1>3. iter = Def(iter)
  BY <1>2
<1> HIDE DEF iter
<1>4. /\ iter[{}] = 0
      /\ \A s \in SUBSET S : s # {} =>
           \E x \in s : iter[s] = SizeOf[scripts[x].full_path] + iter[s \ {x}]
  <2>1. \A s \in SUBSET S : iter[s] = Def(iter)[s]
    BY <1>3
  <2>2. iter[{}] = 0
    BY <2>1
  <2>3. ASSUME NEW s \in SUBSET S, s # {}
        PROVE  \E x \in s : iter[s] = SizeOf[scripts[x].full_path] + iter[s \ {x}]
    <3> DEFINE x == CHOOSE x \in s : TRUE
    <3>1. x \in s
      BY <2>3
    <3>2. iter[s] = SizeOf[scripts[x].full_path] + iter[s \ {x}]
      BY <2>1, <2>3
    <3>3. QED BY <3>1, <3>2
  <2>4. QED BY <2>2, <2>3
<1>5. \A s \in SUBSET S : iter[s] = Total(Weights, s)
  <2> DEFINE T == {Cardinality(s) : s \in {t \in SUBSET S : iter[t] # Total(Weights, t)}}
  <2> SUFFICES ASSUME T # {} PROVE FALSE
    OBVIOUS
  <2>1. \A s \in SUBSET S : IsFiniteSet(s)
    <3>1. IsFiniteSet(1..stored)
      BY FS_Interval
    <3>2. QED BY <3>1, FS_Subset
  <2>2. T \in SUBSET Nat
    BY <2>1, FS_CardinalityType
  <2>3. PICK n \in T : \A y \in T : n <= y
    BY <2>2, LeastNumber
  <2>4. PICK s \in SUBSET S : n = Cardinality(s) /\ iter[s] # Total(Weights, s)
    OBVIOUS
  <2>5. s # {}
    BY <2>4, <1>4, TotalEmpty
  <2>6. PICK x \in s : iter[s] = SizeOf[scripts[x].full_path] + iter[s \ {x}]
    BY <1>4, <2>5
  <2>7. Cardinality(s \ {x}) = n - 1 /\ n \in Nat
    BY <2>1, <2>2, <2>4, <2>6, FS_RemoveElement
  <2>8. iter[s \ {x}] = Total(Weights, s \ {x})
    <3>1. Cardinality(s \ {x}) \notin T
      BY <2>3, <2>7
    <3>2. s \ {x} \in SUBSET S
      OBVIOUS
    <3>3. QED BY <3>1, <3>2
  <2>9. Total(Weights, s) = SizeOf[scripts[x].full_path] + Total(Weights, s \ {x})
    BY <1>1, <2>5, <2>6
  <2>10. QED BY <2>4, <2>6, <2>8, <2>9
<1>6. Occupies(S) = iter[S]
  BY DEF Occupies, MapThenSumSet, MapThenFoldSet, iter
<1>7. QED BY <1>5, <1>6

-----------------------------------------------------------------------------
(* Types and accounts, whatever names come to mean. *)

(* No entry becomes a name of a name. *)
NamesPointToScripts == \A n \in Name : entry[n].indirect => ~entry[entry[n].data].indirect

DiskTypes ==
  /\ now \in 1..MaxTime /\ real \in [Name -> Name]
  /\ mtime \in [Name -> 1..MaxTime] /\ version \in [Name -> Version]
  /\ over \in [Version -> 1..Never] /\ left \in [Name -> [Name -> 0..Never]]
  /\ edits \in 0..MaxEdits /\ relinks \in 0..MaxRelinks

TableTypes ==
  /\ stored \in 0..MaxScripts /\ scripts \in [1..stored -> Script]
  /\ entry \in [Name -> Entry]
  /\ \A k \in Name : entry[k].data \in IF entry[k].indirect THEN Name ELSE 0..stored
  /\ memory_exhausted \in BOOLEAN /\ restart_pending \in BOOLEAN
  /\ lock \in Worker \cup {NoWorker} /\ crashes \in 0..MaxCrashes

WorkerTypes ==
  /\ pc \in [Worker -> Outside \cup Searching \cup Storing]
  /\ counted \in [Worker -> BOOLEAN] /\ request_time \in [Worker -> 0..MaxTime]
  /\ key \in [Worker -> Name \cup {NoName}] /\ path \in [Worker -> Name \cup {NoName}]
  /\ claim \in [Worker -> BOOLEAN] /\ found \in [Worker -> 0..MaxScripts]
  /\ bucket \in [Worker -> Name \cup {NoName}]
  /\ stamp \in [Worker -> 0..MaxTime] /\ code \in [Worker -> {0} \cup Version]
  /\ used \in [Worker -> [path : Name \cup {NoName}, version : {0} \cup Version]]
  /\ asked \in [Worker -> Name \cup {NoName}]

(* A worker in an operation is counted, and has what the step needs; the one *)
(* that enters a script has the lock, and its script is the last one.        *)
Busy(v) ==
  /\ pc[v] \notin Outside => counted[v] /\ asked[v] \in Name /\ key[v] \in Name
  /\ claim[v] => path[v] \in Name
  /\ pc[v] \in {"resolve", "open", "addkey"} \cup Storing => path[v] \in Name
  /\ pc[v] \in {"addkey", "check", "mark", "apimark"} => found[v] \in 1..stored
  /\ pc[v] = "addkey" => bucket[v] \in Name
  /\ pc[v] \in Compiled => code[v] \in Version
  /\ pc[v] \in {"publish", "link"} <=> lock = v
  /\ pc[v] = "publish" => stored < MaxScripts
  /\ pc[v] = "link" =>
       /\ stored # 0 /\ scripts[stored].full_path = path[v]
       /\ scripts[stored].memory_consumption = 0 /\ ~scripts[stored].corrupted

(* Memory that was allocated for a script not yet entered; a script whose    *)
(* size is not recorded yet.                                                 *)
InFlight == IF lock # NoWorker /\ pc[lock] = "publish" THEN SizeOf[path[lock]] ELSE 0
Weighed(s) == lock # NoWorker /\ pc[lock] = "link" => s # stored

Books ==
  /\ shared_free \in Nat /\ keymem \in Nat /\ wasted \in Nat
  /\ shared_free + keymem + Total(Weights, 1..stored) + InFlight <= Memory
  /\ crashes = 0 => shared_free + keymem + Total(Weights, 1..stored) + InFlight = Memory
  /\ wasted <= Total(Weights, Dead)
  /\ crashes = 0 => wasted = Total(Weights, Dead)
  /\ \A s \in 1..stored :
       /\ scripts[s].memory_consumption <= SizeOf[scripts[s].full_path]
       /\ crashes = 0 /\ Weighed(s) =>
            scripts[s].memory_consumption = SizeOf[scripts[s].full_path]

Accounted == DiskTypes /\ TableTypes /\ WorkerTypes /\ (\A v \in Worker : Busy(v)) /\ Books

LEMMA Weighable ==
  ASSUME TableTypes
  PROVE  /\ stored \in Nat /\ IsFiniteSet(1..stored) /\ Dead \in SUBSET (1..stored)
         /\ \A s \in 1..stored : /\ scripts[s].full_path \in Name
                                 /\ SizeOf[scripts[s].full_path] \in Nat
                                 /\ Weights[s] = SizeOf[scripts[s].full_path]
                                 /\ Weights[s] \in Nat
<1>1. stored \in Nat /\ 1 \in Int /\ stored \in Int
  BY CacheAssumption DEF TableTypes
<1>2. IsFiniteSet(1..stored)
  BY <1>1, FS_Interval
<1>3. Dead \in SUBSET (1..stored)
  BY DEF Dead
<1>4. ASSUME NEW s \in 1..stored
      PROVE  /\ scripts[s].full_path \in Name /\ SizeOf[scripts[s].full_path] \in Nat
             /\ Weights[s] = SizeOf[scripts[s].full_path]
  <2>1. scripts[s] \in Script
    BY DEF TableTypes
  <2>2. scripts[s].full_path \in Name
    BY <2>1 DEF Script
  <2>3. SizeOf[scripts[s].full_path] \in Nat
    BY <2>2, CacheAssumption
  <2>4. QED BY <2>2, <2>3 DEF Weights
<1>5. QED BY <1>1, <1>2, <1>3, <1>4

(* What the types and the accounts say, in the terms of the model. *)
LEMMA AccountedSays == Accounted => TypeOK /\ MemoryAccounted
<1> SUFFICES ASSUME Accounted PROVE TypeOK /\ MemoryAccounted
  OBVIOUS
<1>1. TableTypes /\ Books
  BY DEF Accounted
<1>2. /\ Occupies(1..stored) = Total(Weights, 1..stored)
      /\ Occupies(Dead) = Total(Weights, Dead)
  BY <1>1, Weighable, OccupiesTotal
<1>3. /\ Total(Weights, 1..stored) \in Nat /\ Total(Weights, Dead) \in Nat
      /\ Total(Weights, Dead) <= Total(Weights, 1..stored)
  <2>1. IsFiniteSet(Dead) /\ \A s \in Dead : Weights[s] \in Nat
    BY <1>1, Weighable, FS_Subset
  <2>2. QED BY <1>1, <2>1, Weighable, FiniteBoxes, TotalPart
<1>4. InFlight \in Nat /\ (lock = NoWorker => InFlight = 0)
  <2>1. lock # NoWorker /\ pc[lock] = "publish" => lock \in Worker /\ path[lock] \in Name
    BY DEF Accounted, TableTypes, Busy, Storing, Compiled
  <2>2. QED BY <2>1, CacheAssumption DEF InFlight
<1>5. MemoryAccounted
  BY <1>1, <1>2, <1>3, <1>4 DEF Books, MemoryAccounted
<1>6. shared_free \in 0..Memory /\ wasted \in 0..Memory /\ keymem \in 0..Memory
  <2>1. Memory \in Nat /\ shared_free \in Nat /\ wasted \in Nat /\ keymem \in Nat
    BY <1>1, CacheAssumption DEF Books
  <2>2. /\ shared_free + keymem + Total(Weights, 1..stored) + InFlight <= Memory
        /\ wasted <= Total(Weights, Dead)
    BY <1>1 DEF Books
  <2>3. QED BY <1>3, <1>4, <2>1, <2>2
<1>7. TypeOK
  BY <1>6 DEF Accounted, DiskTypes, TableTypes, WorkerTypes, TypeOK, Outside, Searching, Storing, Compiled
<1>8. QED BY <1>5, <1>7

-----------------------------------------------------------------------------
LEMMA FirstVersionTypes == FirstVersion \in [Name -> 1..Cardinality(Name)]
<1>1. IsFiniteSet(Name)
  BY CacheAssumption
<1>2. PICK g \in Bijection(1..Cardinality(Name), Name) : TRUE
  BY <1>1, FS_CardinalityType DEF ExistsBijection
<1>3. \E f \in [Name -> 1..Cardinality(Name)] : \A m, n \in Name : m # n => f[m] # f[n]
  <2> DEFINE f == [n \in Name |-> CHOOSE i \in 1..Cardinality(Name) : g[i] = n]
  <2>1. \A n \in Name : \E i \in 1..Cardinality(Name) : g[i] = n
    BY <1>2 DEF Bijection, Surjection
  <2>2. \A n \in Name : f[n] \in 1..Cardinality(Name) /\ g[f[n]] = n
    BY <2>1
  <2>3. f \in [Name -> 1..Cardinality(Name)]
    BY <2>2
  <2> HIDE DEF f
  <2>4. QED BY <2>2, <2>3
<1>4. QED BY <1>3 DEF FirstVersion

(* An empty cache. *)
LEMMA EmptyBooks ==
  stored = 0 /\ shared_free = Memory /\ keymem = 0 /\ wasted = 0 /\ InFlight = 0 => Books
<1> SUFFICES ASSUME stored = 0, shared_free = Memory, keymem = 0, wasted = 0, InFlight = 0
             PROVE  Books
  OBVIOUS
<1>1. 1..stored = {} /\ Dead = {}
  BY DEF Dead
<1>2. Total(Weights, {}) = 0
  BY TotalEmpty
<1>3. QED BY <1>1, <1>2, CacheAssumption DEF Books

LEMMA AccountedInit == Init => Accounted
<1> SUFFICES ASSUME Init PROVE Accounted
  OBVIOUS
<1>1. /\ InitialReal \in [Name -> Name] /\ 1 \in 1..MaxTime
      /\ MaxTime \in Nat /\ Never \in 1..Never /\ Never \in 0..Never /\ 0 \in 0..Never
  BY CacheAssumption, Constants DEF Never
<1>2. FirstVersion \in [Name -> Version]
  BY FirstVersionTypes, Constants, CacheAssumption DEF Version
<1>3. DiskTypes
  BY <1>1, <1>2, CacheAssumption DEF Init, DiskTypes
<1>4. TableTypes
  <2>1. stored = 0 /\ 1..stored = {} /\ scripts = << >> /\ << >> \in [{} -> Script]
    BY DEF Init
  <2>2. scripts \in [1..stored -> Script]
    BY <2>1
  <2>3. entry \in [Name -> Entry] /\ \A k \in Name : entry[k].data = 0 /\ ~entry[k].indirect
    BY DEF Init, NoEntry, Entry
  <2>4. \A k \in Name : entry[k].data \in IF entry[k].indirect THEN Name ELSE 0..stored
    BY <2>1, <2>3
  <2>5. stored \in 0..MaxScripts /\ crashes \in 0..MaxCrashes
    BY CacheAssumption DEF Init
  <2>6. QED BY <2>2, <2>3, <2>4, <2>5 DEF Init, TableTypes
<1>5. WorkerTypes
  BY Constants, CacheAssumption DEF Init, WorkerTypes, Outside, Nothing
<1>6. ASSUME NEW v \in Worker PROVE Busy(v)
  BY CacheAssumption DEF Init, Busy, Outside, Compiled, Storing
<1>7. Books
  BY EmptyBooks DEF Init, InFlight
<1>8. QED BY <1>3, <1>4, <1>5, <1>6, <1>7 DEF Accounted

-----------------------------------------------------------------------------
(* What a look-up returns is a script. *)
LEMMA LookupsReturnScripts ==
  ASSUME TableTypes, NamesPointToScripts, NEW n \in Name
  PROVE  Find(n) \in 0..stored /\ FindEntry(n) \in Name /\ ~entry[FindEntry(n)].indirect
<1>1. CASE entry[n].indirect
  <2>1. entry[n].data \in Name /\ FindEntry(n) = entry[n].data
    BY <1>1 DEF TableTypes, FindEntry
  <2>2. ~entry[entry[n].data].indirect
    BY <1>1 DEF NamesPointToScripts
  <2>3. QED BY <2>1, <2>2 DEF TableTypes, Find
<1>2. CASE ~entry[n].indirect
  BY <1>2 DEF TableTypes, Find, FindEntry
<1>3. QED BY <1>1, <1>2

(* The steps of the others leave a worker what it has. *)
LEMMA OthersBusy ==
  ASSUME TableTypes, TableTypes', NEW w \in Worker, OthersKept(w),
         NEW v \in Worker \ {w}, Busy(v), lock = v <=> lock' = v, stored <= stored',
         lock = v => /\ stored' = stored
                     /\ \A s \in 1..stored :
                          /\ scripts'[s].full_path = scripts[s].full_path
                          /\ scripts'[s].memory_consumption = scripts[s].memory_consumption
                          /\ scripts'[s].corrupted = scripts[s].corrupted
  PROVE  Busy(v)'
<1>1. /\ pc'[v] = pc[v] /\ counted'[v] = counted[v]
      /\ key'[v] = key[v] /\ path'[v] = path[v] /\ claim'[v] = claim[v] /\ found'[v] = found[v]
      /\ bucket'[v] = bucket[v] /\ code'[v] = code[v] /\ asked'[v] = asked[v]
  BY DEF OthersKept
<1>2. stored \in Nat /\ stored' \in Nat
  BY CacheAssumption DEF TableTypes
<1>3. pc[v] \in {"publish", "link"} <=> lock = v
  BY DEF Busy
<1>4. pc[v] = "link" =>
       /\ stored' # 0 /\ scripts'[stored'].full_path = path[v]
       /\ scripts'[stored'].memory_consumption = 0 /\ ~scripts'[stored'].corrupted
  <2> SUFFICES ASSUME pc[v] = "link"
               PROVE  /\ stored' # 0 /\ scripts'[stored'].full_path = path[v]
                      /\ scripts'[stored'].memory_consumption = 0 /\ ~scripts'[stored'].corrupted
    OBVIOUS
  <2>1. lock = v /\ stored' = stored /\ stored \in 1..stored
    BY <1>2, <1>3 DEF Busy
  <2>2. QED BY <2>1 DEF Busy
<1>5. pc[v] = "publish" => stored' < MaxScripts
  BY <1>3 DEF Busy
<1>6. found[v] \in 1..stored => found[v] \in 1..stored'
  BY <1>2
<1>7. QED BY <1>1, <1>3, <1>4, <1>5, <1>6 DEF Busy

(* Nothing was allocated but for keys, and no script entered or marked. *)
WeighedNoMore == \A s \in 1..stored : Weighed(s)' => Weighed(s)
LEMMA BooksKept ==
  ASSUME TableTypes, Books, stored' = stored, wasted' = wasted,
         \A s \in 1..stored :
           /\ scripts'[s].full_path = scripts[s].full_path
           /\ scripts'[s].memory_consumption = scripts[s].memory_consumption
           /\ scripts'[s].corrupted = scripts[s].corrupted,
         shared_free' \in Nat, keymem' \in Nat, InFlight \in Nat, InFlight' \in Nat,
         shared_free' + keymem' + InFlight' <= shared_free + keymem + InFlight,
         crashes' = 0 =>
           /\ crashes = 0
           /\ shared_free' + keymem' + InFlight' = shared_free + keymem + InFlight
           /\ WeighedNoMore
  PROVE  Books'
<1>1. Weights' = Weights /\ Dead' = Dead
  <2>1. Weights' = Weights
    BY DEF Weights
  <2>2. Dead' = Dead
    BY DEF Dead, Live
  <2>3. QED BY <2>1, <2>2
<1>2. Total(Weights, 1..stored)' = Total(Weights, 1..stored) /\ Total(Weights, Dead)' = Total(Weights, Dead)
  BY <1>1
<1>3. Total(Weights, 1..stored) \in Nat
  BY Weighable, FiniteBoxes
<1>4. /\ shared_free' + keymem' + Total(Weights, 1..stored)' + InFlight' <= Memory
      /\ crashes' = 0 => shared_free' + keymem' + Total(Weights, 1..stored)' + InFlight' = Memory
  <2>1. PICK n \in Nat, i \in Nat, j \in Nat, f \in Nat, k \in Nat :
          /\ n = Total(Weights, 1..stored) /\ i = InFlight /\ j = InFlight'
          /\ f = shared_free' /\ k = keymem'
    BY <1>3
  <2>2. shared_free \in Nat /\ keymem \in Nat /\ shared_free + keymem + n + i <= Memory
    BY <2>1 DEF Books
  <2>3. crashes = 0 => shared_free + keymem + n + i = Memory
    BY <2>1 DEF Books
  <2>4. /\ f + k + j <= shared_free + keymem + i
        /\ crashes' = 0 => crashes = 0 /\ f + k + j = shared_free + keymem + i
    BY <2>1, Zenon
  <2>5. Memory \in Nat
    BY CacheAssumption
  <2>6. f + k + n + j <= Memory
    BY <2>2, <2>4, <2>5
  <2>7. crashes' = 0 => f + k + n + j = Memory
    BY <2>2, <2>3, <2>4, <2>5
  <2>8. QED BY <1>2, <2>1, <2>6, <2>7, Zenon
<1>5. /\ wasted' \in Nat /\ wasted' <= Total(Weights, Dead)'
      /\ crashes' = 0 => wasted' = Total(Weights, Dead)'
  BY <1>2 DEF Books
<1>6. \A s \in 1..stored' :
       /\ scripts'[s].memory_consumption <= SizeOf[scripts'[s].full_path]
       /\ crashes' = 0 /\ Weighed(s)' =>
            scripts'[s].memory_consumption = SizeOf[scripts'[s].full_path]
  BY DEF Books, WeighedNoMore
<1>7. QED BY <1>4, <1>5, <1>6 DEF Books

-----------------------------------------------------------------------------
(* The variables of one worker change. *)
MovesAlone(w) ==
  /\ pc' = [pc EXCEPT ![w] = pc'[w]] /\ counted' = [counted EXCEPT ![w] = counted'[w]]
  /\ request_time' = [request_time EXCEPT ![w] = request_time'[w]]
  /\ key' = [key EXCEPT ![w] = key'[w]] /\ path' = [path EXCEPT ![w] = path'[w]]
  /\ claim' = [claim EXCEPT ![w] = claim'[w]] /\ found' = [found EXCEPT ![w] = found'[w]]
  /\ bucket' = [bucket EXCEPT ![w] = bucket'[w]] /\ stamp' = [stamp EXCEPT ![w] = stamp'[w]]
  /\ code' = [code EXCEPT ![w] = code'[w]] /\ used' = [used EXCEPT ![w] = used'[w]]
  /\ asked' = [asked EXCEPT ![w] = asked'[w]]

HasTypes(v) ==
  /\ pc[v] \in Outside \cup Searching \cup Storing
  /\ counted[v] \in BOOLEAN /\ request_time[v] \in 0..MaxTime
  /\ key[v] \in Name \cup {NoName} /\ path[v] \in Name \cup {NoName}
  /\ claim[v] \in BOOLEAN /\ found[v] \in 0..MaxScripts /\ bucket[v] \in Name \cup {NoName}
  /\ stamp[v] \in 0..MaxTime /\ code[v] \in {0} \cup Version
  /\ used[v] \in [path : Name \cup {NoName}, version : {0} \cup Version]
  /\ asked[v] \in Name \cup {NoName}

LEMMA Typical ==
  ASSUME WorkerTypes, NEW w \in Worker
  PROVE  HasTypes(w)
  BY DEF WorkerTypes, HasTypes

LEMMA AloneTypes ==
  ASSUME WorkerTypes, NEW w \in Worker, MovesAlone(w), HasTypes(w)'
  PROVE  WorkerTypes' /\ OthersKept(w)
<1>1. /\ pc' \in [Worker -> Outside \cup Searching \cup Storing]
      /\ counted' \in [Worker -> BOOLEAN] /\ request_time' \in [Worker -> 0..MaxTime]
  BY DEF WorkerTypes, MovesAlone, HasTypes
<1>2. /\ key' \in [Worker -> Name \cup {NoName}] /\ path' \in [Worker -> Name \cup {NoName}]
      /\ bucket' \in [Worker -> Name \cup {NoName}] /\ asked' \in [Worker -> Name \cup {NoName}]
  BY DEF WorkerTypes, MovesAlone, HasTypes
<1>3. /\ claim' \in [Worker -> BOOLEAN] /\ found' \in [Worker -> 0..MaxScripts]
      /\ stamp' \in [Worker -> 0..MaxTime] /\ code' \in [Worker -> {0} \cup Version]
  BY DEF WorkerTypes, MovesAlone, HasTypes
<1>4. used' \in [Worker -> [path : Name \cup {NoName}, version : {0} \cup Version]]
  BY DEF WorkerTypes, MovesAlone, HasTypes
<1>5. OthersKept(w)
  BY DEF WorkerTypes, MovesAlone, OthersKept
<1>6. QED BY <1>1, <1>2, <1>3, <1>4, <1>5 DEF WorkerTypes

DiskKept == UNCHANGED <<now, real, mtime, version, over, left, edits, relinks>>

(* Nothing but a script's date of validation changes, and entries that lead   *)
(* to scripts.                                                                *)
ScriptsKept ==
  /\ stored' = stored
  /\ \A s \in 1..stored :
       /\ scripts'[s].full_path = scripts[s].full_path
       /\ scripts'[s].memory_consumption = scripts[s].memory_consumption
       /\ scripts'[s].corrupted = scripts[s].corrupted

LEMMA InFlightIs ==
  ASSUME TableTypes, \A v \in Worker : Busy(v)
  PROVE  InFlight \in Nat /\ (lock = NoWorker => InFlight = 0)
<1>1. lock # NoWorker /\ pc[lock] = "publish" => lock \in Worker /\ path[lock] \in Name
  BY DEF TableTypes, Busy, Storing, Compiled
<1>2. QED BY <1>1, CacheAssumption DEF InFlight

(* A step of a worker that does not have the lock and does not take it: it   *)
(* may give memory to keys.                                                  *)
LEMMA SharedStep ==
  ASSUME Accounted, NEW w \in Worker, DiskKept, MovesAlone(w), HasTypes(w)',
         TableTypes', ScriptsKept, UNCHANGED <<wasted, lock, crashes>>,
         shared_free' \in Nat, keymem' \in Nat, shared_free' + keymem' = shared_free + keymem,
         pc[w] \notin {"publish", "link"}, Busy(w)'
  PROVE  Accounted'
<1>1. /\ DiskTypes /\ TableTypes /\ WorkerTypes /\ Books
      /\ \A v \in Worker : Busy(v)
  BY DEF Accounted
<1>2. WorkerTypes' /\ OthersKept(w)
  BY <1>1, AloneTypes
<1>3. DiskTypes'
  BY <1>1 DEF DiskTypes, DiskKept
<1>4. stored \in Nat /\ stored <= stored'
  BY <1>1, CacheAssumption DEF TableTypes, ScriptsKept
<1>5. ASSUME NEW v \in Worker PROVE Busy(v)'
  <2>1. CASE v = w
    BY <2>1
  <2>2. CASE v # w
    <3>1. v \in Worker \ {w} /\ Busy(v)
      BY <1>1, <2>2
    <3>2. QED BY <1>1, <1>2, <1>4, <3>1, OthersBusy DEF ScriptsKept
  <2>3. QED BY <2>1, <2>2
<1>6. /\ lock = w => FALSE
      /\ lock # NoWorker => pc'[lock] = pc[lock] /\ path'[lock] = path[lock]
  <2>1. lock # w
    BY <1>1 DEF Busy
  <2>2. lock \in Worker \cup {NoWorker}
    BY <1>1 DEF TableTypes
  <2>3. QED BY <1>2, <2>1, <2>2 DEF OthersKept
<1>7. InFlight' = InFlight /\ InFlight \in Nat /\ InFlight' \in Nat
  <2>1. InFlight' = InFlight
    BY <1>6 DEF InFlight
  <2>2. QED BY <1>1, <2>1, InFlightIs
<1>8. WeighedNoMore
  BY <1>6 DEF WeighedNoMore, Weighed, ScriptsKept
<1>9. /\ shared_free' + keymem' + InFlight' = shared_free + keymem + InFlight
      /\ shared_free' + keymem' + InFlight' <= shared_free + keymem + InFlight
  <2>1. shared_free + keymem + InFlight \in Nat
    BY <1>1, <1>7 DEF Books
  <2>2. shared_free + keymem + InFlight <= shared_free + keymem + InFlight
    BY <2>1
  <2>3. QED BY <1>7, <2>2, Zenon
<1>10. Books'
  BY <1>1, <1>7, <1>8, <1>9, BooksKept DEF ScriptsKept
<1>11. QED BY <1>2, <1>3, <1>5, <1>10 DEF Accounted

(* A step that leaves the shared memory alone. *)
LEMMA QuietStep ==
  ASSUME Accounted, NEW w \in Worker, UNCHANGED <<disk, past, table, memory, lock, crashes>>,
         MovesAlone(w), HasTypes(w)', pc[w] \notin {"publish", "link"}, Busy(w)'
  PROVE  Accounted'
<1>1. /\ DiskKept /\ ScriptsKept /\ UNCHANGED <<wasted, lock, crashes>>
      /\ UNCHANGED <<shared_free, keymem>>
  BY DEF DiskKept, ScriptsKept, disk, past, table, memory
<1>2. TableTypes'
  BY DEF Accounted, TableTypes, table, memory
<1>3. /\ shared_free' \in Nat /\ keymem' \in Nat
      /\ shared_free' + keymem' = shared_free + keymem
  BY <1>1 DEF Accounted, Books
<1>4. QED BY <1>1, <1>2, <1>3, SharedStep

(* A worker ends its operation, and may have executed something. *)
LEMMA Finishes ==
  ASSUME WorkerTypes, NEW w \in Worker, Forget(w),
         \/ used' = used
         \/ \E p \in Name, v \in Version : used' = [used EXCEPT ![w] = [path |-> p, version |-> v]],
         UNCHANGED <<counted, request_time, asked>>, lock' # w
  PROVE  MovesAlone(w) /\ HasTypes(w)' /\ Busy(w)'
<1>1. /\ pc' = [pc EXCEPT ![w] = "run"] /\ key' = [key EXCEPT ![w] = NoName]
      /\ path' = [path EXCEPT ![w] = NoName] /\ claim' = [claim EXCEPT ![w] = FALSE]
      /\ found' = [found EXCEPT ![w] = 0] /\ bucket' = [bucket EXCEPT ![w] = NoName]
      /\ stamp' = [stamp EXCEPT ![w] = 0] /\ code' = [code EXCEPT ![w] = 0]
  BY DEF Forget, Goto
<1>2. PICK u \in [path : Name \cup {NoName}, version : {0} \cup Version] :
        used' = [used EXCEPT ![w] = u]
  <2>1. CASE used' = used
    <3>1. used' = [used EXCEPT ![w] = used[w]]
      BY <2>1 DEF WorkerTypes
    <3>2. used[w] \in [path : Name \cup {NoName}, version : {0} \cup Version]
      BY DEF WorkerTypes
    <3>3. QED BY <3>1, <3>2
  <2>2. CASE \E p \in Name, v \in Version :
               used' = [used EXCEPT ![w] = [path |-> p, version |-> v]]
    BY <2>2
  <2>3. QED BY <2>1, <2>2
<1>3. MovesAlone(w)
  BY <1>1, <1>2 DEF WorkerTypes, MovesAlone
<1>4. /\ pc'[w] = "run" /\ key'[w] = NoName /\ path'[w] = NoName /\ claim'[w] = FALSE
      /\ found'[w] = 0 /\ bucket'[w] = NoName /\ stamp'[w] = 0 /\ code'[w] = 0
      /\ used'[w] = u
      /\ counted'[w] = counted[w] /\ request_time'[w] = request_time[w] /\ asked'[w] = asked[w]
  BY <1>1, <1>2 DEF WorkerTypes
<1>5. HasTypes(w)'
  <2>1. 0 \in 0..MaxScripts /\ 0 \in 0..MaxTime
    BY CacheAssumption
  <2>2. counted[w] \in BOOLEAN /\ request_time[w] \in 0..MaxTime /\ asked[w] \in Name \cup {NoName}
    BY Typical DEF HasTypes
  <2>3. QED BY <1>2, <1>4, <2>1, <2>2 DEF HasTypes, Outside
<1>6. Busy(w)'
  BY <1>4 DEF Busy, Outside, Storing, Compiled
<1>7. QED BY <1>3, <1>5, <1>6

LEMMA IncludeCounts ==
  ASSUME Accounted, NamesPointToScripts, NEW w \in Worker, NEW n \in Name, Include(w, n)
  PROVE  Accounted'
<1>1. /\ TableTypes /\ WorkerTypes /\ Busy(w) /\ real[n] \in Name
  BY DEF Accounted, DiskTypes
<1>2. /\ UNCHANGED <<disk, past, table, memory, lock, crashes>>
      /\ UNCHANGED <<claim, request_time, bucket, stamp, code>>
      /\ pc[w] = "run" /\ counted' = [counted EXCEPT ![w] = TRUE]
      /\ asked' = [asked EXCEPT ![w] = n] /\ key' = [key EXCEPT ![w] = n]
      /\ used' = [used EXCEPT ![w] = Nothing]
      /\ \/ /\ Find(n) # 0 /\ path' = path /\ found' = [found EXCEPT ![w] = Find(n)]
            /\ pc' = [pc EXCEPT ![w] = "check"]
         \/ /\ path' = [path EXCEPT ![w] = real[n]] /\ found' = found
            /\ pc' = [pc EXCEPT ![w] = "open"]
  BY DEF Include, Goto
<1>3. Find(n) \in 0..stored /\ stored \in 0..MaxScripts /\ MaxScripts \in Nat
  BY <1>1, LookupsReturnScripts, CacheAssumption DEF TableTypes
<1>4. Nothing \in [path : Name \cup {NoName}, version : {0} \cup Version]
  BY DEF Nothing
<1>5. /\ counted'[w] = TRUE /\ asked'[w] = n /\ key'[w] = n /\ used'[w] = Nothing
      /\ claim'[w] = claim[w] /\ request_time'[w] = request_time[w] /\ bucket'[w] = bucket[w]
      /\ stamp'[w] = stamp[w] /\ code'[w] = code[w] /\ stored' = stored /\ lock' = lock
      /\ \/ pc'[w] = "check" /\ path'[w] = path[w] /\ found'[w] \in 1..stored
         \/ pc'[w] = "open" /\ path'[w] = real[n] /\ found'[w] = found[w]
  BY <1>1, <1>2, <1>3 DEF WorkerTypes, table
<1>6. MovesAlone(w)
  BY <1>1, <1>2 DEF WorkerTypes, MovesAlone
<1>7. HasTypes(w)'
  <2>1. found'[w] \in 0..MaxScripts
    BY <1>1, <1>3, <1>5 DEF WorkerTypes
  <2>2. QED BY <1>1, <1>4, <1>5, <2>1, Typical DEF HasTypes, Searching
<1>8. Busy(w)'
  BY <1>1, <1>2, <1>5 DEF Busy, Outside, Storing, Compiled
<1>9. QED BY <1>2, <1>6, <1>7, <1>8, QuietStep

LEMMA IncludeOnceCounts ==
  ASSUME Accounted, NamesPointToScripts, NEW w \in Worker, NEW n \in Name, IncludeOnce(w, n)
  PROVE  Accounted'
<1>1. /\ TableTypes /\ WorkerTypes /\ Busy(w) /\ real[n] \in Name
  BY DEF Accounted, DiskTypes
<1>2. Find(n) \in 0..stored /\ stored \in 0..MaxScripts /\ MaxScripts \in Nat
  BY <1>1, LookupsReturnScripts, CacheAssumption DEF TableTypes
<1>3. Find(n) # 0 => scripts[Find(n)].full_path \in Name
  BY <1>1, <1>2, Weighable
<1>4. /\ UNCHANGED <<disk, past, table, memory, lock, crashes>>
      /\ UNCHANGED <<request_time, bucket, stamp, code>>
      /\ pc[w] = "run" /\ counted' = [counted EXCEPT ![w] = TRUE]
      /\ asked' = [asked EXCEPT ![w] = n] /\ used' = [used EXCEPT ![w] = Nothing]
      /\ \/ \E p, k \in Name :
              /\ Find(n) # 0 /\ found' = [found EXCEPT ![w] = Find(n)]
              /\ claim' = [claim EXCEPT ![w] = TRUE] /\ path' = [path EXCEPT ![w] = p]
              /\ key' = [key EXCEPT ![w] = k] /\ pc' = [pc EXCEPT ![w] = "check"]
         \/ /\ path' = [path EXCEPT ![w] = real[n]] /\ key' = [key EXCEPT ![w] = n]
            /\ pc' = [pc EXCEPT ![w] = "resolve"] /\ UNCHANGED <<found, claim>>
  <2>1. CASE Find(n) # 0 /\ found' = [found EXCEPT ![w] = Find(n)]
    <3> DEFINE p == scripts[Find(n)].full_path
               k == IF n \in Absolute THEN p ELSE n
    <3>1. p \in Name /\ k \in Name
      BY <1>3, <2>1
    <3>2. \/ /\ Find(n) # 0 /\ found' = [found EXCEPT ![w] = Find(n)]
             /\ claim' = [claim EXCEPT ![w] = TRUE] /\ path' = [path EXCEPT ![w] = p]
             /\ key' = [key EXCEPT ![w] = k] /\ pc' = [pc EXCEPT ![w] = "check"]
          \/ /\ path' = [path EXCEPT ![w] = real[n]] /\ key' = [key EXCEPT ![w] = n]
             /\ pc' = [pc EXCEPT ![w] = "resolve"] /\ UNCHANGED <<found, claim>>
      BY DEF IncludeOnce, Claim, Goto
    <3> HIDE DEF p, k
    <3>3. QED BY <3>1, <3>2 DEF IncludeOnce
  <2>2. CASE ~(Find(n) # 0 /\ found' = [found EXCEPT ![w] = Find(n)])
    BY <2>2 DEF IncludeOnce, Claim, Goto
  <2>3. QED BY <2>1, <2>2
<1>5. Nothing \in [path : Name \cup {NoName}, version : {0} \cup Version]
  BY DEF Nothing
<1>6. MovesAlone(w)
  BY <1>1, <1>4 DEF WorkerTypes, MovesAlone
<1>7. /\ counted'[w] = TRUE /\ asked'[w] = n /\ used'[w] = Nothing
      /\ request_time'[w] = request_time[w] /\ bucket'[w] = bucket[w]
      /\ stamp'[w] = stamp[w] /\ code'[w] = code[w] /\ stored' = stored /\ lock' = lock
      /\ path'[w] \in Name /\ key'[w] \in Name
      /\ \/ pc'[w] = "check" /\ claim'[w] = TRUE /\ found'[w] \in 1..stored
         \/ pc'[w] = "resolve" /\ claim'[w] = claim[w] /\ found'[w] = found[w]
  BY <1>1, <1>2, <1>4 DEF WorkerTypes, table
<1>8. HasTypes(w)'
  <2>1. found'[w] \in 0..MaxScripts
    BY <1>1, <1>2, <1>7 DEF WorkerTypes
  <2>2. QED BY <1>1, <1>5, <1>7, <2>1, Typical DEF HasTypes, Searching
<1>9. Busy(w)'
  BY <1>1, <1>4, <1>7 DEF Busy, Outside, Storing, Compiled
<1>10. QED BY <1>4, <1>6, <1>8, <1>9, QuietStep

LEMMA ResolveCounts ==
  ASSUME Accounted, NamesPointToScripts, NEW w \in Worker, ResolveReal(w)
  PROVE  Accounted'
<1>1. /\ TableTypes /\ WorkerTypes /\ Busy(w) /\ pc[w] = "resolve" /\ path[w] \in Name
  BY DEF Accounted, ResolveReal, Busy
<1>2. /\ Find(path[w]) \in 0..stored /\ FindEntry(path[w]) \in Name
      /\ stored \in 0..MaxScripts /\ MaxScripts \in Nat
  BY <1>1, LookupsReturnScripts, CacheAssumption DEF TableTypes
<1>3. Find(path[w]) # 0 => scripts[Find(path[w])].full_path \in Name
  BY <1>1, <1>2, Weighable
<1>4. /\ UNCHANGED <<disk, past, table, memory, lock, crashes>>
      /\ UNCHANGED <<counted, request_time, stamp, code, used, asked>>
      /\ \/ /\ Find(path[w]) # 0 /\ found' = [found EXCEPT ![w] = Find(path[w])]
            /\ claim' = [claim EXCEPT ![w] = TRUE]
            /\ path' = [path EXCEPT ![w] = scripts[Find(path[w])].full_path]
            /\ bucket' = [bucket EXCEPT ![w] = FindEntry(path[w])]
            /\ pc' = [pc EXCEPT ![w] = IF RevalidatePath THEN "check" ELSE "addkey"]
            /\ key' = key
         \/ /\ key' = [key EXCEPT ![w] = path[w]] /\ pc' = [pc EXCEPT ![w] = "open"]
            /\ UNCHANGED <<found, claim, path, bucket>>
  BY DEF ResolveReal, Claim, Goto
<1>5. MovesAlone(w)
  BY <1>1, <1>4 DEF WorkerTypes, MovesAlone
<1>6. /\ counted'[w] = counted[w] /\ asked'[w] = asked[w] /\ used'[w] = used[w]
      /\ request_time'[w] = request_time[w] /\ stamp'[w] = stamp[w] /\ code'[w] = code[w]
      /\ stored' = stored /\ lock' = lock /\ path'[w] \in Name
      /\ \/ /\ pc'[w] \in {"check", "addkey"} /\ claim'[w] = TRUE /\ found'[w] \in 1..stored
            /\ bucket'[w] \in Name /\ key'[w] = key[w]
         \/ /\ pc'[w] = "open" /\ claim'[w] = claim[w] /\ found'[w] = found[w]
            /\ bucket'[w] = bucket[w] /\ key'[w] = path[w]
  BY <1>1, <1>2, <1>3, <1>4 DEF WorkerTypes, table
<1>7. HasTypes(w)'
  <2>1. found'[w] \in 0..MaxScripts
    BY <1>1, <1>2, <1>6 DEF WorkerTypes
  <2>2. QED BY <1>1, <1>6, <2>1, Typical DEF HasTypes, Searching
<1>8. Busy(w)'
  BY <1>1, <1>6 DEF Busy, Outside, Storing, Compiled
<1>9. QED BY <1>1, <1>4, <1>5, <1>7, <1>8, QuietStep

LEMMA LookupCounts ==
  ASSUME Accounted, NamesPointToScripts, NEW w \in Worker, LookupReal(w)
  PROVE  Accounted'
<1>1. /\ TableTypes /\ WorkerTypes /\ Busy(w) /\ pc[w] = "open" /\ path[w] \in Name
  BY DEF Accounted, LookupReal, Busy
<1>2. /\ Find(path[w]) \in 0..stored /\ FindEntry(path[w]) \in Name
      /\ stored \in 0..MaxScripts /\ MaxScripts \in Nat
  BY <1>1, LookupsReturnScripts, CacheAssumption DEF TableTypes
<1>3. /\ UNCHANGED <<disk, past, table, memory, lock, crashes>>
      /\ UNCHANGED <<counted, request_time, key, path, claim, stamp, code, used, asked>>
      /\ found' = [found EXCEPT ![w] = Find(path[w])]
      /\ \/ /\ Find(path[w]) = 0 /\ bucket' = [bucket EXCEPT ![w] = NoName]
            /\ pc' = [pc EXCEPT ![w] = "miss"]
         \/ /\ Find(path[w]) # 0 /\ bucket' = [bucket EXCEPT ![w] = FindEntry(path[w])]
            /\ \/ pc' = [pc EXCEPT ![w] = "check"]
               \/ pc' = [pc EXCEPT ![w] = "addkey"]
  BY DEF LookupReal, Goto
<1>4. MovesAlone(w)
  BY <1>1, <1>3 DEF WorkerTypes, MovesAlone
<1>5. /\ counted'[w] = counted[w] /\ asked'[w] = asked[w] /\ used'[w] = used[w]
      /\ request_time'[w] = request_time[w] /\ stamp'[w] = stamp[w] /\ code'[w] = code[w]
      /\ key'[w] = key[w] /\ path'[w] = path[w] /\ claim'[w] = claim[w]
      /\ stored' = stored /\ lock' = lock
      /\ \/ pc'[w] = "miss" /\ found'[w] = 0 /\ bucket'[w] = NoName
         \/ /\ pc'[w] \in {"check", "addkey"} /\ found'[w] \in 1..stored /\ bucket'[w] \in Name
  BY <1>1, <1>2, <1>3 DEF WorkerTypes, table
<1>6. HasTypes(w)'
  <2>1. found'[w] \in 0..MaxScripts
    BY <1>1, <1>2, <1>5 DEF WorkerTypes
  <2>2. QED BY <1>1, <1>5, <2>1, Typical DEF HasTypes, Searching
<1>7. Busy(w)'
  BY <1>1, <1>5 DEF Busy, Outside, Storing, Compiled
<1>8. QED BY <1>1, <1>3, <1>4, <1>6, <1>7, QuietStep

(* Where a worker opens the file. *)
LEMMA OpensAName ==
  ASSUME Accounted, NEW w \in Worker, pc[w] \notin Outside
  PROVE  /\ Resolved(w) \in Name
         /\ \A p \in Name : version[real[p]] \in Version /\ mtime[real[p]] \in 0..MaxTime
<1>1. /\ asked[w] \in Name /\ path[w] \in Name \cup {NoName} /\ (claim[w] => path[w] \in Name)
      /\ real \in [Name -> Name]
  BY DEF Accounted, Busy, WorkerTypes, DiskTypes
<1>2. \A p \in Name : version[real[p]] \in Version /\ mtime[real[p]] \in 0..MaxTime
  BY <1>1 DEF Accounted, DiskTypes
<1>3. QED BY <1>1, <1>2 DEF Resolved, Opened

LEMMA MissCounts ==
  ASSUME Accounted, NEW w \in Worker, Miss(w)
  PROVE  Accounted'
<1>1. /\ TableTypes /\ WorkerTypes /\ Busy(w) /\ pc[w] = "miss" /\ pc[w] \notin Outside
      /\ UNCHANGED <<disk, past, table, memory, lock, crashes>>
      /\ UNCHANGED <<counted, request_time, asked>> /\ lock # w
  BY DEF Accounted, Miss, Busy, Outside
<1>2. Resolved(w) \in Name /\ version[real[Resolved(w)]] \in Version
  BY <1>1, OpensAName
<1>3. CASE Run(w, Resolved(w), version[real[Resolved(w)]])
  <2>1. /\ Forget(w)
        /\ \E p \in Name, v \in Version : used' = [used EXCEPT ![w] = [path |-> p, version |-> v]]
    BY <1>2, <1>3 DEF Run
  <2>2. MovesAlone(w) /\ HasTypes(w)' /\ Busy(w)'
    BY <1>1, <2>1, Finishes
  <2>3. QED BY <1>1, <2>2, QuietStep
<1>4. CASE /\ pc' = [pc EXCEPT ![w] = "stamp"] /\ path' = [path EXCEPT ![w] = Resolved(w)]
           /\ claim' = [claim EXCEPT ![w] = FALSE]
           /\ UNCHANGED <<key, found, bucket, stamp, code, used>>
  <2>1. MovesAlone(w)
    BY <1>1, <1>4 DEF WorkerTypes, MovesAlone
  <2>2. /\ pc'[w] = "stamp" /\ path'[w] = Resolved(w) /\ claim'[w] = FALSE
        /\ counted'[w] = counted[w] /\ request_time'[w] = request_time[w] /\ asked'[w] = asked[w]
        /\ key'[w] = key[w] /\ found'[w] = found[w] /\ bucket'[w] = bucket[w]
        /\ stamp'[w] = stamp[w] /\ code'[w] = code[w] /\ used'[w] = used[w] /\ lock' = lock
    BY <1>1, <1>4 DEF WorkerTypes
  <2>3. HasTypes(w)'
    BY <1>1, <1>2, <2>2, Typical DEF HasTypes, Storing
  <2>4. Busy(w)'
    BY <1>1, <1>2, <2>2 DEF Busy, Outside, Storing, Compiled
  <2>5. QED BY <1>1, <2>1, <2>3, <2>4, QuietStep
<1>5. QED BY <1>3, <1>4 DEF Miss, Goto

LEMMA StampCounts ==
  ASSUME Accounted, NEW w \in Worker, Stamp(w)
  PROVE  Accounted'
<1>1. /\ TableTypes /\ WorkerTypes /\ Busy(w) /\ pc[w] = "stamp" /\ pc[w] \notin Outside
      /\ UNCHANGED <<disk, past, table, memory, lock, crashes>>
      /\ UNCHANGED <<counted, request_time, asked>> /\ lock # w /\ path[w] \in Name
  BY DEF Accounted, Stamp, Busy, Outside, Storing
<1>2. version[real[path[w]]] \in Version /\ mtime[real[path[w]]] \in 0..MaxTime
  BY <1>1, OpensAName
<1>3. CASE Run(w, path[w], version[real[path[w]]])
  <2>1. /\ Forget(w)
        /\ \E p \in Name, v \in Version : used' = [used EXCEPT ![w] = [path |-> p, version |-> v]]
    BY <1>1, <1>2, <1>3 DEF Run
  <2>2. MovesAlone(w) /\ HasTypes(w)' /\ Busy(w)'
    BY <1>1, <2>1, Finishes
  <2>3. QED BY <1>1, <2>2, QuietStep
<1>4. CASE /\ pc' = [pc EXCEPT ![w] = "compile"]
           /\ stamp' = [stamp EXCEPT ![w] = IF ValidateTimestamps THEN mtime[real[path[w]]] ELSE 0]
           /\ UNCHANGED <<key, path, claim, found, bucket, code, used>>
  <2>1. MovesAlone(w)
    BY <1>1, <1>4 DEF WorkerTypes, MovesAlone
  <2>2. /\ pc'[w] = "compile" /\ stamp'[w] \in 0..MaxTime
        /\ counted'[w] = counted[w] /\ request_time'[w] = request_time[w] /\ asked'[w] = asked[w]
        /\ key'[w] = key[w] /\ found'[w] = found[w] /\ bucket'[w] = bucket[w]
        /\ path'[w] = path[w] /\ claim'[w] = claim[w] /\ code'[w] = code[w] /\ used'[w] = used[w]
        /\ lock' = lock
    BY <1>1, <1>2, <1>4, CacheAssumption DEF WorkerTypes
  <2>3. HasTypes(w)'
    BY <1>1, <2>2, Typical DEF HasTypes, Storing
  <2>4. Busy(w)'
    BY <1>1, <2>2 DEF Busy, Outside, Storing, Compiled
  <2>5. QED BY <1>1, <2>1, <2>3, <2>4, QuietStep
<1>5. QED BY <1>3, <1>4 DEF Stamp, Goto

LEMMA CompileCounts ==
  ASSUME Accounted, NEW w \in Worker, Compile(w) \/ CompileFails(w)
  PROVE  Accounted'
<1>1. /\ TableTypes /\ WorkerTypes /\ Busy(w) /\ pc[w] = "compile" /\ pc[w] \notin Outside
      /\ UNCHANGED <<disk, past, table, memory, lock, crashes>>
      /\ UNCHANGED <<counted, request_time, asked, used>> /\ lock # w /\ path[w] \in Name
  BY DEF Accounted, Compile, CompileFails, Busy, Outside, Storing
<1>2. CASE CompileFails(w)
  <2>1. Forget(w)
    BY <1>2 DEF CompileFails
  <2>2. MovesAlone(w) /\ HasTypes(w)' /\ Busy(w)'
    BY <1>1, <2>1, Finishes
  <2>3. QED BY <1>1, <2>2, QuietStep
<1>3. CASE Compile(w)
  <2>1. /\ pc' = [pc EXCEPT ![w] = "store"]
        /\ code' = [code EXCEPT ![w] = version[real[path[w]]]]
        /\ UNCHANGED <<key, path, claim, found, bucket, stamp>>
    BY <1>3 DEF Compile, Goto
  <2>2. version[real[path[w]]] \in Version
    BY <1>1, OpensAName
  <2>3. MovesAlone(w)
    BY <1>1, <2>1 DEF WorkerTypes, MovesAlone
  <2>4. /\ pc'[w] = "store" /\ code'[w] \in Version
        /\ counted'[w] = counted[w] /\ request_time'[w] = request_time[w] /\ asked'[w] = asked[w]
        /\ key'[w] = key[w] /\ found'[w] = found[w] /\ bucket'[w] = bucket[w]
        /\ path'[w] = path[w] /\ claim'[w] = claim[w] /\ stamp'[w] = stamp[w]
        /\ used'[w] = used[w] /\ lock' = lock
    BY <1>1, <2>1, <2>2 DEF WorkerTypes
  <2>5. HasTypes(w)'
    BY <1>1, <2>4, Typical DEF HasTypes, Storing, Compiled
  <2>6. Busy(w)'
    BY <1>1, <2>4 DEF Busy, Outside, Storing, Compiled
  <2>7. QED BY <1>1, <2>3, <2>5, <2>6, QuietStep
<1>4. QED BY <1>2, <1>3

LEMMA InvalidateCounts ==
  ASSUME Accounted, NamesPointToScripts, NEW w \in Worker, NEW n \in Name, NEW force \in BOOLEAN,
         Invalidate(w, n, force)
  PROVE  Accounted'
<1>1. /\ TableTypes /\ WorkerTypes /\ Busy(w) /\ pc[w] = "run" /\ real[n] \in Name
      /\ UNCHANGED <<disk, past, table, memory, lock, crashes>> /\ lock # w
  BY DEF Accounted, DiskTypes, Invalidate, Busy
<1>2. Find(real[n]) \in 0..stored /\ Find(real[n]) # 0
      /\ stored \in 0..MaxScripts /\ MaxScripts \in Nat
  BY <1>1, LookupsReturnScripts, CacheAssumption DEF TableTypes, Invalidate
<1>3. /\ pc' = [pc EXCEPT ![w] = "apimark"] /\ found' = [found EXCEPT ![w] = Find(real[n])]
      /\ UNCHANGED <<counted, request_time, key, path, claim, bucket, stamp, code, used, asked>>
  BY DEF Invalidate, Goto
<1>4. MovesAlone(w)
  BY <1>1, <1>3 DEF WorkerTypes, MovesAlone
<1>5. /\ pc'[w] = "apimark" /\ found'[w] \in 1..stored /\ found'[w] \in 0..MaxScripts
      /\ counted'[w] = counted[w] /\ request_time'[w] = request_time[w] /\ asked'[w] = asked[w]
      /\ key'[w] = key[w] /\ bucket'[w] = bucket[w] /\ path'[w] = path[w] /\ claim'[w] = claim[w]
      /\ stamp'[w] = stamp[w] /\ code'[w] = code[w] /\ used'[w] = used[w]
      /\ lock' = lock /\ stored' = stored
  BY <1>1, <1>2, <1>3 DEF WorkerTypes, table
<1>6. HasTypes(w)'
  BY <1>1, <1>5, Typical DEF HasTypes, Outside
<1>7. Busy(w)'
  BY <1>1, <1>5 DEF Busy, Outside, Storing, Compiled
<1>8. QED BY <1>1, <1>4, <1>6, <1>7, QuietStep

(* One more name, as a type. *)
LEMMA NewName ==
  ASSUME TableTypes, NEW k \in Name, NEW b \in Name, entry' = HashIndirect(entry, k, b)
  PROVE  /\ entry' \in [Name -> Entry]
         /\ \A n \in Name : entry'[n].data \in IF entry'[n].indirect THEN Name ELSE 0..stored
<1>1. PICK t \in Name : entry' = [entry EXCEPT ![k] = [indirect |-> TRUE, data |-> t]]
  <2>1. (IF entry[b].indirect THEN entry[b].data ELSE b) \in Name
    BY DEF TableTypes
  <2>2. QED BY <2>1 DEF HashIndirect
<1>2. [indirect |-> TRUE, data |-> t] \in Entry
  BY DEF Entry
<1>3. entry' \in [Name -> Entry]
  BY <1>1, <1>2 DEF TableTypes
<1>4. ASSUME NEW n \in Name
      PROVE  entry'[n].data \in IF entry'[n].indirect THEN Name ELSE 0..stored
  <2>1. CASE n = k
    <3>1. entry'[n] = [indirect |-> TRUE, data |-> t]
      BY <1>1, <2>1 DEF TableTypes
    <3>2. QED BY <3>1
  <2>2. CASE n # k
    <3>1. entry'[n] = entry[n]
      BY <1>1, <2>2 DEF TableTypes
    <3>2. QED BY <1>1, <3>1 DEF TableTypes
  <2>3. QED BY <2>1, <2>2
<1>5. QED BY <1>3, <1>4

(* A key gets its memory from what is free. *)
LEMMA AddKeyCounts ==
  ASSUME Accounted, NEW k \in Name, NEW b \in Name, AddKey(k, b), UNCHANGED <<lock, crashes>>
  PROVE  /\ TableTypes' /\ ScriptsKept /\ wasted' = wasted
         /\ shared_free' \in Nat /\ keymem' \in Nat
         /\ shared_free' + keymem' = shared_free + keymem
<1>1. TableTypes /\ shared_free \in Nat /\ keymem \in Nat /\ KeySize \in Nat
  BY CacheAssumption DEF Accounted, Books
<1>2. /\ UNCHANGED <<wasted, scripts, stored>>
      /\ \/ UNCHANGED <<entry, shared_free, keymem>>
         \/ /\ entry' = HashIndirect(entry, k, b) /\ shared_free >= KeySize
            /\ shared_free' = shared_free - KeySize /\ keymem' = keymem + KeySize
  BY DEF AddKey, Fits
<1>3. memory_exhausted' \in BOOLEAN /\ restart_pending' \in BOOLEAN
  <2>1. \/ UNCHANGED <<memory_exhausted, restart_pending>>
        \/ /\ memory_exhausted' \in {TRUE, ExhaustedBy(KeySize)}
           /\ restart_pending' = (restart_pending \/ TooMuchWasted(wasted))
    BY DEF AddKey, Schedule
  <2>2. ExhaustedBy(KeySize) \in BOOLEAN
    BY DEF ExhaustedBy
  <2>3. QED BY <1>1, <2>1, <2>2 DEF TableTypes
<1>4. /\ shared_free' \in Nat /\ keymem' \in Nat
      /\ shared_free' + keymem' = shared_free + keymem
  <2>1. CASE UNCHANGED <<entry, shared_free, keymem>>
    BY <1>1, <2>1
  <2>2. CASE /\ shared_free >= KeySize
             /\ shared_free' = shared_free - KeySize /\ keymem' = keymem + KeySize
    <3>1. /\ shared_free - KeySize \in Nat /\ keymem + KeySize \in Nat
          /\ (shared_free - KeySize) + (keymem + KeySize) = shared_free + keymem
      BY <1>1, <2>2
    <3>2. QED BY <2>2, <3>1, Zenon
  <2>3. QED BY <1>2, <2>1, <2>2
<1>5. /\ entry' \in [Name -> Entry]
      /\ \A n \in Name : entry'[n].data \in IF entry'[n].indirect THEN Name ELSE 0..stored
  <2>1. CASE entry' = entry
    BY <1>1, <2>1 DEF TableTypes
  <2>2. CASE entry' = HashIndirect(entry, k, b)
    BY <1>1, <2>2, NewName
  <2>3. QED BY <1>2, <2>1, <2>2
<1>6. TableTypes'
  BY <1>1, <1>2, <1>3, <1>5 DEF TableTypes
<1>7. QED BY <1>2, <1>4, <1>6 DEF ScriptsKept

LEMMA AddFoundKeyCounts ==
  ASSUME Accounted, NEW w \in Worker, AddFoundKey(w)
  PROVE  Accounted'
<1>1. /\ TableTypes /\ WorkerTypes /\ Busy(w) /\ pc[w] = "addkey" /\ lock # w
      /\ key[w] \in Name /\ bucket[w] \in Name
      /\ UNCHANGED <<disk, past, lock, crashes>> /\ AddKey(key[w], bucket[w])
  BY DEF Accounted, AddFoundKey, Busy, Outside
<1>2. /\ TableTypes' /\ ScriptsKept /\ wasted' = wasted
      /\ shared_free' \in Nat /\ keymem' \in Nat
      /\ shared_free' + keymem' = shared_free + keymem
  BY <1>1, AddKeyCounts
<1>3. /\ pc' = [pc EXCEPT ![w] = "check"]
      /\ UNCHANGED <<counted, request_time, key, path, claim, found, bucket, stamp, code, used, asked>>
  BY DEF AddFoundKey, Goto, local
<1>4. MovesAlone(w)
  BY <1>1, <1>3 DEF WorkerTypes, MovesAlone
<1>5. /\ pc'[w] = "check" /\ found'[w] = found[w]
      /\ counted'[w] = counted[w] /\ request_time'[w] = request_time[w] /\ asked'[w] = asked[w]
      /\ key'[w] = key[w] /\ bucket'[w] = bucket[w] /\ path'[w] = path[w] /\ claim'[w] = claim[w]
      /\ stamp'[w] = stamp[w] /\ code'[w] = code[w] /\ used'[w] = used[w]
      /\ lock' = lock /\ stored' = stored
  BY <1>1, <1>2, <1>3 DEF WorkerTypes, ScriptsKept
<1>6. HasTypes(w)'
  BY <1>1, <1>5, Typical DEF HasTypes, Searching
<1>7. Busy(w)'
  BY <1>1, <1>5 DEF Busy, Outside, Storing, Compiled
<1>8. DiskKept
  BY <1>1 DEF DiskKept, disk, past
<1>9. QED BY <1>1, <1>2, <1>4, <1>6, <1>7, <1>8, SharedStep

(* The date of the last validation. *)
LEMMA RecordCounts ==
  ASSUME Accounted, NEW w \in Worker, NEW s \in 1..stored, Record(w, s),
         UNCHANGED <<stored, entry, memory, lock, crashes>>
  PROVE  TableTypes' /\ ScriptsKept
<1>1. TableTypes /\ request_time[w] \in 0..MaxTime /\ MaxTime \in Nat /\ Freq \in Nat
  BY CacheAssumption DEF Accounted, WorkerTypes
<1>2. request_time[w] + Freq \in 0..(MaxTime + Freq)
  BY <1>1
<1>3. scripts' = [scripts EXCEPT ![s].revalidate = request_time[w] + Freq]
  BY DEF Record
<1>4. scripts \in [1..stored -> Script]
  BY <1>1 DEF TableTypes
<1>5. scripts' \in [1..stored -> Script]
  BY <1>2, <1>3, <1>4 DEF Script
<1>6. \A t \in 1..stored :
        /\ scripts'[t].full_path = scripts[t].full_path
        /\ scripts'[t].memory_consumption = scripts[t].memory_consumption
        /\ scripts'[t].corrupted = scripts[t].corrupted
  BY <1>3, <1>4 DEF Script
<1>7. QED BY <1>1, <1>5, <1>6 DEF TableTypes, ScriptsKept, memory

LEMMA CheckCounts ==
  ASSUME Accounted, NEW w \in Worker, Check(w)
  PROVE  Accounted'
<1>1. /\ TableTypes /\ WorkerTypes /\ Busy(w) /\ pc[w] = "check" /\ lock # w
      /\ found[w] \in 1..stored
      /\ UNCHANGED <<disk, past, stored, entry, memory, lock, crashes, counted, request_time, asked>>
  BY DEF Accounted, Check, Busy, Outside
<1>2. scripts[found[w]].full_path \in Name /\ scripts[found[w]].version \in Version
  <2>1. scripts[found[w]] \in Script
    BY <1>1 DEF TableTypes
  <2>2. QED BY <2>1 DEF Script
<1>3. \/ Run(w, scripts[found[w]].full_path, scripts[found[w]].version)
      \/ /\ \E l \in {"miss", "mark"} : pc' = [pc EXCEPT ![w] = l]
         /\ UNCHANGED <<key, path, claim, found, bucket, stamp, code, used>>
  BY DEF Check, Goto, local
<1>4. MovesAlone(w) /\ HasTypes(w)' /\ Busy(w)'
  <2>1. CASE Run(w, scripts[found[w]].full_path, scripts[found[w]].version)
    <3>1. /\ Forget(w)
          /\ \E p \in Name, v \in Version : used' = [used EXCEPT ![w] = [path |-> p, version |-> v]]
      BY <1>2, <2>1 DEF Run
    <3>2. QED BY <1>1, <3>1, Finishes
  <2>2. CASE /\ \E l \in {"miss", "mark"} : pc' = [pc EXCEPT ![w] = l]
             /\ UNCHANGED <<key, path, claim, found, bucket, stamp, code, used>>
    <3>1. MovesAlone(w)
      BY <1>1, <2>2 DEF WorkerTypes, MovesAlone
    <3>2. /\ pc'[w] \in {"miss", "mark"} /\ found'[w] = found[w]
          /\ counted'[w] = counted[w] /\ request_time'[w] = request_time[w] /\ asked'[w] = asked[w]
          /\ key'[w] = key[w] /\ bucket'[w] = bucket[w] /\ path'[w] = path[w]
          /\ claim'[w] = claim[w]
          /\ stamp'[w] = stamp[w] /\ code'[w] = code[w] /\ used'[w] = used[w]
          /\ lock' = lock /\ stored' = stored
      BY <1>1, <2>2 DEF WorkerTypes
    <3>3. HasTypes(w)'
      BY <1>1, <3>2, Typical DEF HasTypes, Searching
    <3>4. Busy(w)'
      BY <1>1, <3>2 DEF Busy, Outside, Storing, Compiled
    <3>5. QED BY <3>1, <3>3, <3>4
  <2>3. QED BY <1>3, <2>1, <2>2
<1>5. TableTypes' /\ ScriptsKept
  <2>1. CASE scripts' = scripts
    BY <1>1, <2>1 DEF TableTypes, ScriptsKept, memory
  <2>2. CASE Record(w, found[w])
    BY <1>1, <2>2, RecordCounts
  <2>3. QED BY <2>1, <2>2 DEF Check
<1>6. /\ wasted' = wasted /\ shared_free' \in Nat /\ keymem' \in Nat
      /\ shared_free' + keymem' = shared_free + keymem /\ DiskKept
  BY <1>1 DEF Accounted, Books, memory, DiskKept, disk, past
<1>7. QED BY <1>1, <1>4, <1>5, <1>6, SharedStep

LEMMA IsScriptCachedCounts ==
  ASSUME Accounted, NamesPointToScripts, NEW w \in Worker, NEW n \in Name, IsScriptCached(w, n)
  PROVE  Accounted'
<1>1. /\ TableTypes /\ WorkerTypes /\ Busy(w) /\ pc[w] = "run" /\ lock # w
      /\ UNCHANGED <<disk, past, stored, entry, memory, lock, crashes>>
      /\ UNCHANGED <<pc, counted, request_time, local, used, asked>>
  BY DEF Accounted, IsScriptCached, Busy
<1>2. Find(n) \in 1..stored
  <2>1. Find(n) \in 0..stored /\ Find(n) # 0 /\ stored \in Nat
    BY <1>1, LookupsReturnScripts, Weighable DEF IsScriptCached
  <2>2. QED BY <2>1
<1>3. TableTypes' /\ ScriptsKept
  BY <1>1, <1>2, RecordCounts DEF IsScriptCached
<1>4. MovesAlone(w)
  BY <1>1 DEF WorkerTypes, MovesAlone, local
<1>5. HasTypes(w)'
  BY <1>1, Typical DEF HasTypes, local
<1>6. Busy(w)'
  BY <1>1 DEF Busy, Outside, Storing, Compiled, local
<1>7. /\ wasted' = wasted /\ shared_free' \in Nat /\ keymem' \in Nat
      /\ shared_free' + keymem' = shared_free + keymem /\ DiskKept
  BY <1>1 DEF Accounted, Books, memory, DiskKept, disk, past
<1>8. QED BY <1>1, <1>3, <1>4, <1>5, <1>6, <1>7, SharedStep

LEMMA StoreNothingCounts ==
  ASSUME Accounted, NamesPointToScripts, NEW w \in Worker, StoreNothing(w)
  PROVE  Accounted'
<1>1. /\ TableTypes /\ WorkerTypes /\ Busy(w) /\ pc[w] = "store" /\ lock # w
      /\ path[w] \in Name /\ key[w] \in Name /\ code[w] \in Version
      /\ UNCHANGED <<disk, past, lock, crashes, counted, request_time, asked>>
      /\ Run(w, path[w], code[w])
  BY DEF Accounted, StoreNothing, Busy, Outside, Storing, Compiled
<1>2. MovesAlone(w) /\ HasTypes(w)' /\ Busy(w)'
  <2>1. /\ Forget(w)
        /\ \E p \in Name, v \in Version : used' = [used EXCEPT ![w] = [path |-> p, version |-> v]]
    BY <1>1 DEF Run
  <2>2. QED BY <1>1, <2>1, Finishes
<1>3. FindEntry(path[w]) \in Name
  BY <1>1, LookupsReturnScripts
<1>4. \/ AddKey(key[w], FindEntry(path[w]))
      \/ UNCHANGED <<table, memory>>
      \/ /\ UNCHANGED <<table, shared_free, wasted, keymem>>
         /\ memory_exhausted' \in {TRUE, ExhaustedBy(Size(w))}
         /\ restart_pending' = (restart_pending \/ TooMuchWasted(wasted))
  BY DEF StoreNothing, Schedule
<1>5. /\ TableTypes' /\ ScriptsKept /\ wasted' = wasted
      /\ shared_free' \in Nat /\ keymem' \in Nat
      /\ shared_free' + keymem' = shared_free + keymem
  <2>1. CASE AddKey(key[w], FindEntry(path[w]))
    BY <1>1, <1>3, <2>1, AddKeyCounts
  <2>2. CASE UNCHANGED <<table, memory>>
    BY <1>1, <2>2 DEF Accounted, Books, TableTypes, ScriptsKept, table, memory
  <2>3. CASE /\ UNCHANGED <<table, shared_free, wasted, keymem>>
             /\ memory_exhausted' \in {TRUE, ExhaustedBy(Size(w))}
             /\ restart_pending' = (restart_pending \/ TooMuchWasted(wasted))
    <3>1. memory_exhausted' \in BOOLEAN /\ restart_pending' \in BOOLEAN
      BY <1>1, <2>3 DEF ExhaustedBy, TableTypes
    <3>2. TableTypes' /\ ScriptsKept
      BY <1>1, <2>3, <3>1 DEF TableTypes, ScriptsKept, table
    <3>3. QED BY <2>3, <3>2 DEF Accounted, Books
  <2>4. QED BY <1>4, <2>1, <2>2, <2>3
<1>6. DiskKept
  BY <1>1 DEF DiskKept, disk, past
<1>7. QED BY <1>1, <1>2, <1>5, <1>6, SharedStep

-----------------------------------------------------------------------------
(* The steps under the lock. *)
LEMMA LockedStep ==
  ASSUME Accounted, NEW w \in Worker, DiskKept, MovesAlone(w), HasTypes(w)',
         TableTypes', Books', Busy(w)', stored <= stored',
         lock \in {w, NoWorker}, lock' \in {w, NoWorker}
  PROVE  Accounted'
<1>1. WorkerTypes' /\ OthersKept(w) /\ TableTypes
  BY AloneTypes DEF Accounted
<1>2. DiskTypes'
  BY DEF Accounted, DiskTypes, DiskKept
<1>3. ASSUME NEW v \in Worker PROVE Busy(v)'
  <2>1. CASE v = w
    BY <2>1
  <2>2. CASE v # w
    <3>1. v \in Worker \ {w} /\ Busy(v) /\ lock # v /\ lock' # v
      BY <2>2, CacheAssumption DEF Accounted
    <3>2. QED BY <1>1, <3>1, OthersBusy
  <2>3. QED BY <2>1, <2>2
<1>4. QED BY <1>1, <1>2, <1>3 DEF Accounted

LEMMA MarkCounts ==
  ASSUME Accounted, NEW w \in Worker, Mark(w)
  PROVE  Accounted'
<1>1. /\ TableTypes /\ WorkerTypes /\ Busy(w) /\ Books /\ pc[w] \in {"mark", "apimark"}
      /\ found[w] \in 1..stored /\ lock = NoWorker /\ lock' = lock /\ lock # w /\ lock' # w
      /\ UNCHANGED <<disk, past, stored, entry, shared_free, memory_exhausted, keymem, crashes>>
      /\ UNCHANGED <<counted, request_time, key, path, claim, bucket, stamp, code, used, asked>>
  BY CacheAssumption DEF Accounted, Mark, Busy, Outside
<1>2. /\ \E l \in {"miss", "run"} :
            (l = "miss" <=> pc[w] = "mark") /\ pc' = [pc EXCEPT ![w] = l]
      /\ found' = [found EXCEPT ![w] = 0]
  BY DEF Mark, Goto
<1>3. MovesAlone(w)
  BY <1>1, <1>2 DEF WorkerTypes, MovesAlone
<1>4. /\ pc'[w] \in {"miss", "run"} /\ (pc'[w] = "miss" => pc[w] = "mark")
      /\ found'[w] = 0 /\ 0 \in 0..MaxScripts
      /\ counted'[w] = counted[w] /\ request_time'[w] = request_time[w] /\ asked'[w] = asked[w]
      /\ key'[w] = key[w] /\ bucket'[w] = bucket[w] /\ path'[w] = path[w] /\ claim'[w] = claim[w]
      /\ stamp'[w] = stamp[w] /\ code'[w] = code[w] /\ used'[w] = used[w]
  BY <1>1, <1>2, CacheAssumption DEF WorkerTypes
<1>5. HasTypes(w)'
  BY <1>1, <1>4, Typical DEF HasTypes, Searching, Outside
<1>6. Busy(w)'
  BY <1>1, <1>4 DEF Busy, Outside, Storing, Compiled
<1>7. InFlight = 0 /\ InFlight' = 0 /\ \A s \in 1..stored : Weighed(s) /\ Weighed(s)'
  BY <1>1 DEF InFlight, Weighed
<1>8. CASE UNCHANGED <<scripts, wasted, restart_pending>>
  <2>1. TableTypes' /\ ScriptsKept
    BY <1>1, <1>8 DEF TableTypes, ScriptsKept
  <2>2. /\ WeighedNoMore
        /\ shared_free + keymem + InFlight <= shared_free + keymem + InFlight
    BY <1>1, <1>7 DEF WeighedNoMore, Books
  <2>3. Books'
    <3>1. /\ shared_free' = shared_free /\ keymem' = keymem /\ InFlight' = InFlight
          /\ InFlight \in Nat /\ wasted' = wasted /\ crashes' = crashes
      BY <1>1, <1>7, <1>8
    <3>2. shared_free' \in Nat /\ keymem' \in Nat /\ InFlight' \in Nat
      BY <1>1, <3>1 DEF Books
    <3>3. /\ shared_free' + keymem' + InFlight' = shared_free + keymem + InFlight
          /\ shared_free' + keymem' + InFlight' <= shared_free + keymem + InFlight
      BY <2>2, <3>1, Zenon
    <3>4. QED BY <1>1, <2>1, <2>2, <3>1, <3>2, <3>3, BooksKept DEF ScriptsKept
  <2>4. stored <= stored'
    BY <1>1, Weighable
  <2>5. DiskKept
    BY <1>1 DEF DiskKept, disk, past
  <2>6. QED BY <1>1, <1>3, <1>5, <1>6, <2>1, <2>3, <2>4, <2>5, LockedStep
<1>9. CASE /\ StillLive(found[w])
           /\ scripts' = [scripts EXCEPT ![found[w]].corrupted = TRUE, ![found[w]].timestamp = 0]
           /\ wasted' = wasted + scripts[found[w]].memory_consumption
           /\ restart_pending' = (restart_pending \/
                (memory_exhausted /\ TooMuchWasted(wasted + scripts[found[w]].memory_consumption)))
  <2>1. PICK s \in 1..stored : s = found[w]
    BY <1>1
  <2>2. scripts \in [1..stored -> Script] /\ 0 \in 0..MaxTime
    BY <1>1, CacheAssumption DEF TableTypes
  <2>3. scripts' \in [1..stored -> Script]
    BY <1>9, <2>1, <2>2 DEF Script
  <2>4. /\ \A t \in 1..stored :
             /\ scripts'[t].full_path = scripts[t].full_path
             /\ scripts'[t].memory_consumption = scripts[t].memory_consumption
             /\ t # s => scripts'[t].corrupted = scripts[t].corrupted
        /\ scripts'[s].corrupted = TRUE /\ ~scripts[s].corrupted
    BY <1>9, <2>1, <2>2 DEF Script, StillLive
  <2>5. TableTypes'
    BY <1>1, <1>9, <2>3 DEF TableTypes
  <2>6. Weights' = Weights
    BY <1>1, <2>4 DEF Weights
  <2>7. Dead' = Dead \cup {s} /\ s \notin Dead
    <3>1. \A t \in 1..stored : t \in Dead <=> scripts[t].corrupted
      BY DEF Dead, Live
    <3>2. Dead' = {t \in 1..stored : scripts'[t].corrupted}
      BY <1>1 DEF Dead, Live
    <3>3. \A t \in 1..stored : t \in Dead' <=> t \in Dead \/ t = s
      BY <2>4, <3>1, <3>2
    <3>4. Dead \subseteq 1..stored /\ Dead' \subseteq 1..stored
      BY <1>1 DEF Dead
    <3>5. QED BY <2>1, <2>4, <3>1, <3>3, <3>4
  <2>8. /\ IsFiniteSet(Dead) /\ \A t \in Dead : Weights[t] \in Nat
        /\ Weights[s] \in Nat /\ Weights[s] = SizeOf[scripts[s].full_path]
    BY <1>1, Weighable, FS_Subset
  <2>9. Total(Weights, Dead)' = Weights[s] + Total(Weights, Dead)
    <3>1. Total(Weights, Dead \cup {s}) = Weights[s] + Total(Weights, Dead)
      BY <2>7, <2>8, TotalAdd
    <3>2. QED BY <2>6, <2>7, <3>1
  <2>10. Total(Weights, 1..stored)' = Total(Weights, 1..stored)
    BY <1>1, <2>6
  <2>11. /\ wasted' \in Nat /\ wasted' <= Total(Weights, Dead)'
         /\ crashes' = 0 => wasted' = Total(Weights, Dead)'
    <3>1. PICK d \in Nat : d = Total(Weights, Dead)
      BY <2>8, FiniteBoxes
    <3>2. PICK m \in Nat : m = scripts[s].memory_consumption
      BY <2>2 DEF Script
    <3>3. PICK h \in Nat : h = Weights[s]
      BY <2>8
    <3>4. wasted \in Nat /\ wasted <= d /\ m <= h
      BY <1>1, <2>8, <3>1, <3>2, <3>3 DEF Books
    <3>5. crashes = 0 => wasted = d /\ m = h
      BY <1>1, <1>7, <2>8, <3>1, <3>2, <3>3 DEF Books
    <3>6. wasted + m \in Nat /\ wasted + m <= h + d /\ (crashes = 0 => wasted + m = h + d)
      BY <3>4, <3>5
    <3>7. /\ wasted' = wasted + m /\ Total(Weights, Dead)' = h + d /\ crashes' = crashes
      BY <1>1, <1>9, <2>1, <2>9, <3>1, <3>2, <3>3, Zenon
    <3>8. QED BY <3>6, <3>7, Zenon
  <2>12. \A t \in 1..stored' :
           /\ scripts'[t].memory_consumption <= SizeOf[scripts'[t].full_path]
           /\ crashes' = 0 /\ Weighed(t)' =>
                scripts'[t].memory_consumption = SizeOf[scripts'[t].full_path]
    BY <1>1, <1>7, <2>4 DEF Books
  <2>13. Books'
    <3>1. /\ shared_free' = shared_free /\ keymem' = keymem /\ crashes' = crashes
          /\ InFlight' = InFlight
      BY <1>1, <1>7
    <3>2. QED BY <1>1, <2>10, <2>11, <2>12, <3>1 DEF Books
  <2>14. stored <= stored'
    BY <1>1, Weighable
  <2>15. DiskKept
    BY <1>1 DEF DiskKept, disk, past
  <2>16. QED BY <1>1, <1>3, <1>5, <1>6, <2>5, <2>13, <2>14, <2>15, LockedStep
<1>10. QED BY <1>8, <1>9 DEF Mark

LEMMA StoreBeginCounts ==
  ASSUME Accounted, NEW w \in Worker, StoreBegin(w)
  PROVE  Accounted'
<1>1. /\ TableTypes /\ WorkerTypes /\ Busy(w) /\ Books /\ pc[w] = "store"
      /\ path[w] \in Name /\ lock = NoWorker /\ lock' = w /\ lock # w /\ stored < MaxScripts
      /\ UNCHANGED <<disk, past, table, wasted, memory_exhausted, restart_pending, keymem, crashes>>
      /\ UNCHANGED <<counted, request_time, local, used, asked>>
      /\ shared_free' = shared_free - Size(w) /\ shared_free >= Size(w)
  BY CacheAssumption DEF Accounted, StoreBegin, Busy, Storing, Compiled, Fits
<1>2. pc' = [pc EXCEPT ![w] = "publish"]
  BY DEF StoreBegin, Goto
<1>3. MovesAlone(w)
  BY <1>1, <1>2 DEF WorkerTypes, MovesAlone, local
<1>4. /\ pc'[w] = "publish" /\ found'[w] = found[w]
      /\ counted'[w] = counted[w] /\ request_time'[w] = request_time[w] /\ asked'[w] = asked[w]
      /\ key'[w] = key[w] /\ bucket'[w] = bucket[w] /\ path'[w] = path[w] /\ claim'[w] = claim[w]
      /\ stamp'[w] = stamp[w] /\ code'[w] = code[w] /\ used'[w] = used[w]
      /\ stored' = stored /\ scripts' = scripts
  BY <1>1, <1>2 DEF WorkerTypes, local, table
<1>5. HasTypes(w)'
  BY <1>1, <1>4, Typical DEF HasTypes, Storing, Compiled
<1>6. Busy(w)'
  BY <1>1, <1>4 DEF Busy, Outside, Storing, Compiled
<1>7. TableTypes'
  BY <1>1 DEF TableTypes, table
<1>8. PICK z \in Nat : z = Size(w) /\ InFlight = 0 /\ InFlight' = z
  <2>1. Size(w) = SizeOf[path[w]] /\ SizeOf[path[w]] \in Nat
    BY <1>1, CacheAssumption DEF Size
  <2>2. InFlight' = SizeOf[path[w]]
    BY <1>1, <1>4, CacheAssumption DEF InFlight
  <2>3. QED BY <1>1, <2>1, <2>2 DEF InFlight
<1>9. WeighedNoMore
  BY <1>1 DEF WeighedNoMore, Weighed
<1>10. Books'
  <2>1. shared_free \in Nat /\ keymem \in Nat /\ shared_free >= z
    BY <1>1, <1>8 DEF Books
  <2>2. /\ shared_free - z \in Nat
        /\ (shared_free - z) + keymem + z = shared_free + keymem + 0
        /\ (shared_free - z) + keymem + z <= shared_free + keymem + 0
    BY <2>1
  <2>3. /\ shared_free' = shared_free - z /\ keymem' = keymem /\ InFlight' = z /\ InFlight = 0
        /\ wasted' = wasted /\ crashes' = crashes
    BY <1>1, <1>8
  <2>4. /\ shared_free' + keymem' + InFlight' = shared_free + keymem + InFlight
        /\ shared_free' + keymem' + InFlight' <= shared_free + keymem + InFlight
        /\ shared_free' \in Nat /\ keymem' \in Nat /\ InFlight' \in Nat /\ InFlight \in Nat
    BY <2>1, <2>2, <2>3, Zenon
  <2>5. QED BY <1>1, <1>4, <1>9, <2>3, <2>4, BooksKept
<1>11. stored <= stored' /\ DiskKept
  BY <1>1, <1>4, Weighable DEF DiskKept, disk, past
<1>12. QED BY <1>1, <1>3, <1>5, <1>6, <1>7, <1>10, <1>11, LockedStep

(* A script more, under its path. *)
LEMMA NewScriptTypes ==
  ASSUME TableTypes, NamesPointToScripts, NEW p \in Name, NEW s \in ScriptId, stored <= s,
         entry' = HashDirect(entry, p, s)
  PROVE  /\ entry' \in [Name -> Entry]
         /\ \A n \in Name : entry'[n].data \in IF entry'[n].indirect THEN Name ELSE 0..s
<1>1. /\ entry \in [Name -> Entry]
      /\ \A n \in Name : entry[n].data \in IF entry[n].indirect THEN Name ELSE 0..stored
  BY DEF TableTypes
<1>2. s \in 0..s /\ 0..stored \subseteq 0..s
  <2>1. stored \in Nat /\ s \in Nat
    BY Weighable DEF ScriptId
  <2>2. QED BY <2>1
<1>3. PICK t \in Name : /\ ~entry'[t].indirect /\ entry'[t].data = s /\ entry'[t] \in Entry
                        /\ \A n \in Name \ {t} : entry'[n] = entry[n]
                        /\ entry' = [n \in Name |-> entry'[n]]
  <2>1. CASE entry[p].indirect
    <3>1. PICK t \in Name : t = entry[p].data /\ ~entry[t].indirect
      BY <1>1, <2>1 DEF NamesPointToScripts
    <3>2. entry' = [entry EXCEPT ![t].data = s]
      BY <2>1, <3>1 DEF HashDirect
    <3>3. entry'[t] = [entry[t] EXCEPT !.data = s] /\ entry[t] \in Entry
      BY <1>1, <3>1, <3>2
    <3>4. ~entry'[t].indirect /\ entry'[t].data = s /\ entry'[t] \in Entry
      BY <3>1, <3>3 DEF Entry
    <3>5. \A n \in Name \ {t} : entry'[n] = entry[n]
      BY <1>1, <3>2
    <3>6. entry' = [n \in Name |-> entry'[n]]
      BY <1>1, <3>2
    <3>7. QED BY <3>4, <3>5, <3>6
  <2>2. CASE ~entry[p].indirect
    <3>1. entry' = [entry EXCEPT ![p] = [indirect |-> FALSE, data |-> s]]
      BY <2>2 DEF HashDirect
    <3>2. entry'[p] = [indirect |-> FALSE, data |-> s]
      BY <1>1, <3>1
    <3>3. ~entry'[p].indirect /\ entry'[p].data = s /\ entry'[p] \in Entry
      BY <3>2 DEF Entry
    <3>4. \A n \in Name \ {p} : entry'[n] = entry[n]
      BY <1>1, <3>1
    <3>5. entry' = [n \in Name |-> entry'[n]]
      BY <1>1, <3>1
    <3>6. QED BY <3>3, <3>4, <3>5
  <2>3. QED BY <2>1, <2>2
<1>4. entry' \in [Name -> Entry]
  <2>1. \A n \in Name : entry'[n] \in Entry
    BY <1>1, <1>3
  <2>2. QED BY <1>3, <2>1
<1>5. ASSUME NEW n \in Name
      PROVE  entry'[n].data \in IF entry'[n].indirect THEN Name ELSE 0..s
  <2>1. CASE n = t
    BY <1>2, <1>3, <2>1
  <2>2. CASE n # t
    <3>1. entry'[n] = entry[n]
      BY <1>3, <2>2
    <3>2. QED BY <1>1, <1>2, <3>1
  <2>3. QED BY <2>1, <2>2
<1>6. QED BY <1>4, <1>5

LEMMA StorePublishCounts ==
  ASSUME Accounted, NamesPointToScripts, NEW w \in Worker, StorePublish(w)
  PROVE  Accounted'
<1> DEFINE z == SizeOf[path[w]]
           g == [s \in 1..(stored + 1) |-> IF s <= stored THEN Weights[s] ELSE z]
<1>1. /\ TableTypes /\ WorkerTypes /\ Busy(w) /\ Books /\ pc[w] = "publish"
      /\ path[w] \in Name /\ lock = w /\ lock' = w /\ w # NoWorker /\ stored < MaxScripts
      /\ code[w] \in Version
      /\ UNCHANGED <<disk, past, memory, lock, crashes>>
      /\ UNCHANGED <<counted, request_time, local, used, asked>> /\ stored' = stored + 1
      /\ pc' = [pc EXCEPT ![w] = "link"] /\ entry' = HashDirect(entry, path[w], stored + 1)
  BY CacheAssumption DEF Accounted, StorePublish, Busy, Storing, Compiled, Goto
<1>2. PICK rev \in 0..(MaxTime + Freq) :
        scripts' = [s \in 1..(stored + 1) |-> IF s <= stored THEN scripts[s] ELSE
          [full_path |-> path[w], timestamp |-> stamp[w], version |-> code[w],
           corrupted |-> FALSE, memory_consumption |-> 0, revalidate |-> rev]]
  <2>1. request_time[w] \in 0..MaxTime /\ MaxTime \in Nat /\ Freq \in Nat
    BY <1>1, CacheAssumption DEF WorkerTypes
  <2>2. request_time[w] + Freq \in 0..(MaxTime + Freq) /\ 0 \in 0..(MaxTime + Freq)
    BY <2>1
  <2>3. (IF ValidateTimestamps THEN request_time[w] + Freq ELSE 0) \in 0..(MaxTime + Freq)
    BY <2>2
  <2>4. QED BY <2>3 DEF StorePublish
<1>3. stored \in Nat /\ stored + 1 \in ScriptId /\ z \in Nat /\ MaxScripts \in Nat
      /\ 1..(stored + 1) = (1..stored) \cup {stored + 1} /\ stored + 1 \notin 1..stored
  BY <1>1, Weighable, CacheAssumption DEF ScriptId
<1>4. stored' \in 0..MaxScripts
  BY <1>1, <1>3
<1>5. scripts' \in [1..(stored + 1) -> Script]
  <2>1. /\ stamp[w] \in 0..MaxTime /\ 0 \in Nat
    BY <1>1 DEF WorkerTypes
  <2>2. [full_path |-> path[w], timestamp |-> stamp[w], version |-> code[w],
         corrupted |-> FALSE, memory_consumption |-> 0, revalidate |-> rev] \in Script
    BY <1>1, <2>1 DEF Script
  <2>3. \A s \in 1..(stored + 1) : s <= stored => scripts[s] \in Script
    BY <1>1, <1>3 DEF TableTypes
  <2>4. QED BY <1>2, <2>2, <2>3
<1>6. /\ \A s \in 1..stored : scripts'[s] = scripts[s]
      /\ scripts'[stored + 1].full_path = path[w] /\ scripts'[stored + 1].memory_consumption = 0
      /\ scripts'[stored + 1].corrupted = FALSE
  <2>1. \A s \in 1..stored : s \in 1..(stored + 1) /\ s <= stored
    BY <1>3
  <2>2. stored + 1 \in 1..(stored + 1) /\ ~(stored + 1 <= stored)
    BY <1>3
  <2>3. QED BY <1>2, <2>1, <2>2
<1>7. TableTypes'
  <2>1. /\ entry' \in [Name -> Entry]
        /\ \A n \in Name : entry'[n].data \in IF entry'[n].indirect THEN Name ELSE 0..(stored + 1)
    BY <1>1, <1>3, NewScriptTypes
  <2>2. QED BY <1>1, <1>4, <1>5, <2>1 DEF TableTypes, memory
<1>8. MovesAlone(w)
  BY <1>1 DEF WorkerTypes, MovesAlone, local
<1>9. /\ pc'[w] = "link" /\ found'[w] = found[w]
      /\ counted'[w] = counted[w] /\ request_time'[w] = request_time[w] /\ asked'[w] = asked[w]
      /\ key'[w] = key[w] /\ bucket'[w] = bucket[w] /\ path'[w] = path[w] /\ claim'[w] = claim[w]
      /\ stamp'[w] = stamp[w] /\ code'[w] = code[w] /\ used'[w] = used[w]
  BY <1>1 DEF WorkerTypes, local
<1>10. HasTypes(w)'
  BY <1>1, <1>9, Typical DEF HasTypes, Storing, Compiled
<1>11. Busy(w)'
  <2>1. stored + 1 # 0
    BY <1>3
  <2>2. QED BY <1>1, <1>6, <1>9, <2>1 DEF Busy, Outside, Storing, Compiled
<1>12. /\ InFlight = z /\ InFlight' = 0
       /\ \A s \in 1..stored : Weighed(s)
  BY <1>1, <1>9 DEF InFlight, Weighed
<1>13. Weights' = g
  <2>1. \A s \in 1..stored : Weights[s] = SizeOf[scripts[s].full_path] /\ s <= stored
    BY <1>1, <1>3, Weighable
  <2>2. ~(stored + 1 <= stored)
    BY <1>3
  <2>3. \A s \in 1..(stored + 1) :
          SizeOf[scripts'[s].full_path] = IF s <= stored THEN Weights[s] ELSE z
    BY <1>3, <1>6, <2>1, <2>2
  <2>4. QED BY <1>1, <2>3 DEF Weights
<1>14. /\ \A s \in 1..stored : g[s] = Weights[s] /\ g[s] \in Nat
       /\ g[stored + 1] = z
  BY <1>1, <1>3, Weighable
<1> HIDE DEF g
<1>15. Total(g, 1..(stored + 1)) = z + Total(Weights, 1..stored)
  <2>1. IsFiniteSet(1..stored)
    BY <1>1, Weighable
  <2>2. Total(g, (1..stored) \cup {stored + 1}) = g[stored + 1] + Total(g, 1..stored)
    BY <1>3, <1>14, <2>1, TotalAdd
  <2>3. Total(g, 1..stored) = Total(Weights, 1..stored)
    BY <1>14, TotalSame
  <2>4. QED BY <1>3, <1>14, <2>2, <2>3
<1>16. Dead' = Dead /\ Total(g, Dead) = Total(Weights, Dead)
  <2>1. Dead = {s \in 1..stored : scripts[s].corrupted}
    BY DEF Dead, Live
  <2>2. Dead' = {s \in 1..(stored + 1) : scripts'[s].corrupted}
    BY <1>1 DEF Dead, Live
  <2>3. Dead' = Dead
    BY <1>3, <1>6, <2>1, <2>2
  <2>4. QED BY <1>14, <2>1, <2>3, TotalSame
<1>17. Books'
  <2>1. PICK n \in Nat : n = Total(Weights, 1..stored)
    BY <1>1, Weighable, FiniteBoxes
  <2>2. shared_free \in Nat /\ keymem \in Nat /\ wasted \in Nat /\ Memory \in Nat
    BY <1>1, CacheAssumption DEF Books
  <2>3. /\ shared_free + keymem + n + z <= Memory
        /\ crashes = 0 => shared_free + keymem + n + z = Memory
    BY <1>1, <1>12, <2>1 DEF Books
  <2>4. /\ shared_free + keymem + (z + n) + 0 <= Memory
        /\ crashes = 0 => shared_free + keymem + (z + n) + 0 = Memory
    BY <1>3, <2>2, <2>3
  <2>5. /\ shared_free' = shared_free /\ keymem' = keymem /\ wasted' = wasted
        /\ Total(Weights, 1..stored)' = z + n
        /\ Total(Weights, Dead)' = Total(Weights, Dead)
    BY <1>1, <1>13, <1>15, <1>16, <2>1 DEF memory
  <2>6. /\ shared_free' + keymem' + Total(Weights, 1..stored)' + InFlight' <= Memory
        /\ crashes' = 0 => shared_free' + keymem' + Total(Weights, 1..stored)' + InFlight' = Memory
    BY <1>1, <1>12, <2>4, <2>5, Zenon
  <2>7. /\ wasted' \in Nat /\ wasted' <= Total(Weights, Dead)'
        /\ crashes' = 0 => wasted' = Total(Weights, Dead)'
    BY <1>1, <2>5 DEF Books
  <2>8. ASSUME NEW s \in 1..(stored + 1)
        PROVE  /\ scripts'[s].memory_consumption <= SizeOf[scripts'[s].full_path]
               /\ crashes' = 0 /\ Weighed(s)' =>
                    scripts'[s].memory_consumption = SizeOf[scripts'[s].full_path]
    <3>1. CASE s \in 1..stored
      BY <1>1, <1>6, <1>12, <3>1 DEF Books
    <3>2. CASE s = stored + 1
      <4>1. s \in 1..(stored + 1) /\ 0 <= z
        BY <1>3
      <4>2. ~Weighed(s)'
        BY <1>1, <1>9, <3>2 DEF Weighed
      <4>3. QED BY <1>6, <3>2, <4>1, <4>2
    <3>3. QED BY <1>3, <3>1, <3>2
  <2>9. QED BY <1>1, <2>2, <2>5, <2>6, <2>7, <2>8 DEF Books
<1>18. stored <= stored' /\ DiskKept
  BY <1>1, <1>3 DEF DiskKept, disk, past
<1>19. QED BY <1>1, <1>7, <1>8, <1>10, <1>11, <1>17, <1>18, LockedStep

LEMMA StoreLinkCounts ==
  ASSUME Accounted, NEW w \in Worker, StoreLink(w)
  PROVE  Accounted'
<1>1. /\ TableTypes /\ WorkerTypes /\ Busy(w) /\ Books /\ pc[w] = "link"
      /\ path[w] \in Name /\ key[w] \in Name /\ code[w] \in Version
      /\ lock = w /\ lock' = NoWorker /\ w # NoWorker /\ lock' # w
      /\ stored # 0 /\ scripts[stored].full_path = path[w]
      /\ scripts[stored].memory_consumption = 0 /\ ~scripts[stored].corrupted
      /\ scripts' = [scripts EXCEPT ![stored].memory_consumption = SizeOf[path[w]]]
      /\ UNCHANGED <<disk, past, stored, shared_free, wasted, keymem, crashes>>
      /\ UNCHANGED <<counted, request_time, asked>> /\ Run(w, path[w], code[w])
  BY CacheAssumption DEF Accounted, StoreLink, Busy, Storing, Compiled, Outside, Consumption, Size
<1>2. stored \in 1..stored /\ SizeOf[path[w]] \in Nat
  <2>1. stored \in Nat
    BY <1>1, Weighable
  <2>2. QED BY <1>1, <2>1, CacheAssumption
<1>3. scripts \in [1..stored -> Script]
  BY <1>1 DEF TableTypes
<1>4. scripts' \in [1..stored -> Script]
  BY <1>1, <1>2, <1>3 DEF Script
<1>5. /\ \A s \in 1..stored : /\ scripts'[s].full_path = scripts[s].full_path
                              /\ scripts'[s].corrupted = scripts[s].corrupted
                              /\ s # stored => scripts'[s] = scripts[s]
      /\ scripts'[stored].memory_consumption = SizeOf[scripts'[stored].full_path]
      /\ SizeOf[scripts'[stored].full_path] \in Nat
  BY <1>1, <1>2, <1>3 DEF Script
<1>6. /\ entry' \in [Name -> Entry]
      /\ \A n \in Name : entry'[n].data \in IF entry'[n].indirect THEN Name ELSE 0..stored
  <2>1. entry' = entry \/ entry' = HashIndirect(entry, key[w], path[w])
    BY DEF StoreLink
  <2>2. CASE entry' = entry
    BY <1>1, <2>2 DEF TableTypes
  <2>3. CASE entry' = HashIndirect(entry, key[w], path[w])
    BY <1>1, <2>3, NewName
  <2>4. QED BY <2>1, <2>2, <2>3
<1>7. memory_exhausted' \in BOOLEAN /\ restart_pending' \in BOOLEAN
  <2>1. \/ UNCHANGED <<memory_exhausted, restart_pending>>
        \/ /\ memory_exhausted' = TRUE
           /\ restart_pending' = (restart_pending \/ TooMuchWasted(wasted))
    BY DEF StoreLink, Schedule
  <2>2. QED BY <1>1, <2>1 DEF TableTypes
<1>8. TableTypes'
  BY <1>1, <1>4, <1>6, <1>7 DEF TableTypes
<1>9. MovesAlone(w) /\ HasTypes(w)' /\ Busy(w)'
  <2>1. /\ Forget(w)
        /\ \E p \in Name, v \in Version : used' = [used EXCEPT ![w] = [path |-> p, version |-> v]]
    BY <1>1 DEF Run
  <2>2. QED BY <1>1, <2>1, Finishes
<1>10. InFlight = 0 /\ InFlight' = 0 /\ \A s \in 1..stored : s # stored => Weighed(s)
  BY <1>1 DEF InFlight, Weighed
<1>11. Weights' = Weights /\ Dead' = Dead
  <2>1. Weights' = Weights
    BY <1>1, <1>5 DEF Weights
  <2>2. Dead' = Dead
    BY <1>1, <1>5 DEF Dead, Live
  <2>3. QED BY <2>1, <2>2
<1>12. Books'
  <2>1. /\ Total(Weights, 1..stored)' = Total(Weights, 1..stored)
        /\ Total(Weights, Dead)' = Total(Weights, Dead)
        /\ shared_free' = shared_free /\ keymem' = keymem /\ wasted' = wasted
        /\ crashes' = crashes /\ InFlight' = InFlight
    BY <1>1, <1>10, <1>11
  <2>2. ASSUME NEW s \in 1..stored
        PROVE  /\ scripts'[s].memory_consumption <= SizeOf[scripts'[s].full_path]
               /\ crashes' = 0 /\ Weighed(s)' =>
                    scripts'[s].memory_consumption = SizeOf[scripts'[s].full_path]
    <3>1. CASE s = stored
      BY <1>5, <3>1
    <3>2. CASE s # stored
      BY <1>1, <1>5, <1>10, <3>2 DEF Books
    <3>3. QED BY <3>1, <3>2
  <2>3. stored' = stored
    BY <1>1
  <2>4. QED BY <1>1, <2>1, <2>2, <2>3 DEF Books
<1>13. stored <= stored' /\ DiskKept
  <2>1. stored \in Nat
    BY <1>1, Weighable
  <2>2. QED BY <1>1, <2>1 DEF DiskKept, disk, past
<1>14. QED BY <1>1, <1>8, <1>9, <1>12, <1>13, LockedStep

LEMMA EndCounts ==
  ASSUME Accounted, NEW w \in Worker, End(w)
  PROVE  Accounted'
<1>1. /\ TableTypes /\ WorkerTypes /\ Busy(w) /\ pc[w] = "run" /\ lock # w
      /\ UNCHANGED <<disk, past, table, memory, lock, crashes>>
      /\ UNCHANGED <<key, path, claim, found, bucket, stamp, code>>
      /\ pc' = [pc EXCEPT ![w] = "idle"] /\ counted' = [counted EXCEPT ![w] = FALSE]
      /\ used' = [used EXCEPT ![w] = Nothing] /\ asked' = [asked EXCEPT ![w] = NoName]
      /\ request_time' = [request_time EXCEPT ![w] = 0]
  BY DEF Accounted, End, Busy, local
<1>2. MovesAlone(w)
  BY <1>1 DEF WorkerTypes, MovesAlone
<1>3. /\ pc'[w] = "idle" /\ counted'[w] = FALSE /\ used'[w] = Nothing /\ asked'[w] = NoName
      /\ request_time'[w] = 0 /\ found'[w] = found[w]
      /\ key'[w] = key[w] /\ bucket'[w] = bucket[w] /\ path'[w] = path[w] /\ claim'[w] = claim[w]
      /\ stamp'[w] = stamp[w] /\ code'[w] = code[w] /\ lock' = lock
  BY <1>1 DEF WorkerTypes
<1>4. HasTypes(w)'
  <2>1. /\ Nothing \in [path : Name \cup {NoName}, version : {0} \cup Version]
        /\ 0 \in 0..MaxTime
    BY CacheAssumption DEF Nothing
  <2>2. QED BY <1>1, <1>3, <2>1, Typical DEF HasTypes, Outside
<1>5. Busy(w)'
  BY <1>1, <1>3 DEF Busy, Outside, Storing, Compiled
<1>6. QED BY <1>1, <1>2, <1>4, <1>5, QuietStep

(* A request begins, after a restart or not.  A restart waits until nobody   *)
(* is in an operation.                                                       *)
LEMMA BeginCounts ==
  ASSUME Accounted, NEW w \in Worker, Begin(w)
  PROVE  Accounted'
<1>1. /\ TableTypes /\ WorkerTypes /\ Busy(w) /\ DiskTypes /\ pc[w] = "idle" /\ lock # w
      /\ UNCHANGED <<disk, past, lock, crashes>>
      /\ UNCHANGED <<counted, asked, used, key, path, claim, found, bucket, stamp, code>>
      /\ pc' = [pc EXCEPT ![w] = "run"] /\ request_time' = [request_time EXCEPT ![w] = now]
  BY DEF Accounted, Begin, Busy, local
<1>2. MovesAlone(w)
  BY <1>1 DEF WorkerTypes, MovesAlone
<1>3. /\ pc'[w] = "run" /\ request_time'[w] = now /\ counted'[w] = counted[w]
      /\ used'[w] = used[w] /\ asked'[w] = asked[w] /\ found'[w] = found[w]
      /\ key'[w] = key[w] /\ bucket'[w] = bucket[w] /\ path'[w] = path[w] /\ claim'[w] = claim[w]
      /\ stamp'[w] = stamp[w] /\ code'[w] = code[w] /\ lock' = lock
  BY <1>1 DEF WorkerTypes
<1>4. HasTypes(w)'
  <2>1. now \in 0..MaxTime
    BY <1>1, CacheAssumption DEF DiskTypes
  <2>2. QED BY <1>1, <1>3, <2>1, Typical DEF HasTypes, Outside
<1>5. Busy(w)'
  BY <1>1, <1>3 DEF Busy, Outside, Storing, Compiled
<1>6. CASE UNCHANGED <<table, memory>>
  BY <1>1, <1>2, <1>4, <1>5, <1>6, QuietStep
<1>7. CASE /\ \A v \in Worker : ~Reading(v)
           /\ scripts' = << >> /\ stored' = 0 /\ entry' = [n \in Name |-> NoEntry]
           /\ shared_free' = Memory /\ wasted' = 0 /\ keymem' = 0
           /\ memory_exhausted' = FALSE /\ restart_pending' = FALSE
  <2>1. \A v \in Worker : pc[v] \in {"idle", "run"} /\ lock # v
    <3> TAKE v \in Worker
    <3>1. ~counted[v] /\ pc[v] # "apimark" /\ Busy(v)
      BY <1>7 DEF Reading, Accounted
    <3>2. QED BY <3>1 DEF Busy, Outside
  <2>2. lock = NoWorker /\ lock' = NoWorker
    BY <1>1, <2>1 DEF TableTypes
  <2>3. TableTypes'
    <3>1. /\ NoEntry \in Entry /\ ~NoEntry.indirect /\ NoEntry.data = 0
          /\ 0 \in 0..MaxScripts /\ 0 \in 0..0
      BY CacheAssumption DEF NoEntry, Entry
    <3>2. entry' \in [Name -> Entry]
      BY <1>7, <3>1
    <3>3. \A n \in Name : entry'[n].data \in IF entry'[n].indirect THEN Name ELSE 0..0
      BY <1>7, <3>1
    <3>4. scripts' \in [1..0 -> Script]
      <4>1. 1..0 = {} /\ << >> \in [{} -> Script]
        OBVIOUS
      <4>2. QED BY <1>7, <4>1
    <3>5. QED BY <1>1, <1>7, <2>2, <3>1, <3>2, <3>3, <3>4 DEF TableTypes
  <2>4. InFlight' = 0
    BY <2>2 DEF InFlight
  <2>5. Books'
    <3>1. (stored = 0 /\ shared_free = Memory /\ keymem = 0 /\ wasted = 0 /\ InFlight = 0
             => Books)'
      BY EmptyBooks, PTL
    <3>2. QED BY <1>7, <2>4, <3>1
  <2>6. WorkerTypes' /\ DiskTypes'
    BY <1>1, <1>2, <1>4, AloneTypes DEF DiskTypes, disk, past
  <2>7. ASSUME NEW v \in Worker PROVE Busy(v)'
    <3>1. CASE v = w
      BY <1>5, <3>1
    <3>2. CASE v # w
      <4>1. /\ pc'[v] = pc[v] /\ counted'[v] = counted[v]
            /\ path'[v] = path[v] /\ claim'[v] = claim[v]
        BY <1>1, <3>2 DEF WorkerTypes
      <4>2. pc[v] \in {"idle", "run"} /\ lock' # v /\ (claim[v] => path[v] \in Name)
        BY <1>1, <2>1 DEF Accounted, Busy
      <4>3. QED BY <4>1, <4>2 DEF Busy, Outside, Storing, Compiled
    <3>3. QED BY <3>1, <3>2
  <2>8. QED BY <2>3, <2>5, <2>6, <2>7 DEF Accounted
<1>8. QED BY <1>6, <1>7 DEF Begin

LEMMA CrashCounts ==
  ASSUME Accounted, NEW w \in Worker, Crash(w)
  PROVE  Accounted'
<1>1. /\ TableTypes /\ WorkerTypes /\ DiskTypes /\ Books /\ (\A v \in Worker : Busy(v))
      /\ crashes < MaxCrashes /\ crashes' = crashes + 1 /\ w # NoWorker
      /\ lock' = IF lock = w THEN NoWorker ELSE lock
      /\ UNCHANGED <<disk, past, table, memory>>
      /\ pc' = [pc EXCEPT ![w] = "idle"] /\ counted' = [counted EXCEPT ![w] = FALSE]
      /\ used' = [used EXCEPT ![w] = Nothing] /\ asked' = [asked EXCEPT ![w] = NoName]
      /\ key' = [key EXCEPT ![w] = NoName] /\ path' = [path EXCEPT ![w] = NoName]
      /\ claim' = [claim EXCEPT ![w] = FALSE] /\ found' = [found EXCEPT ![w] = 0]
      /\ bucket' = [bucket EXCEPT ![w] = NoName] /\ stamp' = [stamp EXCEPT ![w] = 0]
      /\ code' = [code EXCEPT ![w] = 0] /\ request_time' = [request_time EXCEPT ![w] = 0]
  BY CacheAssumption DEF Accounted, Crash, Goto
<1>2. MovesAlone(w)
  BY <1>1 DEF WorkerTypes, MovesAlone
<1>3. /\ pc'[w] = "idle" /\ counted'[w] = FALSE /\ used'[w] = Nothing /\ asked'[w] = NoName
      /\ request_time'[w] = 0 /\ found'[w] = 0 /\ key'[w] = NoName /\ bucket'[w] = NoName
      /\ path'[w] = NoName /\ claim'[w] = FALSE /\ stamp'[w] = 0 /\ code'[w] = 0 /\ lock' # w
  BY <1>1 DEF WorkerTypes
<1>4. HasTypes(w)'
  <2>1. /\ Nothing \in [path : Name \cup {NoName}, version : {0} \cup Version]
        /\ 0 \in 0..MaxTime /\ 0 \in 0..MaxScripts
    BY CacheAssumption DEF Nothing
  <2>2. QED BY <1>3, <2>1 DEF HasTypes, Outside
<1>5. Busy(w)'
  BY <1>3 DEF Busy, Outside, Storing, Compiled
<1>6. crashes' \in 0..MaxCrashes /\ crashes' # 0
  BY <1>1, CacheAssumption DEF TableTypes
<1>7. TableTypes'
  <2>1. lock' \in Worker \cup {NoWorker}
    BY <1>1 DEF TableTypes
  <2>2. QED BY <1>1, <1>6, <2>1 DEF TableTypes, table, memory
<1>8. WorkerTypes' /\ OthersKept(w) /\ DiskTypes'
  BY <1>1, <1>2, <1>4, AloneTypes DEF DiskTypes, disk, past
<1>9. ScriptsKept /\ stored <= stored'
  BY <1>1, Weighable DEF ScriptsKept, table
<1>10. ASSUME NEW v \in Worker PROVE Busy(v)'
  <2>1. CASE v = w
    BY <1>5, <2>1
  <2>2. CASE v # w
    <3>1. v \in Worker \ {w} /\ Busy(v) /\ (lock = v <=> lock' = v)
      BY <1>1, <2>2, CacheAssumption
    <3>2. QED BY <1>1, <1>7, <1>8, <1>9, <3>1, OthersBusy DEF ScriptsKept
  <2>3. QED BY <2>1, <2>2
<1>11. /\ InFlight \in Nat /\ InFlight' \in Nat /\ InFlight' <= InFlight
  <2>1. InFlight \in Nat
    BY <1>1, InFlightIs
  <2>2. CASE lock = w
    <3>1. InFlight' = 0
      BY <1>1, <2>2 DEF InFlight
    <3>2. QED BY <2>1, <3>1
  <2>3. CASE lock # w
    <3>1. lock' = lock
      BY <1>1, <2>3
    <3>2. lock # NoWorker => pc'[lock] = pc[lock] /\ path'[lock] = path[lock]
      BY <1>1, <1>8, <2>3 DEF TableTypes, OthersKept
    <3>3. InFlight' = InFlight
      BY <3>1, <3>2 DEF InFlight
    <3>4. QED BY <2>1, <3>3
  <2>4. QED BY <2>2, <2>3
<1>12. Books'
  <2>1. PICK i \in Nat, j \in Nat : i = InFlight /\ j = InFlight'
    BY <1>11
  <2>2. shared_free \in Nat /\ keymem \in Nat /\ j <= i
    BY <1>1, <1>11, <2>1 DEF Books
  <2>3. shared_free + keymem + j <= shared_free + keymem + i
    BY <2>2
  <2>4. shared_free' = shared_free /\ keymem' = keymem /\ wasted' = wasted
    BY <1>1 DEF memory
  <2>5. /\ shared_free' + keymem' + InFlight' <= shared_free + keymem + InFlight
        /\ shared_free' \in Nat /\ keymem' \in Nat
    BY <2>1, <2>2, <2>3, <2>4, Zenon
  <2>6. QED BY <1>1, <1>6, <1>9, <1>11, <2>4, <2>5, BooksKept DEF ScriptsKept
<1>13. QED BY <1>7, <1>8, <1>10, <1>12 DEF Accounted

-----------------------------------------------------------------------------
(* The file system and the clock. *)
LEMMA DiskStep ==
  ASSUME Accounted, DiskTypes',
         UNCHANGED <<table, memory, lock, crashes, pc, counted, request_time, local, used, asked>>
  PROVE  Accounted'
<1>1. TableTypes' /\ WorkerTypes'
  BY DEF Accounted, TableTypes, WorkerTypes, table, memory, local
<1>2. \A v \in Worker : Busy(v)'
  BY DEF Accounted, Busy, table, local
<1>3. Weights' = Weights /\ Dead' = Dead /\ InFlight' = InFlight
      /\ \A s \in 1..stored : Weighed(s)' <=> Weighed(s)
  <2>1. Weights' = Weights
    BY DEF Weights, table
  <2>2. Dead' = Dead
    BY DEF Dead, Live, table
  <2>3. InFlight' = InFlight
    BY DEF InFlight, local
  <2>4. \A s \in 1..stored : Weighed(s)' <=> Weighed(s)
    BY DEF Weighed, table
  <2>5. QED BY <2>1, <2>2, <2>3, <2>4
<1>4. Books'
  <2>1. /\ Total(Weights, 1..stored)' = Total(Weights, 1..stored)
        /\ Total(Weights, Dead)' = Total(Weights, Dead)
        /\ UNCHANGED <<shared_free, keymem, wasted, crashes, stored, scripts>>
    BY <1>3 DEF table, memory
  <2>2. QED BY <1>3, <2>1 DEF Accounted, Books
<1>5. QED BY <1>1, <1>2, <1>4 DEF Accounted

LEMMA NewContentTypes ==
  ASSUME DiskTypes, NEW p \in Name, NewContent(p)
  PROVE  /\ version' \in [Name -> Version] /\ mtime' \in [Name -> 1..MaxTime]
         /\ edits' \in 0..MaxEdits
<1>1. /\ edits \in 0..MaxEdits /\ edits < MaxEdits /\ MaxEdits \in Nat /\ Cardinality(Name) \in Nat
  BY Constants, CacheAssumption DEF DiskTypes, NewContent
<1>2. Cardinality(Name) + edits + 1 \in Version /\ edits + 1 \in 0..MaxEdits
  BY <1>1 DEF Version
<1>3. QED BY <1>2 DEF DiskTypes, NewContent

LEMMA LeaveTypes ==
  ASSUME DiskTypes, NEW f
  PROVE  Leave(f) \in [Name -> [Name -> 0..Never]]
<1>1. Never \in 0..Never /\ now \in 0..Never
  BY CacheAssumption DEF DiskTypes, Never
<1>2. QED BY <1>1 DEF DiskTypes, Leave

LEMMA DiskCounts ==
  ASSUME Accounted,
         \/ Tick
         \/ \E n \in Name : Edit(n) \/ Unlink(n) \/ \E p \in Name : Relink(n, p)
  PROVE  Accounted'
<1>1. DiskTypes
  BY DEF Accounted
<1>2. CASE Tick
  <2>1. now' \in 1..MaxTime
    BY <1>1, <1>2, CacheAssumption DEF Tick, DiskTypes
  <2>2. DiskTypes'
    BY <1>1, <1>2, <2>1 DEF Tick, DiskTypes, past
  <2>3. QED BY <1>2, <2>2, DiskStep DEF Tick
<1>3. ASSUME NEW n \in Name, Edit(n) PROVE Accounted'
  <2>1. /\ NewContent(n) /\ over' = [over EXCEPT ![version[n]] = now]
        /\ UNCHANGED <<now, real, left, relinks>>
        /\ UNCHANGED <<table, memory, lock, crashes, pc, counted, request_time, local, used, asked>>
    BY <1>3 DEF Edit
  <2>2. now \in 1..Never
    BY <1>1, CacheAssumption DEF DiskTypes, Never
  <2>3. over' \in [Version -> 1..Never]
    BY <1>1, <2>1, <2>2 DEF DiskTypes
  <2>4. DiskTypes'
    BY <1>1, <2>1, <2>3, NewContentTypes DEF DiskTypes
  <2>5. QED BY <2>1, <2>4, DiskStep
<1>4. ASSUME NEW n \in Name, Unlink(n) PROVE Accounted'
  <2>1. /\ NewContent(n) /\ relinks < MaxRelinks /\ relinks' = relinks + 1
        /\ real' = [real EXCEPT ![n] = n] /\ left' = Leave([real EXCEPT ![n] = n])
        /\ UNCHANGED <<now, over>>
        /\ UNCHANGED <<table, memory, lock, crashes, pc, counted, request_time, local, used, asked>>
    BY <1>4 DEF Unlink
  <2>2. relinks' \in 0..MaxRelinks
    BY <1>1, <2>1, CacheAssumption DEF DiskTypes
  <2>3. real' \in [Name -> Name] /\ left' \in [Name -> [Name -> 0..Never]]
    BY <1>1, <2>1, LeaveTypes DEF DiskTypes
  <2>4. DiskTypes'
    BY <1>1, <2>1, <2>2, <2>3, NewContentTypes DEF DiskTypes
  <2>5. QED BY <2>1, <2>4, DiskStep
<1>5. ASSUME NEW n \in Name, NEW p \in Name, Relink(n, p) PROVE Accounted'
  <2> DEFINE f == [m \in Name |-> IF real[m] = n THEN p ELSE real[m]]
  <2>1. /\ relinks < MaxRelinks /\ relinks' = relinks + 1 /\ real' = f /\ left' = Leave(f)
        /\ UNCHANGED <<now, mtime, version, over, edits>>
        /\ UNCHANGED <<table, memory, lock, crashes, pc, counted, request_time, local, used, asked>>
    BY <1>5 DEF Relink
  <2>2. relinks' \in 0..MaxRelinks
    BY <1>1, <2>1, CacheAssumption DEF DiskTypes
  <2>3. f \in [Name -> Name]
    BY <1>1 DEF DiskTypes
  <2> HIDE DEF f
  <2>4. real' \in [Name -> Name] /\ left' \in [Name -> [Name -> 0..Never]]
    BY <1>1, <2>1, <2>3, LeaveTypes
  <2>5. DiskTypes'
    BY <1>1, <2>1, <2>2, <2>4 DEF DiskTypes
  <2>6. QED BY <2>1, <2>5, DiskStep
<1>6. QED BY <1>2, <1>3, <1>4, <1>5

LEMMA AccountedStep == Accounted /\ NamesPointToScripts /\ [Next]_vars => Accounted'
<1> SUFFICES ASSUME Accounted, NamesPointToScripts, [Next]_vars PROVE Accounted'
  OBVIOUS
<1>1. ASSUME NEW w \in Worker, Begin(w) \/ End(w) \/ Crash(w) PROVE Accounted'
  BY <1>1, BeginCounts, EndCounts, CrashCounts
<1>2. ASSUME NEW w \in Worker, Lookup(w) PROVE Accounted'
  BY <1>2, ResolveCounts, LookupCounts, AddFoundKeyCounts, CheckCounts, MarkCounts DEF Lookup
<1>3. ASSUME NEW w \in Worker, Store(w) PROVE Accounted'
  BY <1>3, MissCounts, StampCounts, CompileCounts, StoreNothingCounts, StoreBeginCounts,
     StorePublishCounts, StoreLinkCounts DEF Store
<1>4. ASSUME NEW w \in Worker, NEW n \in Name, Call(w, n) PROVE Accounted'
  BY <1>4, IncludeCounts, IncludeOnceCounts, IsScriptCachedCounts, InvalidateCounts DEF Call
<1>5. CASE UNCHANGED vars
  <2>1. DiskTypes'
    BY <1>5 DEF Accounted, DiskTypes, vars, disk, past
  <2>2. QED BY <1>5, <2>1, DiskStep DEF vars
<1>6. QED BY <1>1, <1>2, <1>3, <1>4, <1>5, DiskCounts DEF Next

(* While names point to scripts (see FindsAScript), every variable has its    *)
(* type: whatever the steps of the workers, the deaths, the edits and the     *)
(* links, no worker uses a script that is not there, and neither wasted nor   *)
(* what is free leaves the bounds of the memory.                              *)
THEOREM TypesAreRight == Spec /\ []NamesPointToScripts => []TypeOK
<1>1. Init => Accounted
  BY AccountedInit
<1>2. Accounted /\ NamesPointToScripts /\ [Next]_vars => Accounted'
  BY AccountedStep
<1>3. Accounted => TypeOK
  BY AccountedSays
<1>4. QED BY <1>1, <1>2, <1>3, PTL DEF Spec

(* ... and every unit is free, in a script or in a key, and wasted_shared_memory *)
(* is what the invalidated scripts occupy.                                       *)
THEOREM MemoryIsAccounted == Spec /\ []NamesPointToScripts => []MemoryAccounted
<1>1. Init => Accounted
  BY AccountedInit
<1>2. Accounted /\ NamesPointToScripts /\ [Next]_vars => Accounted'
  BY AccountedStep
<1>3. Accounted => MemoryAccounted
  BY AccountedSays
<1>4. QED BY <1>1, <1>2, <1>3, PTL DEF Spec

(* Before any name has changed its meaning they do point to scripts, so that  *)
(* nothing has to be assumed.                                                 *)
THEOREM MemoryIsAccountedBeforeLinks ==
  ASSUME Careful
  PROVE  Spec => [](relinks = 0 => TypeOK /\ MemoryAccounted)
<1> DEFINE Inv == Safe /\ (relinks = 0 => Accounted)
<1>1. Init => Inv
  BY InitSound, AccountedInit DEF Init, Safe
<1>2. Safe /\ relinks = 0 => NamesPointToScripts
  BY DEF Safe, Sound, Files, Keys, NamesPointToScripts
<1>3. Inv /\ [Next]_vars => Inv'
  <2> SUFFICES ASSUME Inv, [Next]_vars PROVE Inv'
    OBVIOUS
  <2>1. Safe'
    BY SafeStep
  <2>2. relinks' = relinks \/ relinks' = relinks + 1
    BY RelinksGrow
  <2>3. relinks' = 0 => relinks = 0
    BY <2>2 DEF Safe
  <2>4. relinks' = 0 => Accounted'
    BY <1>2, <2>3, AccountedStep
  <2>5. QED BY <2>1, <2>4
<1>4. Inv => (relinks = 0 => TypeOK /\ MemoryAccounted)
  BY AccountedSays
<1>5. QED BY <1>1, <1>3, <1>4, PTL DEF Spec
=============================================================================
