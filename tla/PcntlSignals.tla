---------------------------- MODULE PcntlSignals ----------------------------
(***************************************************************************)
(* Signals of a PHP process (pcntl/pcntl.c, pcntl/php_signal.c).           *)
(*                                                                         *)
(* The handler of the operating system may interrupt the process between   *)
(* any two of its steps, unless the signal is blocked; it runs with all    *)
(* signals blocked, hence as one step.  It takes a record from the list    *)
(* "spares" and appends it to the list from "head" to "tail".  Between two *)
(* statements of the script, the dispatcher blocks the signals, takes the  *)
(* list and calls the function of the script for each record; what that    *)
(* function does are steps of the process too.  A process may serve more   *)
(* than one request (php -S).  Records are numbers, 0 is NULL.             *)
(***************************************************************************)
EXTENDS Naturals, Sequences, FiniteSets

CONSTANTS
  Signal, NoSignal,
  Batch,         \* records allocated at a time (the code: 32)
  MaxRecords,    \* bound: records alive at a time
  MaxRaised,     \* bound: signals sent to the process
  MaxRequests,   \* bound: requests served
  Unblocks,      \* may it unblock signals by pcntl_sigprocmask()?
  Quiet          \* does no signal arrive while pcntl_signal() allocates records?

ASSUME PcntlAssumption ==
  /\ NoSignal \notin Signal
  /\ Batch \in Nat \ {0} /\ MaxRecords \in Nat \ {0}
  /\ MaxRaised \in Nat /\ MaxRequests \in Nat \ {0}
  /\ {Unblocks, Quiet} \subseteq BOOLEAN

VARIABLES
  next, signo,                              \* fields of the records
  head, tail, spares,                       \* the lists
  pending_signals, processing_signal_queue,
  php_signal_table,                         \* signals with a function of the script
  live,                                     \* records allocated and not freed
  installed, blocked, raised,               \* kernel: our handlers, mask, pending signals
  pc, queue, rest, psig, old_mask, todo, count,   \* the process and its locals
  playing,                                  \* the signal whose function has been called
  cut,                                      \* history: exit() has left the dispatcher
  sent, requests                            \* what the bounds count

records == <<next, signo, live>>
lists == <<head, tail, spares>>
flags == <<pending_signals, processing_signal_queue, php_signal_table>>
kernel == <<installed, blocked, raised>>
locals == <<queue, rest, psig, old_mask, todo, count, playing>>
bounds == <<cut, sent, requests>>
pcntl_vars == <<records, lists, flags, kernel, pc, locals, bounds>>

Record == 1..MaxRecords
Pointer == 0..MaxRecords
Calls == [signo : Signal \cup {NoSignal}, handle : BOOLEAN]   \* a call of pcntl_signal
NoCall == [signo |-> NoSignal, handle |-> FALSE]

PcntlTypeOK ==
  /\ next \in [Record -> Pointer] /\ signo \in [Record -> Signal \cup {NoSignal}]
  /\ {head, tail, spares, queue, rest, psig} \subseteq Pointer
  /\ {pending_signals, processing_signal_queue} \subseteq BOOLEAN
  /\ php_signal_table \subseteq Signal /\ live \subseteq Record
  /\ installed \subseteq Signal /\ blocked \subseteq Signal /\ raised \subseteq Signal
  /\ pc \in {"run", "new", "push", "set", "masked", "play", "user", "take", "give",
             "spare", "unqueue", "freeq", "unspare", "frees"}
  /\ old_mask \subseteq Signal /\ todo \in Calls /\ count \in 0..Batch
  /\ playing \in Signal \cup {NoSignal}
  /\ cut \in BOOLEAN /\ sent \in 0..MaxRaised /\ requests \in 0..MaxRequests

PcntlInit ==
  /\ next = [r \in Record |-> 0] /\ signo = [r \in Record |-> NoSignal] /\ live = {}
  /\ head = 0 /\ tail = 0 /\ spares = 0
  /\ pending_signals = FALSE /\ processing_signal_queue = FALSE /\ php_signal_table = {}
  /\ installed = {} /\ blocked = {} /\ raised = {}
  /\ pc = "run" /\ queue = 0 /\ rest = 0 /\ psig = 0 /\ old_mask = {} /\ todo = NoCall /\ count = 0
  /\ playing = NoSignal
  /\ cut = FALSE /\ sent = 0 /\ requests = 1

-----------------------------------------------------------------------------
(* The kernel sends a signal that the script handles; signals of a number do *)
(* not add up.                                                               *)
Raise(s) ==
  /\ sent < MaxRaised /\ s \in installed
  /\ raised' = raised \cup {s} /\ sent' = sent + 1
  /\ UNCHANGED <<records, lists, flags, installed, blocked, pc, locals, cut, requests>>

(* Mut: only the tail is tested, which the dispatcher leaves alone. *)
MutNonEmpty == tail # 0
NonEmpty == head # 0 /\ tail # 0

(* pcntl_signal_handler *)
Handler(s) ==
  /\ s \in raised \cap installed /\ s \notin blocked
  /\ Quiet => pc \notin {"new", "push"}
  /\ raised' = raised \ {s}
  /\ \/ spares = 0 /\ UNCHANGED <<next, signo, lists, pending_signals>>
     \/ /\ spares # 0
        /\ signo' = [signo EXCEPT ![spares] = s]
        /\ LET ended == [next EXCEPT ![spares] = 0]
           IN next' = IF NonEmpty THEN [ended EXCEPT ![tail] = spares] ELSE ended
        /\ head' = IF NonEmpty THEN head ELSE spares
        /\ tail' = spares /\ spares' = next[spares]
        /\ pending_signals' = TRUE
  /\ UNCHANGED <<live, processing_signal_queue, php_signal_table, installed, blocked,
                 pc, locals, bounds>>

-----------------------------------------------------------------------------
(* The script: its own code, or a function that a signal has called.        *)
InScript == pc \in {"run", "user"}
Base == IF playing = NoSignal THEN "run" ELSE "user"

(* pcntl_signal(): a function for the signal, or SIG_IGN *)
PcntlSignal(s, handle) ==
  /\ InScript
  /\ spares = 0 => Cardinality(live) + Batch <= MaxRecords
  /\ todo' = [signo |-> s, handle |-> handle] /\ count' = 0
  /\ pc' = IF spares = 0 THEN "new" ELSE "set"
  /\ UNCHANGED <<records, lists, flags, kernel, queue, rest, psig, old_mask, playing, bounds>>

(* Mut: one record too many. *)
MutMore == count <= Batch
More == count < Batch

(* A record is allocated and points to the spare ones, ... *)
New ==
  /\ pc = "new" /\ More
  /\ psig' = CHOOSE r \in Record : r \notin live
  /\ next' = [next EXCEPT ![psig'] = spares]
  /\ pc' = "push"
  /\ UNCHANGED <<signo, live, lists, flags, kernel, queue, rest, old_mask, todo, count,
                 playing, bounds>>

(* ... and becomes the first of them. *)
Push ==
  /\ pc = "push"
  /\ spares' = psig /\ live' = live \cup {psig}
  /\ count' = count + 1 /\ psig' = 0
  /\ pc' = "new"
  /\ UNCHANGED <<next, signo, head, tail, flags, kernel, queue, rest, old_mask, todo,
                 playing, bounds>>

Allocated ==
  /\ pc = "new" /\ ~More
  /\ pc' = "set"
  /\ UNCHANGED <<records, lists, flags, kernel, locals, bounds>>

(* The table and the handler of the operating system change together as far *)
(* as signals can tell: the handler does not read the table.                *)
Set ==
  /\ pc = "set"
  /\ IF todo.handle
     THEN /\ php_signal_table' = php_signal_table \cup {todo.signo}
          /\ installed' = installed \cup {todo.signo}
          /\ UNCHANGED raised
     ELSE /\ php_signal_table' = php_signal_table \ {todo.signo}
          /\ installed' = installed \ {todo.signo}
          /\ raised' = raised \ {todo.signo}
  /\ todo' = NoCall /\ count' = 0 /\ pc' = Base
  /\ UNCHANGED <<records, lists, pending_signals, processing_signal_queue, blocked,
                 queue, rest, psig, old_mask, playing, bounds>>

(* pcntl_sigprocmask() *)
SigProcMask(mask) ==
  /\ InScript
  /\ pc = "user" => Unblocks
  /\ blocked' = mask
  /\ UNCHANGED <<records, lists, flags, installed, raised, pc, locals, bounds>>

(* pcntl_sigwaitinfo(), pcntl_sigtimedwait() when a signal is pending *)
SigWaitInfo(s) ==
  /\ InScript
  /\ s \in raised
  /\ raised' = raised \ {s}
  /\ UNCHANGED <<records, lists, flags, installed, blocked, pc, locals, bounds>>

(* pcntl_fork(): the child goes on with a copy of everything but the pending *)
(* signals of the kernel.                                                    *)
Fork ==
  /\ InScript
  /\ raised' = {}
  /\ UNCHANGED <<records, lists, flags, installed, blocked, pc, locals, bounds>>

-----------------------------------------------------------------------------
(* pcntl_signal_dispatch, called between two statements.  Called while it is *)
(* playing, it returns at once.                                              *)
Dispatch ==
  /\ pc = "run" /\ pending_signals
  /\ old_mask' = blocked /\ blocked' = Signal
  /\ pc' = "masked"
  /\ UNCHANGED <<records, lists, flags, installed, raised, queue, rest, psig, todo, count,
                 playing, bounds>>

Bail ==
  /\ pc = "masked"
  /\ head = 0 \/ processing_signal_queue
  /\ blocked' = old_mask /\ old_mask' = {}
  /\ pc' = "run"
  /\ UNCHANGED <<records, lists, flags, installed, raised, queue, rest, psig, todo, count,
                 playing, bounds>>

TakeQueue ==
  /\ pc = "masked"
  /\ head # 0 /\ ~processing_signal_queue
  /\ processing_signal_queue' = TRUE
  /\ queue' = head /\ head' = 0
  /\ pc' = "play"
  /\ UNCHANGED <<records, tail, spares, pending_signals, php_signal_table, kernel, rest, psig,
                 old_mask, todo, count, playing, bounds>>

(* The function of the signal is called, if it has one. *)
Play ==
  /\ pc = "play" /\ queue # 0
  /\ IF signo[queue] \in php_signal_table
     THEN playing' = signo[queue] /\ pc' = "user"
     ELSE pc' = "take" /\ UNCHANGED playing
  /\ UNCHANGED <<records, lists, flags, kernel, queue, rest, psig, old_mask, todo, count,
                 bounds>>

Returned ==
  /\ pc = "user"
  /\ pc' = "take"
  /\ UNCHANGED <<records, lists, flags, kernel, locals, bounds>>

(* next = queue->next *)
Take ==
  /\ pc = "take"
  /\ rest' = next[queue] /\ psig' = spares
  /\ pc' = "give"
  /\ UNCHANGED <<records, lists, flags, kernel, queue, old_mask, todo, count, playing, bounds>>

(* queue->next = spares *)
Give ==
  /\ pc = "give"
  /\ next' = [next EXCEPT ![queue] = psig] /\ psig' = 0
  /\ pc' = "spare"
  /\ UNCHANGED <<signo, live, lists, flags, kernel, queue, rest, old_mask, todo, count,
                 playing, bounds>>

(* Mut: the loop goes on with the list the record is in now. *)
MutFollowing == next[queue]
Following == rest

(* spares = queue; queue = next *)
Spare ==
  /\ pc = "spare"
  /\ spares' = queue /\ queue' = Following /\ rest' = 0
  /\ playing' = NoSignal
  /\ pc' = "play"
  /\ UNCHANGED <<records, head, tail, flags, kernel, psig, old_mask, todo, count, bounds>>

(* Mut: the queue is not enabled again. *)
MutReenabled(processing) == processing
Reenabled(processing) == FALSE

Played ==
  /\ pc = "play" /\ queue = 0
  /\ pending_signals' = FALSE /\ processing_signal_queue' = Reenabled(processing_signal_queue)
  /\ blocked' = old_mask /\ old_mask' = {}
  /\ pc' = "run"
  /\ UNCHANGED <<records, lists, php_signal_table, installed, raised, queue, rest, psig, todo,
                 count, playing, bounds>>

-----------------------------------------------------------------------------
(* The request ends, by itself or by exit(), which leaves the dispatcher    *)
(* where it is (RSHUTDOWN: the table goes first).                           *)
EndRequest ==
  /\ InScript /\ requests < MaxRequests
  /\ cut' = (cut \/ pc = "user")
  /\ php_signal_table' = {} /\ playing' = NoSignal /\ queue' = 0 /\ old_mask' = {}
  /\ pc' = "unqueue"
  /\ UNCHANGED <<records, lists, pending_signals, processing_signal_queue, kernel, rest,
                 psig, todo, count, sent, requests>>

(* sig = head; its next one is read, ... *)
LoadFirst ==
  /\ \/ pc = "unqueue" /\ head # 0 /\ queue' = head /\ pc' = "freeq"
     \/ pc = "unspare" /\ spares # 0 /\ queue' = spares /\ pc' = "frees"
  /\ rest' = next[queue']
  /\ UNCHANGED <<records, lists, flags, kernel, psig, old_mask, todo, count, playing, bounds>>

(* ... becomes the first, and the record is freed. *)
FreeFirst ==
  /\ \/ pc = "freeq" /\ head' = rest /\ pc' = "unqueue" /\ UNCHANGED spares
     \/ pc = "frees" /\ spares' = rest /\ pc' = "unspare" /\ UNCHANGED head
  /\ live' = live \ {queue}
  /\ queue' = 0 /\ rest' = 0
  /\ UNCHANGED <<next, signo, tail, flags, kernel, psig, old_mask, todo, count, playing,
                 bounds>>

QueueFreed ==
  /\ pc = "unqueue" /\ head = 0
  /\ pc' = "unspare"
  /\ UNCHANGED <<records, lists, flags, kernel, locals, bounds>>

(* What is left is freed with the memory of the request, and the next one   *)
(* begins (RINIT).  The handlers stay.                                      *)
BeginRequest ==
  /\ pc = "unspare" /\ spares = 0
  /\ live' = {} /\ next' = [r \in Record |-> 0] /\ signo' = [r \in Record |-> NoSignal]
  /\ head' = 0 /\ tail' = 0 /\ spares' = 0
  /\ requests' = requests + 1
  /\ pc' = "run"
  /\ UNCHANGED <<flags, kernel, locals, cut, sent>>

-----------------------------------------------------------------------------
Script ==
  \/ \E s \in Signal : PcntlSignal(s, TRUE) \/ PcntlSignal(s, FALSE) \/ SigWaitInfo(s)
  \/ \E mask \in SUBSET Signal : SigProcMask(mask)
  \/ Fork \/ EndRequest
Dispatcher == Bail \/ TakeQueue \/ Play \/ Take \/ Give \/ Spare \/ Played
Engine == New \/ Push \/ Allocated \/ Set \/ LoadFirst \/ FreeFirst \/ QueueFreed \/ BeginRequest
PcntlNext ==
  \/ \E s \in Signal : Raise(s) \/ Handler(s)
  \/ Script \/ Dispatch \/ Dispatcher \/ Returned \/ Engine

PcntlSpec == PcntlInit /\ [][PcntlNext]_pcntl_vars
(* The process goes on; statements follow each other, so that it dispatches *)
(* again and again; functions of signals return.                            *)
FairSpec ==
  /\ PcntlSpec
  /\ WF_pcntl_vars(Dispatcher \/ Engine) /\ SF_pcntl_vars(Dispatch) /\ SF_pcntl_vars(Returned)

-----------------------------------------------------------------------------
(* The records of a list, from a pointer to it along the fields "following". *)
List(following, p) ==
  LET hop[n \in 0..MaxRecords] ==
        IF n = 0 THEN p ELSE IF hop[n - 1] = 0 THEN 0 ELSE following[hop[n - 1]]
  IN [i \in {n \in 1..MaxRecords : hop[n - 1] # 0} |-> hop[i - 1]]

Ending == pc \in {"unqueue", "freeq", "unspare", "frees"}
(* The records that hold a signal: being played, and queued. *)
Held ==
  (IF pc \in {"give", "spare"} THEN <<queue>> \o List(next, rest) ELSE List(next, queue))
    \o List(next, head)

(* A record is either spare or holds one signal, and none is lost: a signal *)
(* is forgotten only when all records hold one ("too many signals for us to *)
(* track").                                                                 *)
RecordsInOnePlace ==
  ~Ending => LET all == Held \o List(next, spares)
             IN {all[i] : i \in 1..Len(all)} = live /\ Len(all) = Cardinality(live)

(* Handler and dispatcher together are a queue: signals are played in the   *)
(* order of their arrival, once, and one at a time.                         *)
Queue == INSTANCE PcntlQueue WITH
  waiting <- IF Ending THEN <<>> ELSE [i \in 1..Len(Held) |-> signo[Held[i]]],
  capacity <- IF Ending THEN 0 ELSE Cardinality(live),
  functions <- php_signal_table,
  playing <- playing
ImplementsQueue == Queue!Spec

(* A signal that was recorded is played or its request ends: the dispatcher *)
(* does not overlook signals that arrive while it looks or plays.  Once     *)
(* exit() has left it, it takes itself to be playing for ever.              *)
SignalsArePlayed == head # 0 ~> head = 0 \/ cut
=============================================================================
