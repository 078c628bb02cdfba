------------------------------ MODULE ArtDelay ------------------------------
(***************************************************************************)
(* The memory of one delay line of the artistic delay plugin               *)
(* (plugins/art_delay.cpp). The audio thread decides in sync_delay(), at   *)
(* the start of each process(), what the memory should be; it may not      *)
(* allocate, so the task DelayAllocator allocates and frees it on the      *)
(* thread of the executor. Memory travels between them through three       *)
(* pointers per channel: pending, current and garbage.                     *)
(*                                                                         *)
(* The executor is the one TaskService promises and NativeExecutor         *)
(* implements; it may refuse a submission because its lock is busy. Each   *)
(* access of the task to a pointer or to the counter is a step. A branch   *)
(* of sync_delay() is one step up to its submit(): it looks at the         *)
(* pointers only while the task is idle or completed. Other lines share    *)
(* nothing with this one but the executor and nMemUsed, which is changed   *)
(* by atomic additions. Samples are left out.                              *)
(***************************************************************************)
EXTENDS Integers

CONSTANTS
  Channels,    (* 1 or 2                                                   *)
  Sizes,       (* values of nMaxDelay the settings can give                *)
  BUF_SIZE,    (* granularity of an allocation                             *)
  Allocator,   (* the task of the line                                     *)
  OK, NO_MEM,  (* what run() returns                                       *)
  NoCode,      (* the code of a task that is not completed                 *)
  NULL,        (* no object                                                *)
  MaxChanges,  (* bound: how often the settings change                     *)
  MaxFails     (* bound: how many allocations fail                         *)

ASSUME ArtDelayAssumption ==
  /\ Channels \in {1, 2}
  /\ Sizes \subseteq Nat
  /\ BUF_SIZE \in Nat \ {0}
  /\ OK # NO_MEM /\ NoCode \notin {OK, NO_MEM}
  /\ MaxChanges \in Nat /\ MaxFails \in Nat
  /\ NULL \notin Int

VARIABLES
  state, code, order, phase,   (* the executor, as in TaskService           *)
  bOn, nMaxDelay,              (* settings of the line                      *)
  nSize,                       (* DelayAllocator::nSize                     *)
  pPDelay, pCDelay, pGDelay,   (* pointers, by channel                      *)
  delay,                       (* delay[d]: max_delay() of object d, or NULL
                                  while d is not allocated                  *)
  nMemUsed,                    (* as in the code                            *)
  wpc, wch, wadd,              (* run(): where, channel, addition to make   *)
  apc,                         (* where the host's threads are              *)
  changes, fails               (* counters of the bounds                    *)

exec     == <<state, code, order, phase>>
settings == <<bOn, nMaxDelay, changes>>
slots    == <<pPDelay, pCDelay, pGDelay>>
memory   == <<slots, delay, nMemUsed>>
worker   == <<wpc, wch, wadd, fails>>
vars     == <<exec, settings, nSize, memory, worker, apc>>

Chan    == 1..Channels
Objects == 1..(3 * Channels)

Executor == INSTANCE TaskService WITH Tasks <- {Allocator}, Codes <- {OK, NO_MEM}

Init ==
  /\ Executor!Init
  /\ bOn = FALSE /\ nMaxDelay = 0 /\ changes = 0
  /\ nSize = 0
  /\ pPDelay = [i \in Chan |-> NULL]
  /\ pCDelay = [i \in Chan |-> NULL]
  /\ pGDelay = [i \in Chan |-> NULL]
  /\ delay = [d \in Objects |-> NULL]
  /\ nMemUsed = 0
  /\ wpc = "none" /\ wch = 1 /\ wadd = 0 /\ fails = 0
  /\ apc = "host"

-----------------------------------------------------------------------------
(* DelayAllocator::run(). A definition marked "slip" is not used: it is    *)
(* what a wrong version of the next one could be.                          *)

\* DynamicDelay::init(): what capacity() gives for a delay of n samples
Capacity(n) == (n + 1) - ((n + 1) % BUF_SIZE) + 2 * BUF_SIZE

\* the object is gone
Deleted(d) == [delay EXCEPT ![d] = NULL]

\* what is given back for object d; slip: capacity() after destroy() is 0
UsedLate(d) == 0
Used(d) == Capacity(delay[d])

\* where run() starts; slip: the old objects are dropped by a pure cleanup only
RunBeginsLazy == IF nSize < 0 THEN "drop" ELSE "alloc"
RunBegins == "drop"

RunStart ==
  /\ Executor!Start(Allocator)
  /\ wpc' = RunBegins /\ wch' = 1
  /\ UNCHANGED <<settings, nSize, memory, wadd, fails, apc>>

\* atomic_add(&nMemUsed, ...), right after an object was freed or published
RunCount ==
  /\ wadd # 0
  /\ nMemUsed' = nMemUsed + wadd
  /\ wadd' = 0
  /\ UNCHANGED <<exec, settings, nSize, slots, delay, wpc, wch, fails, apc>>

\* The garbage of a channel is freed first, then what was left pending. That
\* sync_delay() never submits the task over pending memory is not assumed here.
RunDrop ==
  /\ wpc = "drop" /\ wch \in Chan /\ wadd = 0
  /\ LET garbage == pGDelay[wch] # NULL
         d == IF garbage THEN pGDelay[wch] ELSE pPDelay[wch] IN
       /\ d # NULL
       /\ pGDelay' = [pGDelay EXCEPT ![wch] = NULL]
       /\ pPDelay' = [pPDelay EXCEPT ![wch] = IF garbage THEN @ ELSE NULL]
       /\ delay'   = Deleted(d)
       /\ wadd'    = - Used(d)
  /\ UNCHANGED <<exec, settings, nSize, pCDelay, nMemUsed, wpc, wch, fails, apc>>

RunDropNext ==
  /\ wpc = "drop" /\ wch \in Chan /\ wadd = 0
  /\ pGDelay[wch] = NULL /\ pPDelay[wch] = NULL
  /\ wch' = wch + 1
  /\ UNCHANGED <<exec, settings, nSize, memory, wpc, wadd, fails, apc>>

\* a size below zero asks for the cleanup only; slip: -1 is a size as well
AfterDropAny == "alloc"
AfterDrop == IF nSize < 0 THEN "done" ELSE "alloc"

RunDropEnd ==
  /\ wpc = "drop" /\ wch \notin Chan
  /\ wpc' = AfterDrop
  /\ wch' = 1
  /\ UNCHANGED <<exec, settings, nSize, memory, wadd, fails, apc>>

\* max_delay() of the current memory of a channel, NULL without memory
LengthOf(i) == IF pCDelay[i] = NULL THEN NULL ELSE delay[pCDelay[i]]

\* the channel needs no other memory; slips: any memory will do, and the
\* setting is read again, which may have changed since the request
FitsAny(i) == pCDelay[i] # NULL
FitsSetting(i) == LengthOf(i) = nMaxDelay
Fits(i) == LengthOf(i) = nSize

RunKeep ==
  /\ wpc = "alloc" /\ wch \in Chan /\ wadd = 0
  /\ Fits(wch)
  /\ wch' = wch + 1
  /\ UNCHANGED <<exec, settings, nSize, memory, wpc, wadd, fails, apc>>

Free == {d \in Objects : delay[d] = NULL}

RunAllocate ==
  /\ wpc = "alloc" /\ wch \in Chan /\ wadd = 0
  /\ ~ Fits(wch)
  /\ Free # {}
  /\ LET d == CHOOSE d \in Free : TRUE IN
       /\ delay'   = [delay EXCEPT ![d] = nSize]
       /\ pPDelay' = [pPDelay EXCEPT ![wch] = d]
  /\ wadd' = Capacity(nSize)
  /\ wch'  = wch + 1
  /\ UNCHANGED <<exec, settings, nSize, pCDelay, pGDelay, nMemUsed, wpc, fails, apc>>

\* init() gets no memory: run() returns, the channels before keep theirs
RunFail ==
  /\ wpc = "alloc" /\ wch \in Chan /\ wadd = 0
  /\ ~ Fits(wch)
  /\ fails < MaxFails
  /\ fails' = fails + 1
  /\ wpc'   = "nomem"
  /\ UNCHANGED <<exec, settings, nSize, memory, wch, wadd, apc>>

RunReturn ==
  /\ wadd = 0
  /\ \/ wpc = "alloc" /\ wch \notin Chan
     \/ wpc \in {"done", "nomem"}
  /\ Executor!Complete(Allocator)
  /\ code'[Allocator] = IF wpc = "nomem" THEN NO_MEM ELSE OK
  /\ wpc' = "none" /\ wch' = 1
  /\ UNCHANGED <<settings, nSize, memory, wadd, fails, apc>>

-----------------------------------------------------------------------------
(* sync_delay() and the rest of process()                                  *)

idle      == state[Allocator] = "idle"
completed == state[Allocator] = "completed"

\* some channel does not have the memory that the settings ask for
Resize == \E i \in Chan : LengthOf(i) # nMaxDelay

\* a submission is accepted, or refused because the lock is busy
Submit ==
  \/ Executor!Accept(Allocator)
  \/ UNCHANGED exec

SyncResize ==
  /\ apc = "host" /\ idle /\ bOn /\ Resize
  /\ nSize' = nMaxDelay
  /\ Submit
  /\ apc' = "process"
  /\ UNCHANGED <<settings, memory, worker>>

\* the current memory becomes garbage where no garbage is left
Retired(i) == pGDelay[i] = NULL /\ pCDelay[i] # NULL

SyncCollect ==
  /\ apc = "host" /\ idle /\ ~ bOn
  /\ pGDelay' = [i \in Chan |-> IF Retired(i) THEN pCDelay[i] ELSE pGDelay[i]]
  /\ pCDelay' = [i \in Chan |-> IF Retired(i) THEN NULL ELSE pCDelay[i]]
  /\ \E i \in Chan : pGDelay'[i] # NULL \/ pPDelay[i] # NULL
  /\ nSize' = -1
  /\ Submit
  /\ apc' = "process"
  /\ UNCHANGED <<settings, pPDelay, delay, nMemUsed, worker>>

\* The pending memory becomes the current one, and that becomes garbage. Slip:
\* channels without pending memory are not skipped.
CommitsAll == Chan
Commits == {i \in Chan : pPDelay[i] # NULL}

SyncCommit ==
  /\ apc = "host" /\ completed /\ bOn
  /\ pGDelay' = [i \in Chan |-> IF i \in Commits THEN pCDelay[i] ELSE pGDelay[i]]
  /\ pCDelay' = [i \in Chan |-> IF i \in Commits THEN pPDelay[i] ELSE pCDelay[i]]
  /\ pPDelay' = [i \in Chan |-> NULL]
  /\ Executor!Reset(Allocator)
  /\ apc' = IF \E i \in Commits : pCDelay[i] # NULL THEN "collect" ELSE "process"
  /\ UNCHANGED <<settings, nSize, delay, nMemUsed, worker>>

\* the second submission of a commit that left garbage
SyncSubmit ==
  /\ apc = "collect"
  /\ nSize' = nMaxDelay
  /\ Submit
  /\ apc' = "process"
  /\ UNCHANGED <<settings, memory, worker>>

\* the task is submitted or running, or it is completed and the line is off, or
\* it is idle and the memory is what it should be
SyncNothing ==
  /\ apc = "host"
  /\ \/ ~ idle /\ ~ completed
     \/ completed /\ ~ bOn
     \/ idle /\ bOn /\ ~ Resize
     \/ idle /\ ~ bOn /\ \A i \in Chan : /\ pPDelay[i] = NULL
                                         /\ pCDelay[i] = NULL
                                         /\ pGDelay[i] = NULL
  /\ apc' = "process"
  /\ UNCHANGED <<exec, settings, nSize, memory, worker>>

\* process_delay() of all channels is over, process() returns
ProcessEnd ==
  /\ apc = "process"
  /\ apc' = "host"
  /\ UNCHANGED <<exec, settings, nSize, memory, worker>>

-----------------------------------------------------------------------------
(* The host                                                                *)

\* update_settings() between two calls of process()
UpdateSettings ==
  /\ apc = "host"
  /\ changes < MaxChanges
  /\ changes' = changes + 1
  /\ bOn' \in BOOLEAN
  /\ nMaxDelay' \in Sizes
  /\ UNCHANGED <<exec, nSize, memory, worker, apc>>

\* the wrapper shuts the executor down, which waits for the task, then ...
Shutdown ==
  /\ apc = "host"
  /\ Executor!Close
  /\ apc' = "shutdown"
  /\ UNCHANGED <<settings, nSize, memory, worker>>

ShutdownEnd ==
  /\ apc = "shutdown"
  /\ Executor!Down
  /\ UNCHANGED <<settings, nSize, memory, worker, apc>>

\* ... destroy() deletes what the pointers hold. Slip: the garbage is forgotten.
HeldNoGarbage == {pPDelay[i] : i \in Chan} \cup {pCDelay[i] : i \in Chan}
Held == UNION {{pPDelay[i], pCDelay[i], pGDelay[i]} : i \in Chan}

Destroy ==
  /\ apc = "shutdown" /\ phase = "down"
  /\ delay' = [d \in Objects |-> IF d \in Held THEN NULL ELSE delay[d]]
  /\ pPDelay' = [i \in Chan |-> NULL]
  /\ pCDelay' = [i \in Chan |-> NULL]
  /\ pGDelay' = [i \in Chan |-> NULL]
  /\ apc' = "destroyed"
  /\ UNCHANGED <<exec, settings, nSize, nMemUsed, worker>>

Destroyed == apc = "destroyed" /\ UNCHANGED vars

Run ==
  \/ RunStart \/ RunCount
  \/ RunDrop \/ RunDropNext \/ RunDropEnd
  \/ RunKeep \/ RunAllocate \/ RunFail \/ RunReturn

Process ==
  \/ SyncResize \/ SyncCollect \/ SyncCommit \/ SyncSubmit \/ SyncNothing
  \/ ProcessEnd

Next == Run \/ Process \/ UpdateSettings \/ Shutdown \/ ShutdownEnd \/ Destroy \/ Destroyed

Spec == Init /\ [][Next]_vars

\* The host goes on calling process(), the executor runs what it accepted, and
\* the lock of the executor, which is held for a few instructions, is not busy
\* at every attempt.
Fairness ==
  /\ WF_vars(Process)
  /\ WF_vars(Run)
  /\ SF_vars(SyncResize /\ Executor!Accept(Allocator))
  /\ SF_vars(SyncCollect /\ Executor!Accept(Allocator))

LiveSpec == Spec /\ Fairness

-----------------------------------------------------------------------------
(* Properties                                                              *)

\* Every variable keeps its range, and the executor its own.
TypeOK ==
  /\ state \in [{Allocator} -> {"idle", "submitted", "running", "completed"}]
  /\ code \in [{Allocator} -> {OK, NO_MEM, NoCode}]
  /\ phase \in {"open", "closed", "down"}
  /\ bOn \in BOOLEAN /\ nMaxDelay \in Sizes \cup {0} /\ nSize \in Sizes \cup {0, -1}
  /\ pPDelay \in [Chan -> Objects \cup {NULL}]
  /\ pCDelay \in [Chan -> Objects \cup {NULL}]
  /\ pGDelay \in [Chan -> Objects \cup {NULL}]
  /\ delay \in [Objects -> Sizes \cup {0, NULL}]
  /\ nMemUsed \in Int /\ wadd \in Int
  /\ wpc \in {"none", "drop", "alloc", "done", "nomem"}
  /\ wch \in 1..(Channels + 1) /\ fails \in Nat
  /\ apc \in {"host", "process", "collect", "shutdown", "destroyed"}

\* a pointer of channel i holds object d
Holds(i, d) == pPDelay[i] = d \/ pCDelay[i] = d \/ pGDelay[i] = d

\* At every step of both threads each allocated object is held by exactly one
\* pointer and no pointer holds a freed one: nothing leaks, nothing is freed
\* twice, and process_delay() never plays from memory that the task freed. It
\* rests on run() dropping the garbage before a commit makes new garbage.
OwnedOnce ==
  /\ \A d \in Objects : delay[d] # NULL <=> \E i \in Chan : Holds(i, d)
  /\ \A i, j \in Chan :
       /\ pPDelay[i] # NULL => pPDelay[i] # pCDelay[j] /\ pPDelay[i] # pGDelay[j]
       /\ pCDelay[i] # NULL => pCDelay[i] # pGDelay[j]
       /\ i # j => /\ pPDelay[i] # NULL => pPDelay[i] # pPDelay[j]
                   /\ pCDelay[i] # NULL => pCDelay[i] # pCDelay[j]
                   /\ pGDelay[i] # NULL => pGDelay[i] # pGDelay[j]

Allocated == {d \in Objects : delay[d] # NULL}

\* the capacity of all memory that channel i holds
Size(d) == IF d = NULL THEN 0 ELSE Capacity(delay[d])
MemoryOf(i) == Size(pPDelay[i]) + Size(pCDelay[i]) + Size(pGDelay[i])

\* The counter that the Memory indicator shows is the capacity of all objects
\* of the line, each held by one pointer, up to the addition that run() is about
\* to make.
MemoryCounted ==
  apc # "destroyed" =>
    nMemUsed + wadd = MemoryOf(1) + (IF Channels = 2 THEN MemoryOf(2) ELSE 0)

\* Both channels of a stereo line have memory of the same length, whatever the
\* settings did during the allocation, until an allocation fails.
ChannelsTogether == fails = 0 => \A i, j \in Chan : LengthOf(i) = LengthOf(j)

\* destroy() leaves nothing allocated, in whatever state the line was when the
\* host began to shut down.
NothingLeft == apc = "destroyed" => Allocated = {}

\* A channel that plays keeps its memory as long as the line is on: it is only
\* ever exchanged, in one step, for memory of the length then pending.
PlaysOn ==
  [][bOn => \A i \in Chan : pCDelay[i] # NULL => pCDelay'[i] # NULL \/ apc' = "destroyed"]_vars

serving == apc \notin {"shutdown", "destroyed"}

\* When the line is on and its settings stay, all channels get memory of the
\* length asked for, although submissions are refused, an older request may be
\* running and some allocations fail.
Resized ==
  \A n \in Sizes :
    (serving /\ bOn /\ nMaxDelay = n)
      ~> (~ serving \/ ~ bOn \/ nMaxDelay # n \/ \A i \in Chan : LengthOf(i) = n)

\* "When turned off, the allocated memory gets freed" (art_delay.php:53-54).
\* A line that is switched off while its task is submitted or running keeps its
\* memory: sync_delay() does nothing when the task is completed and the line off.
FreedWhenOff == (serving /\ ~ bOn) ~> (~ serving \/ bOn \/ nMemUsed = 0)

-----------------------------------------------------------------------------
(* The inductive invariant of the proofs                                   *)

\* run() is somewhere exactly while the task is running, and the task waits in
\* the executor exactly while it is submitted.
WorkerKnown ==
  /\ wpc # "none" <=> state[Allocator] = "running"
  /\ order = IF state[Allocator] = "submitted" THEN <<Allocator>> ELSE <<>>

\* run() empties the channels in turn before it fills the pending pointers, so
\* no garbage is left when the task is completed and a commit makes new garbage.
DropsFirst ==
  /\ wpc = "drop" => \A i \in Chan : i < wch => pGDelay[i] = NULL /\ pPDelay[i] = NULL
  /\ wpc \in {"alloc", "done", "nomem"} => \A i \in Chan : pGDelay[i] = NULL
  /\ wpc = "alloc" => nSize \in Sizes \cup {0}
  /\ wpc = "alloc" => \A i \in Chan : i >= wch => pPDelay[i] = NULL
  /\ state[Allocator] = "completed" => \A i \in Chan : pGDelay[i] = NULL

\* Nothing runs and nothing is accepted once the executor is down, which the
\* wrapper waits for before destroy().
DownIsQuiet ==
  /\ phase = "down" => state[Allocator] \notin {"submitted", "running"}
  /\ apc = "destroyed" => phase = "down"

IInv == TypeOK /\ WorkerKnown /\ DropsFirst /\ DownIsQuiet /\ OwnedOnce /\ NothingLeft

\* channel i got pending memory of the length asked for
Ready(i) == pPDelay[i] # NULL /\ delay[pPDelay[i]] = nSize

\* Why the channels stay together: until an allocation fails, the task fills the
\* pending pointers of both channels or of none, so a commit exchanges both; and
\* when the line is switched off, both have garbage or none has.
Together ==
  /\ apc = "collect" => idle
  /\ fails = 0 =>
       /\ ChannelsTogether
       /\ idle => \A i, j \in Chan : pGDelay[i] = NULL <=> pGDelay[j] = NULL
       /\ wpc # "nomem"
       /\ wpc = "done" => \A i \in Chan : pPDelay[i] = NULL
       /\ wpc = "alloc" =>
            \A i \in Chan : i < wch => IF Fits(i) THEN pPDelay[i] = NULL ELSE Ready(i)
       /\ completed => (\A i \in Chan : pPDelay[i] = NULL) \/ (\A i \in Chan : Ready(i))
=============================================================================
