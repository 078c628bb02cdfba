# Verification of lsp-plugins

TLA+ models of the parts of lsp-plugins in which threads, callbacks and
long-lived data structures meet: the executor that runs the background tasks of
the plugins, a plugin that exchanges memory with such a task, the ring of
samples it exchanges, a plugin that loads and renders files in such tasks, the
path ports through which the user asks for a file, the OSC packet ring between
two threads, the recursive mutex, the key-value tree shared by the DSP and the
UI, and the dispatcher that keeps two such trees alike. TLC checks them on
small instances; TLAPS proves, for all values of their constants, the executor,
the mutex, the OSC ring as a FIFO of packets, the delay ring as a shift register,
the ownership and the accounting of the delay plugin's memory, that the impulse
response plugin ends up with what was asked for last, that the key-value tree
implements a map, and that the two key-value trees come to agree. Every invariant
and action property of a run that passes is proved; liveness is left to TLC.

Run `tlc -config X.cfg M` for a model and `tlapm M.tla` for a proof module;
`PROJECT.json` lists all runs, theorems, the source lines of every definition,
and for each property a plausible mistake in the code that violates it.

## 1. The system

A plugin is a `plugin_t` whose `process()` the host calls on its audio thread.
It must not block: files are read and kernels rendered by tasks of an executor,
and data for the UI goes through ports. A wrapper (JACK, LV2, VST, LADSPA)
adapts the plugin to the host and moves data between ports, DSP and UI.

| Component (source) | State | Operations | Hard behaviour | What makes it correct |
|---|---|---|---|---|
| Executor (`core/ipc/NativeExecutor`, `Thread`, `ITask`, `IExecutor`) | list of tasks under a try-lock, task states, thread state, cancellation flag | `submit`, `reset`, `run`, `start`, `shutdown`, `cancel`, `join` | clients, worker and host interleave; refusal when the lock is busy; shutdown during a submission | each accepted task runs once, in order; shutdown returns after the last one |
| OSC ring (`core/port_data.cpp`, `osc_buffer_t`) | ring memory, head, tail, size | `submit`, `fetch`, `skip`, `clear` | one writer and one reader without lock; packets that wrap; a `clear()` that looks at neither | a FIFO of whole packets |
| Mutex (`core/ipc/Mutex.cpp`) | futex word, owner, depth | `lock`, `try_lock`, `unlock` | wake-ups against sleeps; fields outside the CAS | a recursive lock that wakes its sleepers |
| KVT storage (`core/KVTStorage.cpp`) | tree of nodes with reference counts, garbage list, lists of pending changes | `put`, `touch`, `commit`, `remove`, `remove_branch`, `clear`, `gc`, iterators | revived garbage, removal during a pass, lists that must agree with flags | a map of parameters with the directions they must be transferred in |
| KVT dispatcher (`core/KVTDispatcher.cpp`, `lv2/ui_wrapper.h`) | two OSC rings, number of clients, requests to send everything | `run`, `connect_client`, `disconnect_client`, transfer of the UI | replicas on two sides, full rings, clients that come and go, listeners that change what they are told of | both replicas agree once changes stop, but for changes the code drops |
| Delay line memory (`plugins/art_delay.cpp`) | per channel a pending, a current and a garbage ring; the state of the task, memory in use | `sync_delay`, `DelayAllocator::run`, `update_settings`, `destroy` | settings that change while the task runs, refused submissions, an allocation that fails, shutdown at any time | each ring has one owner, all memory is accounted for and freed, both channels change together, and the length asked for arrives |
| Delay ring (`core/util/DynamicDelay.cpp`) | samples, head, capacity, maximum delay | `init`, `process`, `copy` | positions that wrap, two rings with different capacities, memory that is not cleared | a shift register that keeps its newest samples when its length changes |
| Path ports (`jack/types.h`, `lv2/types.h`) | a request, the path in use, state of the hand-over | `submit`, `pending`, `accept`, `commit` | a request while the previous path is in use; a try-lock | a path is stable while it is used, and the last request gets its turn |
| Impulse responses (`plugins/impulse_responses.cpp`) | files, samples and convolvers in current and swap pairs, request counters | `update_settings`, `process`, `load`, `reconfigure` | requests during loading or rendering, refused submissions, allocations that fail half-way | the last file and settings requested are what is heard in the end; the audio thread never touches what a task works on |
| Streams, frame buffers (`core/port_data.cpp`) | rings of frames and rows | `add_frame`, `write_frame`, `commit_frame`, `sync` | the UI copies while the audio thread writes | the copy equals the last frames of the source |
| JACK wrapper (`container/jack/wrapper.h`) | connection state | `connect`, `disconnect`, callbacks, `transfer_dsp_to_ui` | shutdown callback against connect | a lost connection is noticed |
| LV2, VST, LADSPA wrappers | ports, atom sequences, chunks | host callbacks | mostly one thread per side | ports are transferred |
| Plugins, DSP units, DSP library, 3D | signals, filters, meshes | numeric | one thread | numeric accuracy: not for a model checker |
| Files, I/O, calc, i18n, protocol, UI toolkit | parsers, widgets | sequential | errors of the system | formats and layout: not modelled |

Interaction: a plugin calls `submit()` of the executor on the audio thread,
polls the state of its tasks, and swaps pointers when they are completed: the
delay lines of `art_delay` pass rings of samples to and from their task through
three pointers per channel, without a lock. The
executor and all KVT users synchronise through the `Mutex` or through the
try-lock of the executor. The KVT dispatcher is a `Thread` that, under the KVT
mutex, moves changes between the tree and two OSC rings; the UI empties and
fills those rings and its own tree.

## 2. Plan

Most important first: what every plugin relies on, then what composes it.

1. **Executor**: `TaskService` (abstract), `NativeExecutor`, proofs. *Done.*
2. **OSC ring**: `PacketQueue` (abstract), `OscBuffer`, proofs. *Done.*
3. **Mutex**: `RecursiveLock` (abstract), `Mutex`, proofs. *Done.*
4. **KVT storage**: `KvtMap` (abstract), `KvtStorage`, proofs. *Done; left are
   the iterators over branches and over receptions.*
5. **Delay line memory**: `ArtDelay` over `TaskService`, proofs. *Done.*
6. **Delay ring**: `DelayLine` (abstract), `DynamicDelay`, proofs. *Done.*
7. **Impulse response plugin**: `PathPort`, `ImpulseResponses` over
   `TaskService`, proofs. *Done.*
8. **KVT dispatcher**: `KvtReplicas`, two maps and two bounded queues, proofs.
   *Done; left are several UIs at once, and a UI that is hidden and shown again.*
9. **Streams and frame buffers**: `sync()` against the writer, in pure form
   against a reference definition, then interleaved.
10. **JACK connection**: `connect`, `disconnect` and the shutdown callback.
11. **LADSPA**: its wrapper creates an executor and never starts it
    (`include/container/ladspa/wrapper.h:257`), a parameter of `NativeExecutor`.

## 3. Modules

| Module | Models | State and steps |
|---|---|---|
| `TaskService` | promise of an executor | task states, codes, order of acceptance, phase |
| `NativeExecutor` | `NativeExecutor`, `Thread`, `ITask` | one step per access to shared memory; `cpc`, `wpc`, `hpc` say where clients, worker and host are in the code |
| `NativeExecutorProofs` | | theorems |
| `PacketQueue` | promise of the OSC ring | packets in flight, last packet delivered, whether the queue is broken |
| `OscBuffer` | `osc_buffer_t` | memory in 32-bit words with the padding cell behind the ring; load of the size, copy, update of the size are steps; `cpc` says whether a `clear()` is under way and whether it met a call, `torn` whether the ring still suffers from it |
| `OscBufferProofs` | | theorems |
| `RecursiveLock` | promise of the mutex | depth of each thread |
| `Mutex` | `ipc::Mutex` on Linux | futex word, owner, depth; CAS, wait and wake are steps |
| `MutexProofs` | | theorems |
| `KvtMap` | promise of the KVT storage | value and pending directions of each path |
| `KvtStorage` | `KVTStorage`, `KVTIterator` | references, valid and garbage nodes, children arrays, lists of changes, one iterator; one call is one step because all callers hold the mutex, but for `remove_branch()`, `clear()` and `touch_all()`, which go node by node: `job` is what they have yet to visit, and no other call begins before it is empty |
| `KvtStorageProofs` | | theorems |
| `ArtDelay` | one line of `art_delay_base` with its `DelayAllocator` | pointers of each channel, length asked for, memory counter, and the state of a `TaskService` with this one task; each access of the task to a pointer is a step, and so is each branch of `sync_delay()` |
| `ArtDelayProofs` | | theorems |
| `DelayLine` | promise of the delay ring | samples by age, maximum delay, last output |
| `DynamicDelay` | `DynamicDelay` | ring with the cell behind it, head, capacity; one step per sample, one per exchange of rings |
| `DynamicDelayProofs` | | theorems |
| `PathPort` | `jack_path_t`, `lv2_path_t` | a port as a record, and what each call makes of it; no variables of its own |
| `ImpulseResponses` | `impulse_responses_base` with its loaders and its configurator, behind the ports and the wrapper's call of `update_settings()` | files, samples, convolvers, what the next configuration has to do, the state of a `TaskService` with one loader per file and the configurator; each branch of `process()` and each file or channel a task works on is a step |
| `ImpulseResponsesProofs` | | theorems |
| `KvtReplicas` | `KVTDispatcher`, the KVT side of the LV2 UI and of the wrapper | values and pending sets of the DSP and of the UI, two rings, clients, the mutex of the DSP; each packet is a step, and so is each parameter the listeners of the UI are told of; `LoadScene` and `RestoreState` are the plugin and the host, which hold the mutex for all they change |
| `KvtReplicasProofs` | | theorems |
| `MC*` | | constants of the instances |

Composition: `ArtDelay` takes the executor from `TaskService` through
`INSTANCE` and combines its own steps with the service's `Accept`, `Refuse`,
`Start`, `Complete` and so on; `ImpulseResponses` does the same with several
tasks, and adds the ports of `PathPort`. That `NativeExecutor` keeps this promise is proved, so what
holds of the plugins over `TaskService` holds over the real executor.
`KvtReplicas` stands on the two other abstract modules: its replicas are the maps
of `KvtMap` with one direction each, which `KvtStorage` implements, and its rings
the queues of `PacketQueue`, which `OscBuffer` implements while the two accesses of
the finding `osc_race` do not meet. A ring torn by a `clear()` is the broken queue
of `PacketQueue`: `KvtReplicas` loses what is sent into it and receives anything.

Definitions marked *slip* in a comment are not used by a specification. Each is
what a wrong version of the definition after it could be, and shows that a
property depends on that definition.

What the models leave out of the mapped code is said in each module's header:
copies of values, listeners, allocation failures other than those of
`pthread_create()` and of the delay memory, the Windows branches.

## 4. Runs

All bounds are constants of a `.cfg` or definitions of an `MC*` module.

| Run | Instance | What it shows |
|---|---|---|
| `executor` | 2 clients, 3 tasks (one client owns two), clients may call `submit()` during `shutdown()` | queue, lock and task states agree; at the end of `shutdown()` nothing is submitted or running; `TaskService` is implemented; each submitted task completes; `shutdown()` returns if the clients stop some time |
| `osc_ring` | 5 words, packets of 1 to 3 words, a reader with room for 2, 3 packet names, `clear()` at any time | framing, accounting of space, FIFO, from the start until a `clear()` meets a call and again from the next one that meets none |
| `osc_race` | the same, `fetch()` may fall between load and store of `submit()` | *violation*: a lost update of the size delivers what nobody submitted |
| `osc_skip` | the same, `skip()` may end at the end of the ring | *violation*: the next packet is not the one submitted next |
| `mutex` | 4 threads, depth 2 | exclusion, no lost wake-up, a sleeper gets on, `RecursiveLock` is implemented |
| `kvt_storage` | `/a`, `/a/b`, `/a/c`, one value; `b` and `c` are symmetric | reference counts, tree and garbage, lists of changes, a pass over the changes, `KvtMap` is implemented |
| `art_delay` | 2 channels, lengths 2 and 4, 4 changes of the settings, 1 failing allocation | one owner per ring, memory counter, both channels exchanged together, nothing left after `destroy()`, sound goes on, the length asked for arrives |
| `art_delay_off` | the same with 2 changes, no failure | *violation*: a line switched off keeps its memory |
| `dynamic_delay` | `BUF_SIZE` 1, maximum delays 1 to 3, delays and feedback delays -1, 1, 2, 4, gains 0 and 1, samples modulo 2 | the ring is the shift register `DelayLine` |
| `delay_feedback` | the same, feedback may fall on the end of the ring | *violation*: it is written behind the ring |
| `impulse_responses` | 1 file and channel, port of JACK or LV2, 2 requests among no file, a stereo, a mono and a broken one, 1 turn of a control (cut or source), 1 failing allocation | at rest, file, sample and convolver are those asked for last, and the UI shows that sample; nothing is exchanged under a running task; the plugin comes to rest |
| `kvt_replicas` | 2 parameters, values 1, 2 and one too large for a packet, rings of 1 packet, 3 changes by plugin, host, user, listeners or a torn ring, a UI opened twice | the replicas agree once the transfer has settled, but for what the list below names; it settles while a UI stays open and the ring is whole |

Why the bounds are enough:

- *Executor*: with three tasks the list has a head, a middle and a tail, one
  client has a second task while its first waits, and both clients and the
  worker compete for the lock. Tasks are reset and submitted again without bound.
- *OSC ring*: with a capacity of five words, packets wrap between length and
  payload, inside the payload, exactly at the end, and the ring is full or
  empty at each position. Packets larger than the reader's memory are refused
  and skipped. Three names keep consecutive packets apart.
- *Mutex*: four threads are the least with which one takes the mutex between
  the release and the wake-up of another while two sleep. Depth 2 has recursion.
- *KVT*: a branch is valid for its own parameter, for one child or for both; a
  second sibling moves the position in the children array. One value is enough,
  because no branch of the code compares values: a `put` of an equal value
  replaces the copy and marks a change. The two siblings may be exchanged in every
  behaviour, as no step prefers a name. The theorems hold for trees of any depth
  and width.
- *Delay memory*: four changes switch a line on, lengthen it, switch it off and
  on again while its task is at any point. The failure hits the first or the
  second channel. The theorems lift the bounds of changes and failures.
  `run()` also frees pending memory, which no state of the model has at that
  point: pending memory leaves only by a commit, and only a commit resets the
  task. The model keeps the branch as the alternative inside `RunDrop`.
- *Delay ring*: rings hold four to six samples and are exchanged at every
  position of the head; delays lie below, at and above their limits.
- *Impulse responses*: a second request meets the first one in the port, in the
  loader, between loading and rendering, and in the rendering; a control turns at
  each of these points. With one file all hand-overs between the threads occur;
  several files share nothing but the configurator, and the theorems hold for any
  number. The stereo and the mono file tell a track that is there from one that
  is not.
- *KVT replicas*: a ring of one packet is full after each change, so every retry
  occurs; the second parameter is the one that finds it full. Two sessions let
  packets and requests of the first be met by the second, and `clear()` meet the
  `submit()` of the second. A change may concern both parameters at once (a scene
  that puts one and removes the other, a listener that does the same); the third
  one can answer a crossing of the first two. `MaxPuts` bounds all changes that are
  not part of the transfer. There are 2.2 million states; with a third parameter
  no other case occurs, as no step compares two of them.

`KvtReplicas!Agreement` names what it does not promise with a set `apart`, kept by
the steps. A parameter is in it when it may differ and nothing on its way, or
waiting to be sent, brings the two sides together:

- its changes crossed in the two rings, so that each side took the value of the
  other;
- its packet was dropped: `send_kvt_state()` ignores that the ring is full
  (`ui_wrapper.h:354`), `build_message()` makes none of a value that is too large,
  and the dispatcher clears the rings of a UI it has not counted yet
  (`KVTDispatcher.cpp:191`), or tears them;
- one side removed it: a restored state, or a scene with fewer objects
  (`room_builder.cpp:170`), on the side of the DSP, a listener on that of the UI
  (`room_builder_ui.cpp:287`). No removal is sent;
- a listener of the UI put it while `sync_kvt_state()` told it of another one
  (`ui_wrapper.h:462`, `room_builder_ui.cpp:193`): it is marked `KVT_RX`, and
  `commit_all(KVT_RX)` (`ui_wrapper.h:486`) takes the mark away before anything was
  sent. A scene that is loaded again with fewer objects shows it: the DSP selects
  object 0, the UI the last one that is left.

It leaves the set with the next packet that meets no other one. When a UI opens,
all parameters are sent, and only those with a packet left in a ring are in the
set. So the property says what the code does bring together, and that in what is
modelled there is no further way to differ; that these ways exist is in the list of hazards.

Deadlock is checked in all runs. A delay line that was destroyed stutters.

What is said of the OSC ring has three exceptions. Two are constants of the
model: `osc_ring` and the theorems leave out what `osc_race` (`Overlap`) and
`osc_skip` (`WrapSkips`) show to be wrong, so that the rest of the ring is checked
beyond those two errors. The third is part of the behaviour: `clear()`
(`port_data.cpp:747-752`) takes no lock and looks at neither end, and its caller
(`KVTDispatcher.cpp:177-192`) counts clients that connect and submit without a mutex
(`KVTDispatcher.cpp:230-234`, `lv2/ui_wrapper.h:354`, `lv2/wrapper.h:744, 1051`). A
`clear()` that meets a call leaves size, head and tail out of step: a `submit()`
that loaded the size before stores a size that counts packets no longer between
head and tail. In the model such a `clear()` sets `torn`, and from then on the two
ends may do anything (`TornSubmit`, `TornFetch`); the first `clear()` that meets no
call sets it back. The properties speak of the ring while it is not torn, and thus
also of what a torn ring becomes after it was cleared. `TypeOK` keeps its ranges of
a torn ring only because the model does not follow its words any more.
In `KvtReplicas` only the ring to the DSP can be torn: the UI fetches from the other
one under the mutex under which the dispatcher clears.

In `dynamic_delay` the finding of `delay_feedback` is kept out in the same way as
the two of the ring.

## 5. Fairness

| Specification | Assumed | Justification |
|---|---|---|
| `NativeExecutor!FairSpec` | weak fairness of the worker, of a begun `submit()`, of the host inside `shutdown()`; strong fairness of `WLock`, `HLock` | the system schedules every thread; the lock is held for a few instructions and both waiters try it again every 100 ms, so that they do not meet it busy for ever. No client has to begin a call |
| `Mutex!FairSpec` | weak fairness of each step inside `lock()` and `unlock()`, and that a holder unlocks to the end | threads are scheduled; users hold the mutex for one pass over the storage. No signal has to arrive, nobody has to lock. The code is not fair to a single sleeper: `SleepersProgress` promises no more than that some sleeper goes on |
| `ArtDelay!LiveSpec` | weak fairness of `process()` and of the task; strong fairness of an accepted submission in each branch | the host calls `process()` again and again, the executor runs what it accepted (`SubmittedCompletes`), and its lock is not busy at each attempt. `MaxFails` bounds the failures, so that in the end an allocation succeeds |
| `ImpulseResponses!LiveSpec` | the same for the audio thread, the tasks, and the submissions of loaders and of the configurator; weak fairness of a begun request of the user | as above; a thread that took the lock of a port writes the request and frees it. The user has to do nothing |
| `KvtReplicas!LiveSpec` | weak fairness of the steps of both threads; strong fairness of `RoundBegin` and `FetchBegin`; an `idle()` of the UI begins with the mutex free infinitely often, unless the ring is torn | the dispatcher waits for its mutex with `lock()`; it sleeps 100 ms after each round without changes (`KVTDispatcher.cpp:198`), longer than the UI takes between two calls of `idle()`, which only tries it; with a torn ring it may go on receiving. Nobody has to change anything, or to open a UI, and no listener has to answer |

## 6. Proofs

`tlapm` proves these without any assumption but the named ones on constants.

**Executor** (`ExecutorAssumption`: each task has one client that submits it,
`NoTask` is no task, 0 is a result). `IInv` is the conjunction of `TypeOK`,
`LockExclusive`, `QueueIsAccepted`, `TasksAccounted` with two parts that the
properties do not speak of: `ClientsInv` (a client inside `submit()` holds an
idle, then a submitted task of its own that is not in the list yet) and
`ThreadInv` (where the worker and the host can be relative to each other). Without
`ClientsInv`, linking a task could put it into the list twice; without
`ThreadInv`, the worker could leave with tasks waiting. `ShutdownDrained` follows
from them. `ExecutorRefinement` maps each step to a step of `TaskService` or a
stutter: a submission takes effect when the task is linked.

**Mutex** (`MutexAssumption`: `NoThread` is no thread, `MaxDepth` positive).
`IInv` is `TypeOK`, `MutualExclusion` and `OwnerKnown`, which no run lists: who is
inside is who `nThreadId` names, and `nLocks` counts its locks. `NoLostWakeup` is
proved on top of it, and the refinement of `RecursiveLock`, for any number of
threads.

**OSC ring** (`OscBufferAssumption`: packets fit into the ring, names and room are
positive). All four theorems have the premises `Overlap = FALSE` and `WrapSkips =
FALSE`: with the errors of `osc_race` and `osc_skip` the ring is no queue. They
cover `clear()` at any time: `RingIsQueue` maps one that meets a call to a step that
breaks the queue, and `FramesKept` and `SizeKept` say nothing of the ring until it
is cleared again.
`FramesSpelled` says what the cells hold, but not why the next `submit()` spoils
none of it: the packets must not share cells, with positions that wrap and a
padding cell that stands for cell 0. `Framing` therefore adds a *route*: where
each packet begins, and how many words are before it. Each packet begins where
that number of words reaches from the head on the circle, and the last number is
at most the capacity, so that all lie apart. `WriterKnown` (the size that was
loaded is still the size, and the packet has room) and `ReaderKnown` (the length
that was read is that of the oldest packet) carry it over the steps of one call, `ClearKnown` (nothing meets a
`clear()` that goes on alone) over the repair.
The proof stores a packet behind a route (one packet more), or takes the first one
off it; the sums are kept in the route, so that no induction is needed.

**Delay ring** (`DynamicDelayAssumption`: a positive `BUF_SIZE`, delays that are
integers). Type correctness is inductive: the head and each access lie in the
ring, whatever the delays and gains are. For the refinement, `Line` is the ring
read backwards from the head; one sample of `process()` shifts it by one, and an
exchange of rings keeps the newest samples of it, whichever of the two rings is
larger and wherever the head was. The premise `EndFeeds = FALSE` keeps out the
error of `delay_feedback`.

**KVT replicas** (`ReplicasAssumption`). `Agreement` speaks of the moment when
nothing is pending and both rings are empty. `Converging` says of each parameter
that is not `apart`, at any moment, who still carries the difference: it is
pending on one side, or the last packet of it in a ring holds the value of the
sender. What a listener of the UI put during `sync_kvt_state()` does not count as
pending, as it is dropped at the end. A change nobody is told of leaves a parameter
apart unless both sides agree and no packet of it is on its way (`SilentChange`).
`ClearedAreResent` and `RequestsCounted` are about sessions: as long as
what was dropped is not sent again, a request for all parameters is still there.

**KVT storage** (`KvtAssumption`: paths are non-empty sequences of names, with
every prefix a path, and `None` is none of them). The parts of the inductive
invariant `IInv` need each other. `RefsCounted` alone lets `reference_down()` fall
below zero at a node that `TreeIntact` knows to be linked; `TreeIntact` alone lets
`gc()` destroy a node of which a stored parameter is left; and `gc()` keeps the
lists right only because nothing in them is garbage (`PendingListed`). `JobKnown`
says that what `remove_branch()` or `touch_all()` has yet to visit is still stored,
and `PassKnown` that an undisturbed pass has yet to meet the list from the node on
that the iterator goes to next; `TxPassComplete` is its last moment.

The argument for the references goes along one path. A climb of
`reference_up()` or `reference_down()` changes the nodes from the path's end up to
the first one that stays valid (`Raised`, `Lowered`). At each of them just one
child turns valid or garbage, the one below it on the path, so one valid child more
or less is counted and one reference more or less (`Counted`). That every ancestor
of a valid node is valid (`Ancestors`) needs induction over the length of a path; it
is done as the search for a least counterexample (`Least`), from the theorem of
the library that `<` is well-founded on the natural numbers.

For the refinement, `remove_branch()` takes effect when it is called: the map
has lost the parameters that the call has yet to visit, and each turn of its loop is
a stutter. That the set is the whole stored part of the branch follows from
`TreeIntact`: what is stored is found through valid nodes, so the loop skips
nothing of it. `touch_all()` is mapped in the same way.

**Delay memory** (`ArtDelayAssumption`: one or two channels, natural lengths, a
positive `BUF_SIZE`). `OwnedOnce` is not inductive by itself: when the task
commits a new ring, the old one becomes garbage, and the pointer must be free for
it. `IInv` adds `WorkerKnown` (the task is in the executor's hands while it works
on the pointers), `DropsFirst` (`run()` has freed the garbage of all channels
before it makes new one) and `DownIsQuiet` (after the shutdown nothing runs). From
it `TypeCorrect`, `MemoryOwnedOnce`, `DestroyFreesAll` and the action property
`KeepsPlaying` follow, without bounds on changes and failures. `MemoryCounted`
adds up what the three pointers of each channel hold, which is each allocated
object once, by `OwnedOnce`; `MemoryAccounted` compares the sums before and after
each step (`MemoryAfter`): an exchange of pointers leaves them, and `run()` adds or
subtracts the capacity of the object it makes or frees. `ChannelsEqual`
needs more of the moment between: at each point of `run()`, and between `run()`
and the commit, how far the channels of a line are with the same length
(`Together`, `Ready`).

**Impulse responses** (`ImpulseAssumption`: positive numbers of channels and
tracks, no file has more tracks than are used, the empty path loads nothing).
`QuietHears` speaks of the moment when nothing is left to do; what makes it true
is spread over the stages a request is in before. `IInv` says for each stage who
holds the request: `OrderKnown` (what waits in the executor is submitted, once),
`WorkerKnown` (which task runs follows from where the worker is), `RequestKept`
(the path last asked for is in the request or in the port, and the file the loader
left belongs to the path), `SampleKept` (a sample that is not of the current file
and cuts is marked, or given to the configurator, or its rendering failed) and
`RouteKept` (the same of the convolver and its source). None of them is inductive
without the others: that the file may be exchanged, for example, needs that the
configurator is idle, and that it is needs where the worker is. `NoRequestLost`
and `NothingDisturbed` follow, for any number of files and channels, of requests,
turns and failures, and for both kinds of ports. For `ShowsWhatIsHeard` the
invariant is continued to the UI by `ViewInv`: which file the norm was taken of
(`NormKept`), which sample the thumbnails show or will show after the rendering
that is due (`ThumbsKept`), and whether the mesh has them or waits for them
(`MeshKept`).

The inductive invariants were checked by TLC on the instances before they were
proved.

## 7. Findings

Four runs look for a violation and find one; `PROJECT.json` quotes the lines.

1. `osc_race`: `submit()` stores the size it computed from an earlier load and
   loses what `fetch()` subtracted in between (`port_data.cpp:694-721`).
2. `osc_skip`: `skip()` wraps the head at another place than `submit()` wraps the
   tail (`port_data.cpp:954`).
3. `art_delay_off`: a delay line that is switched off while its task is submitted
   or running keeps its memory until it is switched on again, where the manual
   says it is freed (`art_delay.cpp:857-860`).
4. `delay_feedback`: a feedback position equal to the capacity is not wrapped
   (`DynamicDelay.cpp:102`).

## 8. Only model-checked

Liveness (`SubmittedCompletes`, `ShutdownReturns`, `SleepersProgress`,
`Resized`, `ComesToRest`, `Settles`) is beyond TLAPS: its backends know neither
fairness of an action nor `ENABLED`. TLC checks it on the instances above, under
the fairness of section 5. All other properties of the runs that pass are proved. The
four runs that look for a violation need no proof: they show a behaviour.

Theorems of induction that take an operator as a parameter cannot be used with
the provers at hand. Where an induction over numbers is needed, the proofs look for
a least counterexample (`KvtStorageProofs!Least`), or keep a sum in the state of the
invariant (the route of the OSC ring). No theorem is about a recursive operator.

## 9. Not modelled

- *Numeric code* (DSP library, DSP units, most plugins, 3D ray tracing): real
  arithmetic on signals, no protocol between threads.
- *Sequential code over bytes and text* (files, formats, I/O, character sets,
  expressions, protocol encoding, dictionaries): tests reach it; it has no
  interleavings.
- *UI toolkit*: one thread, drawing and layout.
- *Host glue* (LV2, VST, LADSPA, transport): parameters are passed synchronously;
  the parts with a state of their own are in the plan.
- *Other plugins with tasks* (samplers, 3D room): the pattern of the impulse
  response plugin, with more files and tasks.
- *The KVT transfer over atoms* of an LV2 UI in another process: the host carries
  the packets, and the code on both sides is the one of `KvtReplicas`.
- *VST path port*: the one of JACK with two more counters, for the UI.
- *Streams, frame buffers, JACK connection*: in the plan.
- *A UI that is hidden and shown again*: it keeps its replica, and goes on with
  `idle()` without being counted as a client. `KvtReplicas` only closes a UI.
- *Windows variants* of thread and mutex: wrappers of system calls.
