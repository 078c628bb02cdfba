-------------------------- MODULE ImpulseResponses --------------------------
(***************************************************************************)
(* The impulse response plugin (plugins/impulse_responses.cpp): from the   *)
(* path a user chooses to the convolver that is heard.                     *)
(*                                                                         *)
(* The audio thread never loads, renders or allocates. Per file it submits *)
(* an IRLoader, which leaves an AudioFile in pSwap; it then asks the       *)
(* IRConfigurator to render the file, cut and faded, into pSwapSample, and *)
(* to route samples to the convolver pSwap of each channel; and it swaps   *)
(* these with the current ones when a task is completed. The executor is   *)
(* the one of TaskService; it may refuse a submission.                     *)
(*                                                                         *)
(* nReconfigReq and nReconfigResp are the flag bReconfig that they differ: *)
(* one only grows, the other only catches up. The four cuts and fades of a *)
(* file are one value, the rank goes with the source. A file is its name,  *)
(* a sample the file and the cut it was rendered with, and a sample        *)
(* without data is NULL. A control is read from what the user set last;    *)
(* the wrappers call update_settings() when one changed or a path waits.   *)
(* Left out: what a call computes on signals, listening, operator new,     *)
(* which throws, and the end of the plugin, before which the executor is   *)
(* shut down.                                                              *)
(***************************************************************************)
EXTENDS Integers, Sequences

CONSTANTS
  nChannels,    (* channels, and as many files                             *)
  Paths, Empty, (* what the user may ask for; Empty is no file             *)
  Tracks,       (* Tracks[p]: of the file p, 0 if it cannot be loaded      *)
  Cuts, CutAll, (* cuts and fades; CutAll leaves no samples                *)
  TRACKS_MAX,   (* sources per file                                        *)
  FirstSource,  (* source controls as the host restored them               *)
  DefaultCut,   (* the default of cuts and fades                           *)
  Wrappers,     (* the wrappers of an instance: "jack", "lv2"              *)
  NULL,
  MaxRequests,  (* bound: how often the user asks for a file               *)
  MaxTurns,     (* bound: how often the user turns a control               *)
  MaxFails      (* bound: how many allocations fail                        *)

ASSUME ImpulseAssumption ==
  /\ nChannels \in Nat \ {0} /\ TRACKS_MAX \in Nat \ {0}
  /\ Empty \in Paths /\ NULL \notin Paths /\ CutAll \in Cuts
  /\ Tracks \in [Paths -> 0..TRACKS_MAX] /\ Tracks[Empty] = 0
  /\ FirstSource \in [1..nChannels -> 0..(nChannels * TRACKS_MAX)] /\ DefaultCut \in Cuts
  /\ Wrappers \subseteq {"jack", "lv2"}
  /\ MaxRequests \in Nat /\ MaxTurns \in Nat /\ MaxFails \in Nat

VARIABLES
  state, code, order, phase,   (* the executor, as in TaskService           *)
  port, asked,                 (* path ports; history: last path asked for  *)
  cut, source,                 (* the controls of the user                  *)
  fCut, nSourceReq,            (* as update_settings() saw them             *)
  pCurr, pSwap, fNorm,         (* audio files; the file fNorm was taken of  *)
  nStatus,                     (* status of the file                        *)
  bRender, bReconfig,          (* what the next configuration has to do     *)
  sReconfig,                   (* the configuration given to the task       *)
  pCurrSample, pSwapSample, bSwap, sPlayer,
  vThumbs, bSync, mesh,        (* thumbnails, and what the UI was sent      *)
  meshEmpty,                   (* the UI took the mesh                      *)
  pCurrConv, pSwapConv,        (* pCurr and pSwap of the channels           *)
  apc, ai,                     (* where the audio thread is                 *)
  wpc, wi,                     (* where the running task is                 *)
  spoilt, unrouted,            (* history: what failing tasks left undone   *)
  requests, turns, fails       (* counters of the bounds                    *)

exec    == <<state, code, order, phase>>
user    == <<asked, cut, source, requests, turns>>
request == <<fCut, nSourceReq, bRender, bReconfig, sReconfig>>
files   == <<pCurr, pSwap, fNorm, nStatus>>
samples == <<pCurrSample, pSwapSample, bSwap, sPlayer>>
view    == <<vThumbs, bSync, mesh, meshEmpty>>
convs   == <<pCurrConv, pSwapConv>>
worker  == <<wpc, wi, spoilt, unrouted, fails>>
vars    == <<exec, port, user, request, files, samples, view, convs, apc, ai, worker>>

Chan    == 1..nChannels
Loader(i) == i
Configurator == 0
Tasks   == 0..nChannels
Sources == 0..(nChannels * TRACKS_MAX)
Codes   == {"ok", "unspecified", "failed", "nomem"}

Executor == INSTANCE TaskService WITH NoCode <- NULL
PathPort == INSTANCE PathPort

\* what loading the file gives: the status, and the audio file
LoadCode(p) == IF p = Empty THEN "unspecified" ELSE IF Tracks[p] = 0 THEN "failed" ELSE "ok"
Loaded(p)   == IF LoadCode(p) = "ok" THEN p ELSE NULL

\* what rendering an audio file gives, and routing a source
Rendered(file, c) == IF file = NULL \/ c = CutAll THEN NULL ELSE <<file, c>>

FileOf(s)  == ((s - 1) \div TRACKS_MAX) + 1
TrackOf(s) == ((s - 1) % TRACKS_MAX) + 1
Routed(s, sample) ==      \* sample[i] is the one to use of file i
  IF s = 0 \/ FileOf(s) \notin Chan THEN NULL
  ELSE LET smp == sample[FileOf(s)] IN
       IF smp = NULL \/ Tracks[smp[1]] < TrackOf(s) THEN NULL ELSE <<smp, TrackOf(s)>>

Thumbs(smp, norm) == IF smp = NULL THEN NULL ELSE <<smp, norm>>

Init ==
  /\ Executor!Init
  /\ \E w \in Wrappers : port = [i \in Chan |-> PathPort!NewPort(w)]
  /\ asked = [i \in Chan |-> Empty]
  /\ cut = [i \in Chan |-> DefaultCut] /\ fCut = cut
  /\ source = FirstSource /\ nSourceReq = [i \in Chan |-> 0]
  /\ pCurr = [i \in Chan |-> NULL] /\ pSwap = [i \in Chan |-> NULL]
  /\ fNorm = [i \in Chan |-> NULL]
  /\ nStatus = [i \in Chan |-> "unspecified"]
  /\ bRender = [i \in Chan |-> FALSE]
  /\ bReconfig = TRUE
  /\ sReconfig = [i \in Chan |-> [render |-> FALSE, source |-> 0]]
  /\ pCurrSample = [i \in Chan |-> NULL] /\ pSwapSample = [i \in Chan |-> NULL]
  /\ bSwap = [i \in Chan |-> FALSE]
  /\ sPlayer = [i \in Chan |-> NULL]
  /\ vThumbs = [i \in Chan |-> NULL]
  /\ bSync = [i \in Chan |-> TRUE]
  /\ mesh = [i \in Chan |-> NULL] /\ meshEmpty = [i \in Chan |-> TRUE]
  /\ pCurrConv = [i \in Chan |-> NULL] /\ pSwapConv = [i \in Chan |-> NULL]
  /\ apc = "host" /\ ai = 1
  /\ wpc = "none" /\ wi = 1
  /\ spoilt = {} /\ unrouted = {}
  /\ requests = 0 /\ turns = 0 /\ fails = 0

-----------------------------------------------------------------------------
(* The user, the UI and the wrapper outside of the audio thread            *)

\* path_t::submit(): the lock is taken, then the request is written
AskBegin(i) ==
  /\ requests < MaxRequests /\ ~ port[i].locked
  /\ port' = [port EXCEPT ![i] = PathPort!Locked(port[i])]
  /\ requests' = requests + 1
  /\ UNCHANGED <<exec, asked, cut, source, turns, request, files, samples, view, convs,
                 apc, ai, worker>>

AskEnd(i) ==
  /\ port[i].locked
  /\ \E p \in Paths :
       /\ port'  = [port EXCEPT ![i] = PathPort!Requested(port[i], p)]
       /\ asked' = [asked EXCEPT ![i] = p]
  /\ UNCHANGED <<exec, cut, source, turns, requests, request, files, samples, view, convs,
                 apc, ai, worker>>

Turn(i) ==
  /\ turns < MaxTurns
  /\ turns' = turns + 1
  /\ \/ cut' \in {[cut EXCEPT ![i] = c] : c \in Cuts \ {cut[i]}} /\ UNCHANGED source
     \/ source' \in {[source EXCEPT ![i] = s] : s \in Sources \ {source[i]}} /\ UNCHANGED cut
  /\ UNCHANGED <<exec, port, asked, requests, request, files, samples, view, convs,
                 apc, ai, worker>>

\* the UI took what was sent
TakeMesh(i) ==
  /\ ~ meshEmpty[i]
  /\ meshEmpty' = [meshEmpty EXCEPT ![i] = TRUE]
  /\ UNCHANGED <<exec, port, user, request, files, samples, vThumbs, bSync, mesh, convs,
                 apc, ai, worker>>

\* ui_activated(), between two calls of process()
UiActivated ==
  /\ apc = "host" /\ bSync # [i \in Chan |-> TRUE]
  /\ bSync' = [i \in Chan |-> TRUE]
  /\ UNCHANGED <<exec, port, user, request, files, samples, vThumbs, mesh, meshEmpty, convs,
                 apc, ai, worker>>

-----------------------------------------------------------------------------
(* The audio thread. A definition marked "slip" is not used: it is what a  *)
(* wrong version of the next one could be.                                 *)

\* The wrapper calls pre_process() of all ports: update_settings() follows if a
\* path waits or a control changed.
PreProcess ==
  /\ apc = "host"
  /\ port' = [i \in Chan |-> PathPort!Polled(port[i])]
  /\ apc' = IF \/ \E i \in Chan : PathPort!IsPending(port'[i])
               \/ cut # fCut \/ source # nSourceReq
              THEN "settings" ELSE "process"
  /\ ai' = 1
  /\ UNCHANGED <<exec, user, request, files, samples, view, convs, worker>>

\* a changed cut is rendered anew; slip: it asks for a configuration only
MarkedNot(i) == bRender
Marked(i) == [bRender EXCEPT ![i] = @ \/ fCut[i] # cut[i]]

\* update_settings() of channel and file i: a submission that is refused leaves
\* the path pending and is tried again with the next call
Settings(i) ==
  /\ apc = "settings" /\ ai = i
  /\ fCut'       = [fCut EXCEPT ![i] = cut[i]]
  /\ nSourceReq' = [nSourceReq EXCEPT ![i] = source[i]]
  /\ bRender'    = Marked(i)
  /\ bReconfig'  = (bReconfig \/ fCut[i] # cut[i] \/ nSourceReq[i] # source[i])
  /\ LET polled == PathPort!Polled(port[i]) IN
       \/ /\ PathPort!IsPending(polled)
          /\ Executor!Accept(Loader(i))
          /\ nStatus' = [nStatus EXCEPT ![i] = "loading"]
          /\ port' = [port EXCEPT ![i] = PathPort!Accepted(polled)]
       \/ port' = [port EXCEPT ![i] = polled] /\ UNCHANGED <<exec, nStatus>>
  /\ IF i = nChannels THEN apc' = "process" /\ ai' = 1 ELSE ai' = i + 1 /\ UNCHANGED apc
  /\ UNCHANGED <<user, sReconfig, pCurr, pSwap, fNorm, samples, view, convs, worker>>

confIdle      == state[Configurator] = "idle"
confCompleted == state[Configurator] = "completed"

\* process(), a configuration is wanted
ProcessSubmit ==
  /\ apc = "process" /\ confIdle /\ bReconfig
  /\ sReconfig' = [i \in Chan |-> [render |-> bRender[i], source |-> nSourceReq[i]]]
  /\ \E accepted \in BOOLEAN :
       /\ IF accepted THEN Executor!Accept(Configurator) ELSE UNCHANGED exec
       /\ bReconfig' = (bReconfig /\ ~ accepted)
       /\ bRender' = [i \in Chan |-> bRender[i] /\ ~ accepted]
  /\ apc' = "output"
  /\ UNCHANGED <<port, user, fCut, nSourceReq, files, samples, view, convs, ai, worker>>

\* Files are looked at only when no configuration is wanted and none is on its
\* way. Slip: whenever none is wanted.
FilesTurnBusy == ~ bReconfig
FilesTurn == confIdle /\ ~ bReconfig

\* process(), the loader of file i is completed or not
ProcessFile(i) ==
  /\ IF apc = "process" THEN i = 1 /\ FilesTurn ELSE apc = "files" /\ ai = i
  /\ IF port[i].state = "accepted" /\ state[Loader(i)] = "completed"
       THEN /\ pSwap'   = [pSwap EXCEPT ![i] = pCurr[i]]
            /\ pCurr'   = [pCurr EXCEPT ![i] = pSwap[i]]
            /\ nStatus' = [nStatus EXCEPT ![i] = code[Loader(i)]]
            /\ bRender' = [bRender EXCEPT ![i] = TRUE]
            /\ bReconfig' = TRUE
            /\ port'    = [port EXCEPT ![i] = PathPort!Committed(port[i])]
            /\ Executor!Reset(Loader(i))
       ELSE UNCHANGED <<pSwap, pCurr, nStatus, bRender, bReconfig, port, exec>>
  /\ IF i = nChannels THEN apc' = "output" /\ ai' = 1 ELSE apc' = "files" /\ ai' = i + 1
  /\ UNCHANGED <<user, fCut, nSourceReq, sReconfig, fNorm, samples, view, convs, worker>>

\* the thumbnails are sent again; slip: they are not, if they were sent before
SyncedOnce(i) == bSync[i]
Synced(i) == TRUE

\* process(), the configurator is completed, whatever it returned
ProcessApply ==
  /\ apc = "process" /\ confCompleted
  /\ pCurrSample' = [i \in Chan |-> IF bSwap[i] THEN pSwapSample[i] ELSE pCurrSample[i]]
  /\ pSwapSample' = [i \in Chan |-> IF bSwap[i] THEN pCurrSample[i] ELSE pSwapSample[i]]
  /\ bSwap' = [i \in Chan |-> FALSE]
  /\ bSync' = [i \in Chan |-> Synced(i)]
  /\ pCurrConv' = pSwapConv /\ pSwapConv' = pCurrConv
  /\ sPlayer' = pCurrSample'
  /\ Executor!Reset(Configurator)
  /\ apc' = "output"
  /\ UNCHANGED <<port, user, request, files, vThumbs, mesh, meshEmpty, ai, worker>>

ProcessNothing ==
  /\ apc = "process" /\ ~ confIdle /\ ~ confCompleted
  /\ apc' = "output"
  /\ UNCHANGED <<exec, port, user, request, files, samples, view, convs, ai, worker>>

\* the last stage of process(): thumbnails go to a mesh that the UI emptied
Sent(i) == bSync[i] /\ meshEmpty[i]

ProcessOutput ==
  /\ apc = "output"
  /\ mesh' = [i \in Chan |->
       IF ~ Sent(i) THEN mesh[i] ELSE IF pCurrSample[i] = NULL THEN NULL ELSE vThumbs[i]]
  /\ meshEmpty' = [i \in Chan |-> meshEmpty[i] /\ ~ Sent(i)]
  /\ bSync' = [i \in Chan |-> bSync[i] /\ ~ Sent(i)]
  /\ apc' = "host"
  /\ UNCHANGED <<exec, port, user, request, files, samples, vThumbs, convs, ai, worker>>

-----------------------------------------------------------------------------
(* The tasks on the thread of the executor                                 *)

\* IRLoader::run() frees what an earlier exchange left in pSwap ...
LoadStart(i) ==
  /\ wpc = "none"
  /\ Executor!Start(Loader(i))
  /\ pSwap' = [pSwap EXCEPT ![i] = NULL]
  /\ wpc' = "load" /\ wi' = i
  /\ UNCHANGED <<port, user, request, pCurr, fNorm, nStatus, samples, view, convs, apc, ai,
                 spoilt, unrouted, fails>>

\* ... and loads the file of the path
LoadEnd ==
  /\ wpc = "load"
  /\ LET p == port[wi].sPath IN
       /\ Executor!Complete(Loader(wi)) /\ code'[Loader(wi)] = LoadCode(p)
       /\ pSwap' = [pSwap EXCEPT ![wi] = Loaded(p)]
       /\ fNorm' = [fNorm EXCEPT ![wi] = IF Loaded(p) = NULL THEN @ ELSE p]
  /\ wpc' = "none" /\ wi' = 1
  /\ UNCHANGED <<port, user, request, pCurr, nStatus, samples, view, convs, apc, ai,
                 spoilt, unrouted, fails>>

\* IRConfigurator::run()
ConfStart ==
  /\ wpc = "none"
  /\ Executor!Start(Configurator)
  /\ wpc' = "render" /\ wi' = 1
  /\ UNCHANGED <<port, user, request, files, samples, view, convs, apc, ai,
                 spoilt, unrouted, fails>>

AfterRender == IF wi = nChannels THEN wpc' = "route" /\ wi' = 1 ELSE wi' = wi + 1 /\ UNCHANGED wpc

\* file wi was not requested, or it is rendered
RenderSkip ==
  /\ wpc = "render" /\ ~ sReconfig[wi].render
  /\ AfterRender
  /\ UNCHANGED <<exec, port, user, request, files, samples, view, convs, apc, ai,
                 spoilt, unrouted, fails>>

Render ==
  /\ wpc = "render" /\ sReconfig[wi].render
  /\ LET smp == Rendered(pCurr[wi], fCut[wi]) IN
       /\ pSwapSample' = [pSwapSample EXCEPT ![wi] = smp]
       /\ vThumbs' = [vThumbs EXCEPT ![wi] = IF pCurr[wi] = NULL THEN @ ELSE Thumbs(smp, fNorm[wi])]
  /\ bSwap' = [bSwap EXCEPT ![wi] = TRUE]
  /\ spoilt' = spoilt \ {wi}
  /\ AfterRender
  /\ UNCHANGED <<exec, port, user, request, files, pCurrSample, sPlayer, bSync, mesh, meshEmpty,
                 convs, apc, ai, unrouted, fails>>

\* Sample::init() gets no memory: the files after wi are not rendered, nothing
\* is routed
RenderFail ==
  /\ wpc = "render" /\ sReconfig[wi].render /\ Rendered(pCurr[wi], fCut[wi]) # NULL
  /\ fails < MaxFails
  /\ pSwapSample' = [pSwapSample EXCEPT ![wi] = NULL]
  /\ bSwap' = [bSwap EXCEPT ![wi] = TRUE]
  /\ spoilt' = spoilt \cup {i \in wi..nChannels : sReconfig[i].render}
  /\ unrouted' = Chan
  /\ fails' = fails + 1
  /\ wpc' = "nomem" /\ wi' = 1
  /\ UNCHANGED <<exec, port, user, request, files, pCurrSample, sPlayer, view, convs, apc, ai>>

\* the sample to route: the one just rendered if there is one
ToRoute(i) == IF bSwap[i] THEN pSwapSample[i] ELSE pCurrSample[i]

Latest == [i \in Chan |-> ToRoute(i)]

RoutedTo(c) == Routed(sReconfig[c].source, Latest)

Route ==
  /\ wpc = "route" /\ wi \in Chan
  /\ pSwapConv' = [pSwapConv EXCEPT ![wi] = RoutedTo(wi)]
  /\ unrouted' = unrouted \ {wi}
  /\ wi' = wi + 1
  /\ UNCHANGED <<exec, port, user, request, files, samples, view, pCurrConv, apc, ai,
                 wpc, spoilt, fails>>

\* Convolver::init() gets no memory: the channels after wi are not routed
RouteFail ==
  /\ wpc = "route" /\ wi \in Chan /\ RoutedTo(wi) # NULL
  /\ fails < MaxFails
  /\ pSwapConv' = [pSwapConv EXCEPT ![wi] = NULL]
  /\ unrouted' = unrouted \cup wi..nChannels
  /\ fails' = fails + 1
  /\ wpc' = "nomem" /\ wi' = 1
  /\ UNCHANGED <<exec, port, user, request, files, samples, view, pCurrConv, apc, ai, spoilt>>

ConfEnd ==
  /\ wpc = "nomem" \/ (wpc = "route" /\ wi \notin Chan)
  /\ Executor!Complete(Configurator)
  /\ code'[Configurator] = IF wpc = "nomem" THEN "nomem" ELSE "ok"
  /\ wpc' = "none" /\ wi' = 1
  /\ UNCHANGED <<port, user, request, files, samples, view, convs, apc, ai,
                 spoilt, unrouted, fails>>

-----------------------------------------------------------------------------
Audio ==
  \/ PreProcess \/ (\E i \in Chan : Settings(i))
  \/ ProcessSubmit \/ (\E i \in Chan : ProcessFile(i)) \/ ProcessApply
  \/ ProcessNothing \/ ProcessOutput

Run ==
  \/ (\E i \in Chan : LoadStart(i)) \/ LoadEnd
  \/ ConfStart \/ RenderSkip \/ Render \/ RenderFail \/ Route \/ RouteFail \/ ConfEnd

User ==
  \/ \E i \in Chan : AskBegin(i) \/ AskEnd(i) \/ Turn(i) \/ TakeMesh(i)
  \/ UiActivated

Next == Audio \/ Run \/ User

Spec == Init /\ [][Next]_vars

\* The host goes on calling process(), the executor runs what it accepted and
\* its lock is not busy at every attempt; a thread that took the lock of a port
\* frees it.
Fairness ==
  /\ WF_vars(Audio)
  /\ WF_vars(Run)
  /\ \A i \in Chan : SF_vars(Settings(i) /\ Executor!Accept(Loader(i))) /\ WF_vars(AskEnd(i))
  /\ SF_vars(ProcessSubmit /\ Executor!Accept(Configurator))

LiveSpec == Spec /\ Fairness

-----------------------------------------------------------------------------
(* Properties                                                              *)

FileOrNull   == (Paths \ {Empty}) \cup {NULL}
SampleOrNull == (Paths \X Cuts) \cup {NULL}
ConvOrNull   == (SampleOrNull \X (1..TRACKS_MAX)) \cup {NULL}
ThumbsOrNull == (SampleOrNull \X FileOrNull) \cup {NULL}

ExecTyped ==
  /\ state \in [Tasks -> {"idle", "submitted", "running", "completed"}]
  /\ code \in [Tasks -> Codes \cup {NULL}]
  /\ order \in Seq(Tasks) /\ phase = "open"
UserTyped ==
  /\ asked \in [Chan -> Paths] /\ cut \in [Chan -> Cuts] /\ source \in [Chan -> Sources]
  /\ requests \in Nat /\ turns \in Nat
RequestTyped ==
  /\ fCut \in [Chan -> Cuts] /\ nSourceReq \in [Chan -> Sources]
  /\ bRender \in [Chan -> BOOLEAN] /\ bReconfig \in BOOLEAN
  /\ sReconfig \in [Chan -> [render : BOOLEAN, source : Sources]]
FilesTyped ==
  /\ pCurr \in [Chan -> FileOrNull] /\ pSwap \in [Chan -> FileOrNull]
  /\ fNorm \in [Chan -> FileOrNull] /\ nStatus \in [Chan -> Codes \cup {"loading"}]
SamplesTyped ==
  /\ pCurrSample \in [Chan -> SampleOrNull] /\ pSwapSample \in [Chan -> SampleOrNull]
  /\ bSwap \in [Chan -> BOOLEAN] /\ sPlayer \in [Chan -> SampleOrNull]
ViewTyped ==
  /\ vThumbs \in [Chan -> ThumbsOrNull] /\ mesh \in [Chan -> ThumbsOrNull]
  /\ bSync \in [Chan -> BOOLEAN] /\ meshEmpty \in [Chan -> BOOLEAN]
ConvsTyped == pCurrConv \in [Chan -> ConvOrNull] /\ pSwapConv \in [Chan -> ConvOrNull]
StepsTyped ==
  /\ apc \in {"host", "settings", "process", "files", "output"} /\ ai \in Chan
  /\ wpc \in {"none", "load", "render", "route", "nomem"} /\ wi \in 1..(nChannels + 1)
  /\ spoilt \subseteq Chan /\ unrouted \subseteq Chan /\ fails \in Nat

\* Every variable keeps its range, and the executor its own.
TypeOK ==
  /\ ExecTyped /\ port \in [Chan -> PathPort!Ports(Paths)] /\ UserTyped /\ RequestTyped
  /\ FilesTyped /\ SamplesTyped /\ ViewTyped /\ ConvsTyped /\ StepsTyped

\* No request of the user waits, and the plugin has nothing to do
FileDone(i) == port[i].ahead = 0 /\ port[i].state = "empty" /\ ~ port[i].locked
ConfDone    == confIdle /\ ~ bReconfig /\ cut = fCut /\ source = nSourceReq
Quiet       == ConfDone /\ \A i \in Chan : FileDone(i)

Wanted(i) == Rendered(Loaded(asked[i]), cut[i])

\* When nothing is left to do, the file last asked for is the current one with
\* its own status; what the player has of it is that file with the cuts last set,
\* and each channel is convolved with the source last chosen: however requests
\* met running tasks and refused submissions, no request is lost. What an
\* allocation that failed left undone is the exception.
QuietHears ==
  Quiet =>
    /\ \A i \in Chan :
         /\ pCurr[i] = Loaded(asked[i]) /\ nStatus[i] = LoadCode(asked[i])
         /\ i \notin spoilt => pCurrSample[i] = Wanted(i) /\ sPlayer[i] = Wanted(i)
    /\ \A c \in Chan \ unrouted :
         pCurrConv[c] = Routed(source[c], pCurrSample)

\* The thumbnails the UI was sent last are those of the sample that is heard,
\* normalised for its own file, although the task draws the next ones over them
\* while the audio thread copies.
QuietShows ==
  \A i \in Chan : Quiet /\ ~ bSync[i] /\ i \notin spoilt => mesh[i] = Thumbs(Wanted(i), pCurr[i])

\* What a running task works on is not exchanged under it: the audio thread
\* swaps no file while its loader or the configurator runs, and no sample and no
\* convolver while the configurator does.
Undisturbed ==
  [][/\ wpc = "load" => pCurr'[wi] = pCurr[wi]
     /\ wpc \in {"render", "route", "nomem"} =>
          UNCHANGED <<pCurr, pSwap, pCurrSample, pCurrConv, sPlayer>>]_vars

\* The plugin always comes to rest again, so that QuietHears applies: the user
\* stops after the last change that the bounds allow.
ComesToRest == []<>Quiet

-----------------------------------------------------------------------------
(* The inductive invariant of the proofs                                   *)

\* What waits in the executor is submitted, once.
OrderKnown ==
  /\ \A k \in 1..Len(order) : state[order[k]] = "submitted"
  /\ \A j, k \in 1..Len(order) : order[j] = order[k] => j = k

\* Where the running task is says which task runs; files are exchanged while
\* the configurator is idle only.
WorkerKnown ==
  /\ \A i \in Chan : state[Loader(i)] = "running" <=> wpc = "load" /\ wi = i
  /\ state[Configurator] = "running" <=> wpc \in {"render", "route", "nomem"}
  /\ wpc = "load" => wi \in Chan
  /\ wpc = "render" => wi \in Chan
  /\ apc = "files" => confIdle

\* A request is still ahead or its path was taken over; the loader is in use
\* exactly while the path is accepted, and what it leaves is of that path.
RequestKept ==
  \A i \in Chan :
    /\ IF port[i].ahead > 0 THEN port[i].sRequest = asked[i] ELSE port[i].sPath = asked[i]
    /\ port[i].state = "accepted" <=> state[Loader(i)] # "idle"
    /\ port[i].state = "empty" =>
         pCurr[i] = Loaded(port[i].sPath) /\ nStatus[i] = LoadCode(port[i].sPath)
    /\ state[Loader(i)] = "completed" =>
         pSwap[i] = Loaded(port[i].sPath) /\ code[Loader(i)] = LoadCode(port[i].sPath)

\* The task has not come to file i yet
ToRender(i) == state[Configurator] = "submitted" \/ (wpc = "render" /\ i >= wi)

\* A sample that is not what is wanted will be rendered, or its rendering failed
SampleKept ==
  \A i \in Chan :
    /\ sPlayer[i] = pCurrSample[i]
    /\ bRender[i] => bReconfig
    /\ ToRender(i) \/ confIdle => ~ bSwap[i]
    /\ \/ bRender[i] \/ i \in spoilt
       \/ ToRender(i) /\ sReconfig[i].render
       \/ ToRoute(i) = Rendered(pCurr[i], fCut[i])

\* The task has routed channel c
IsRouted(c) == wpc = "nomem" \/ (wpc = "route" /\ c < wi) \/ confCompleted

\* A convolver that is not what is wanted will be made, or its making failed
RouteKept ==
  \A c \in Chan :
    /\ confIdle =>
         bReconfig \/ c \in unrouted \/ pCurrConv[c] = Routed(nSourceReq[c], Latest)
    /\ ~ confIdle => bReconfig \/ sReconfig[c].source = nSourceReq[c]
    /\ IsRouted(c) => c \in unrouted \/ pSwapConv[c] = RoutedTo(c)

\* fNorm is taken of the current file unless its loader is in use, and of the
\* one that a completed loader left.
NormKept ==
  \A i \in Chan :
    /\ state[Loader(i)] = "idle" /\ pCurr[i] # NULL => fNorm[i] = pCurr[i]
    /\ state[Loader(i)] = "completed" /\ pSwap[i] # NULL => fNorm[i] = pSwap[i]

\* File i will be rendered again, or that failed.
Due(i) == bRender[i] \/ i \in spoilt \/ (ToRender(i) /\ sReconfig[i].render)

\* Thumbnails that are not those of the sample to route will be drawn again.
ThumbsKept ==
  \A i \in Chan :
    \/ Due(i) \/ state[Loader(i)] # "idle" \/ ToRoute(i) = NULL
    \/ vThumbs[i] = Thumbs(ToRoute(i), pCurr[i])

\* The mesh that was sent last is of the sample that is heard, unless another one
\* will be sent.
MeshKept ==
  \A i \in Chan :
    bSync[i] \/ ~ confIdle \/ mesh[i] = (IF pCurrSample[i] = NULL THEN NULL ELSE vThumbs[i])

ViewInv == NormKept /\ ThumbsKept /\ MeshKept

IInv == TypeOK /\ OrderKnown /\ WorkerKnown /\ RequestKept /\ SampleKept /\ RouteKept
=============================================================================
