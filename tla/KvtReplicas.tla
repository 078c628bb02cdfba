----------------------------- MODULE KvtReplicas -----------------------------
(***************************************************************************)
(* The two replicas of the key-value tree of an LV2 plugin: the one of the *)
(* DSP, and the one of a user interface in the same process. The thread of *)
(* the KVT dispatcher (core/KVTDispatcher.cpp) moves changes between the   *)
(* replica of the DSP and its two rings, under the mutex of the DSP; the   *)
(* idle() of the UI (container/lv2/ui_wrapper.h) fetches under both        *)
(* mutexes, submits under its own, and then tells its listeners what it    *)
(* fetched, which change the replica again.                                *)
(*                                                                         *)
(* The storages are the maps KvtMap describes, and the rings the bounded   *)
(* queues of PacketQueue, of packets <<parameter, value>>. A UI works in   *)
(* one thread, so its own mutex is never busy; one UI is open at a time.   *)
(* What the DSP has to do with changes it received, private parameters, a  *)
(* UI that is hidden and shown again, and the transport over atoms are     *)
(* left out.                                                               *)
(***************************************************************************)
EXTENDS Naturals, Sequences, FiniteSets

CONSTANTS
  Params, Values,
  Huge,         (* values of which build_message() makes no packet         *)
  None,         (* the parameter is not stored                             *)
  Capacity,     (* packets that fit into a ring                            *)
  MaxPuts,      (* bound: changes that are not part of the transfer         *)
  MaxSessions   (* bound: how often a UI is opened                         *)

ASSUME ReplicasAssumption ==
  /\ Huge \subseteq Values /\ None \notin Values
  /\ Capacity \in Nat \ {0} /\ MaxPuts \in Nat /\ MaxSessions \in Nat

VARIABLES
  dval, dtx,            (* DSP: values, parameters with KVT_TX pending     *)
  uval, urx, utx,       (* UI: values, parameters with KVT_RX and KVT_TX pending *)
  pRx, pTx,             (* rings to the DSP and to the UI                  *)
  torn,                 (* pRx is torn, as OscBuffer describes             *)
  nClients, nTxRequest, (* clients, and how often all has to be sent       *)
  mutex,                (* holder of the mutex of the DSP: "none", "dispatcher", "ui" *)
  dpc, upc,             (* where the dispatcher and the UI are             *)
  apart,                (* history: parameters that differ and that nothing on its way,
                           or still to be sent, brings together            *)
  puts, sessions        (* counters of the bounds                          *)

dsp    == <<dval, dtx>>
ui     == <<uval, urx, utx>>
rings  == <<pRx, pTx, torn>>
client == <<nClients, nTxRequest>>
bounds == <<puts, sessions>>
vars   == <<dsp, ui, rings, client, mutex, dpc, upc, apart, bounds>>

Init ==
  /\ dval = [p \in Params |-> None] /\ dtx = {}
  /\ uval = [p \in Params |-> None] /\ urx = {} /\ utx = {}
  /\ pRx = <<>> /\ pTx = <<>> /\ torn = FALSE
  /\ nClients = 0 /\ nTxRequest = 0
  /\ mutex = "none"
  /\ dpc = "sleep" /\ upc = "closed"
  /\ apart = {}
  /\ puts = 0 /\ sessions = 0

Stored == {p \in Params : dval[p] # None}
In(ring) == {ring[k][1] : k \in 1..Len(ring)}

\* submit() finds no space. A definition marked "slip" is not used: it is what a
\* wrong version of the next one could be. Slip: one packet too late.
FullLate(ring) == Len(ring) > Capacity
Full(ring) == Len(ring) >= Capacity

\* A packet for p meets none that goes the other way: whoever gets it agrees.
\* Otherwise both sides may take over the value of the other one.
AfterSending(p, opposite) == IF p \in In(opposite) THEN apart \cup {p} ELSE apart \ {p}

\* A side changed the parameters P and nothing will tell the other side: they are
\* apart, unless the values d and u are now the same and none is on its way.
Silently(P, d, u) ==
  (apart \ P) \cup {p \in P : p \in In(pRx) \cup In(pTx) \/ d[p] # u[p]}

-----------------------------------------------------------------------------
(* The plugin and the host, on the replica of the DSP                      *)

\* the loader of a scene puts parameters, and removes those of the objects that
\* the scene has no more
LoadScene ==
  /\ mutex = "none" /\ puts < MaxPuts
  /\ \E S \in (SUBSET Params) \ {{}} : \E R \in SUBSET (Stored \ S), v \in [S -> Values] :
       /\ dval' = [p \in Params |-> IF p \in S THEN v[p] ELSE IF p \in R THEN None ELSE dval[p]]
       /\ dtx' = (dtx \ R) \cup S
       /\ apart' = Silently(R, dval', uval)
  /\ puts' = puts + 1
  /\ UNCHANGED <<ui, rings, client, mutex, dpc, upc, sessions>>

\* the host restores a state: what it does not name is removed, and nobody
\* tells the UI
RestoreState ==
  /\ mutex = "none" /\ puts < MaxPuts
  /\ \E S \in SUBSET Params : \E v \in [S -> Values] :
       /\ dval' = [p \in Params |-> IF p \in S THEN v[p] ELSE None]
       /\ dtx' = S
       /\ apart' = Silently(Params \ S, dval', uval)
  /\ puts' = puts + 1
  /\ UNCHANGED <<ui, rings, client, mutex, dpc, upc, sessions>>

-----------------------------------------------------------------------------
(* run() of the dispatcher                                                 *)

\* the requests to send all that are left; slip: the request stays
AnsweredNot == nTxRequest
Answered == nTxRequest - 1

RoundBegin ==
  /\ dpc = "sleep" /\ mutex = "none"
  /\ mutex' = "dispatcher"
  /\ IF nClients = 0 THEN dpc' = "clear" /\ UNCHANGED <<dtx, nTxRequest>>
     ELSE /\ dpc' = "receive"
          /\ IF nTxRequest > 0 THEN dtx' = Stored /\ nTxRequest' = Answered
             ELSE UNCHANGED <<dtx, nTxRequest>>
  /\ UNCHANGED <<dval, ui, rings, nClients, upc, apart, bounds>>

\* A UI may have connected, and submitted, since nClients was read; clear() may even
\* meet a submit(). (The fetch() of the UI has the mutex.)
Clear ==
  /\ dpc = "clear"
  /\ pTx' = <<>> /\ pRx' = <<>>
  /\ torn' \in {FALSE} \cup {upc = "send" /\ urx # {}}
  /\ apart' = apart \cup In(pRx)
  /\ dpc' = "sleep" /\ mutex' = "none"
  /\ UNCHANGED <<dsp, ui, client, upc, bounds>>

Receive ==
  /\ dpc = "receive" /\ pRx # <<>>
  /\ dval' = [dval EXCEPT ![Head(pRx)[1]] = Head(pRx)[2]]
  /\ pRx' = Tail(pRx)
  /\ UNCHANGED <<dtx, ui, pTx, torn, client, mutex, dpc, upc, apart, bounds>>

\* a torn ring may hand out, again, what was in it at any time
ReceiveTorn ==
  /\ dpc = "receive" /\ torn /\ puts < MaxPuts
  /\ \E p \in Params, v \in Values \ Huge :
       /\ dval' = [dval EXCEPT ![p] = v]
       /\ apart' = Silently({p}, dval', uval)
  /\ puts' = puts + 1
  /\ UNCHANGED <<dtx, ui, rings, client, mutex, dpc, upc, sessions>>

ReceiveEnd ==
  /\ dpc = "receive" /\ pRx = <<>>
  /\ dpc' = "transmit"
  /\ UNCHANGED <<dsp, ui, rings, client, mutex, upc, apart, bounds>>

\* a change of which there is no packet is committed all the same
TransmitNot(p) ==
  /\ dpc = "transmit" /\ p \in dtx /\ dval[p] \in Huge
  /\ dtx' = dtx \ {p}
  /\ apart' = apart \cup {p}
  /\ UNCHANGED <<dval, ui, rings, client, mutex, dpc, upc, bounds>>

Transmit(p) ==
  /\ dpc = "transmit" /\ p \in dtx /\ dval[p] \notin Huge /\ ~ Full(pTx)
  /\ pTx' = Append(pTx, <<p, dval[p]>>)
  /\ dtx' = dtx \ {p}
  /\ apart' = AfterSending(p, pRx)
  /\ UNCHANGED <<dval, ui, pRx, torn, client, mutex, dpc, upc, bounds>>

\* what is pending after submit() found the ring full; slip: it is committed
LeftPendingNot(p) == dtx \ {p}
LeftPending(p) == dtx

TransmitFull(p) ==
  /\ dpc = "transmit" /\ p \in dtx /\ dval[p] \notin Huge /\ Full(pTx)
  /\ dtx' = LeftPending(p)
  /\ dpc' = "sleep" /\ mutex' = "none"
  /\ UNCHANGED <<dval, ui, rings, client, upc, apart, bounds>>

TransmitEnd ==
  /\ dpc = "transmit" /\ dtx = {}
  /\ dpc' = "sleep" /\ mutex' = "none"
  /\ UNCHANGED <<dsp, ui, rings, client, upc, apart, bounds>>

\* a round goes on, and ends
Round ==
  \/ Clear \/ Receive \/ ReceiveEnd \/ TransmitEnd
  \/ \E p \in Params : TransmitNot(p) \/ Transmit(p) \/ TransmitFull(p)

Dispatcher == RoundBegin \/ Round \/ ReceiveTorn

-----------------------------------------------------------------------------
(* The thread of the UI                                                    *)

\* A new UI has an empty replica; connect_client() counts the client first ...
Open ==
  /\ upc = "closed" /\ sessions < MaxSessions
  /\ sessions' = sessions + 1
  /\ uval' = [p \in Params |-> None] /\ urx' = {} /\ utx' = {}
  /\ nClients' = nClients + 1
  /\ apart' = In(pRx) \cup In(pTx)
  /\ upc' = "connecting"
  /\ UNCHANGED <<dsp, rings, nTxRequest, mutex, dpc, puts>>

\* ... and then asks for all parameters
Connect ==
  /\ upc = "connecting"
  /\ nTxRequest' = nTxRequest + 1
  /\ upc' = "idle"
  /\ UNCHANGED <<dsp, ui, rings, nClients, mutex, dpc, apart, bounds>>

\* disconnect_client(): the value that atomic_add() returns is the one before,
\* so the requests of the last client are not reset. The replica goes with the UI.
Disconnect ==
  /\ upc = "idle"
  /\ nClients' = nClients - 1
  /\ nTxRequest' = IF nClients = 0 THEN 0 ELSE nTxRequest
  /\ uval' = [p \in Params |-> None] /\ urx' = {} /\ utx' = {}
  /\ apart' = {}
  /\ upc' = "closed"
  /\ UNCHANGED <<dsp, rings, mutex, dpc, bounds>>

\* the user turns a knob, in main_iteration()
UiPut(p) ==
  /\ upc = "idle" /\ puts < MaxPuts
  /\ \E v \in Values : uval' = [uval EXCEPT ![p] = v]
  /\ urx' = urx \cup {p}
  /\ puts' = puts + 1
  /\ UNCHANGED <<dsp, utx, rings, client, mutex, dpc, upc, apart, sessions>>

\* receive_kvt_state(), with the mutex of the DSP taken or without
FetchBegin ==
  /\ upc = "idle" /\ pTx # <<>> /\ mutex = "none"
  /\ mutex' = "ui" /\ upc' = "fetch"
  /\ UNCHANGED <<dsp, ui, rings, client, dpc, apart, bounds>>

FetchNot ==
  /\ upc = "idle" /\ (pTx = <<>> \/ mutex # "none")
  /\ upc' = "send"
  /\ UNCHANGED <<dsp, ui, rings, client, mutex, dpc, apart, bounds>>

Fetch ==
  /\ upc = "fetch" /\ pTx # <<>>
  /\ uval' = [uval EXCEPT ![Head(pTx)[1]] = Head(pTx)[2]]
  /\ utx' = utx \cup {Head(pTx)[1]}
  /\ pTx' = Tail(pTx)
  /\ UNCHANGED <<dsp, urx, pRx, torn, client, mutex, dpc, upc, apart, bounds>>

FetchEnd ==
  /\ upc = "fetch" /\ pTx = <<>>
  /\ mutex' = "none" /\ upc' = "send"
  /\ UNCHANGED <<dsp, ui, rings, client, dpc, apart, bounds>>

\* send_kvt_state() commits a change whether submit() took the packet or not; what
\* a torn ring takes is lost
Send(p) ==
  /\ upc = "send" /\ p \in urx
  /\ urx' = urx \ {p}
  /\ IF uval[p] \in Huge \/ Full(pRx) \/ torn
       THEN apart' = apart \cup {p} /\ UNCHANGED pRx
       ELSE /\ pRx' = Append(pRx, <<p, uval[p]>>)
            /\ apart' = AfterSending(p, pTx)
  /\ UNCHANGED <<dsp, uval, utx, pTx, torn, client, mutex, dpc, upc, bounds>>

SendEnd ==
  /\ upc = "send" /\ urx = {}
  /\ upc' = "sync"
  /\ UNCHANGED <<dsp, ui, rings, client, mutex, dpc, apart, bounds>>

\* sync_kvt_state() tells the listeners of the parameter p, which was fetched
Sync(p) ==
  /\ upc = "sync" /\ p \in utx
  /\ utx' = utx \ {p}
  /\ UNCHANGED <<dsp, uval, urx, rings, client, mutex, dpc, upc, apart, bounds>>

\* A listener answers with changes of its own: it removes the parameters of objects
\* that are no more and selects one that is, or keeps two linked knobs together.
\* They get KVT_RX, but nothing sends them.
SyncPut(p) ==
  /\ upc = "sync" /\ p \in utx /\ puts < MaxPuts
  /\ \E Q \in SUBSET Params : \E R \in SUBSET (Params \ Q), v \in [Q -> Values] :
       /\ Q \cup R # {}
       /\ uval' = [q \in Params |-> IF q \in Q THEN v[q] ELSE IF q \in R THEN None ELSE uval[q]]
       /\ urx' = (urx \cup Q) \ R
       /\ utx' = utx \ ({p} \cup R)
       /\ apart' = Silently(Q \cup R, dval, uval')
  /\ puts' = puts + 1
  /\ UNCHANGED <<dsp, rings, client, mutex, dpc, upc, sessions>>

\* commit_all(KVT_RX), which drops what the listeners put
SyncEnd ==
  /\ upc = "sync" /\ utx = {}
  /\ urx' = {}
  /\ upc' = "idle"
  /\ UNCHANGED <<dsp, uval, utx, rings, client, mutex, dpc, apart, bounds>>

\* an idle() goes on, and ends
Iteration ==
  \/ Connect \/ FetchNot \/ Fetch \/ FetchEnd \/ SendEnd \/ SyncEnd
  \/ \E p \in Params : Send(p) \/ Sync(p)

Ui ==
  \/ Open \/ Disconnect \/ FetchBegin \/ Iteration
  \/ \E p \in Params : UiPut(p) \/ SyncPut(p)

-----------------------------------------------------------------------------
Next == Dispatcher \/ Ui \/ RestoreState \/ LoadScene

Spec == Init /\ [][Next]_vars

\* The threads run. The dispatcher gets its mutex in the end, and as it sleeps
\* between rounds for longer than the UI takes from one idle() to the next, an
\* idle() finds the mutex free again and again, unless it fetches from a torn ring.
Fairness ==
  /\ SF_vars(RoundBegin) /\ WF_vars(Round)
  /\ SF_vars(FetchBegin) /\ WF_vars(Iteration)
  /\ []<>(torn \/ upc \in {"closed", "connecting"} \/ (upc = "idle" /\ mutex = "none"))

LiveSpec == Spec /\ Fairness

-----------------------------------------------------------------------------
(* Properties                                                              *)

\* Every variable keeps its range: the rings hold no more than fits, and the
\* mutex has the holder that its threads think it has.
TypeOK ==
  /\ dval \in [Params -> Values \cup {None}] /\ uval \in [Params -> Values \cup {None}]
  /\ dtx \subseteq Stored /\ urx \cup utx \subseteq {p \in Params : uval[p] # None}
  /\ \A ring \in {pRx, pTx} :
       ring \in Seq(Params \X (Values \ Huge)) /\ Len(ring) <= Capacity
  /\ torn \in BOOLEAN /\ (torn => pRx = <<>>)
  /\ nClients = (IF upc = "closed" THEN 0 ELSE 1) /\ nTxRequest \in 0..sessions
  /\ mutex = "dispatcher" <=> dpc # "sleep"
  /\ mutex = "ui" <=> upc = "fetch"
  /\ dpc \in {"sleep", "clear", "receive", "transmit"}
  /\ upc \in {"closed", "connecting", "idle", "fetch", "send", "sync"}
  /\ apart \subseteq Params /\ puts \in Nat /\ sessions \in Nat

\* A UI is connected, and nothing is on its way or waits for its transfer
Settled ==
  /\ upc \notin {"closed", "connecting", "fetch"} /\ dpc = "sleep"
  /\ nTxRequest = 0 /\ dtx = {} /\ urx = {} /\ utx = {}
  /\ pRx = <<>> /\ pTx = <<>> /\ ~ torn

\* When the transfer has settled the replicas agree: on a parameter stored
\* before the UI opened, on one changed again while its value was in a ring, on
\* one a full ring delayed, on one removed on both sides. They differ only on a
\* parameter whose changes crossed in the rings, whose packet was dropped, which
\* one side removed, or which a listener of the UI changed while
\* sync_kvt_state() ran, as long as nothing was sent for it since.
Agreement == Settled => \A p \in Params \ apart : dval[p] = uval[p]

\* The transfer settles again and again while a UI stays open and the ring is not
\* torn: the echoes of the two sides and the answers of the listeners die out, and
\* a full ring or a busy mutex only delays.
Settles == <>[](upc # "closed" /\ ~ torn) => []<>Settled

-----------------------------------------------------------------------------
(* The inductive invariant of the proofs                                   *)

\* Each UI that was opened asks once for all parameters.
RequestsCounted ==
  nTxRequest + (IF upc = "connecting" THEN 1 ELSE 0) <= sessions

\* A UI that connected while the dispatcher is about to clear the rings still
\* has its request for all parameters.
ClearedAreResent ==
  dpc = "clear" => upc \in {"closed", "connecting"} \/ nTxRequest > 0

\* the last packet for p in the ring carries v
Ends(ring, p, v) ==
  \A k \in 1..Len(ring) :
    ring[k][1] = p /\ (\A j \in 1..Len(ring) : j > k => ring[j][1] # p) => ring[k][2] = v

\* p will be sent, by one side or the other
ToSend(p) ==
  \/ p \in dtx \/ (p \in urx /\ upc # "sync")
  \/ p \in Stored /\ (nTxRequest > 0 \/ upc = "connecting")

\* p will be sent, or the last packet on its way carries the value of its sender
\* and meets no other, or both sides agree.
Converges(p) ==
  \/ ToSend(p)
  \/ p \in In(pTx) /\ p \notin In(pRx) /\ p \in Stored /\ Ends(pTx, p, dval[p])
  \/ p \in In(pRx) /\ p \notin In(pTx) /\ Ends(pRx, p, uval[p])
  \/ p \notin In(pTx) /\ p \notin In(pRx) /\ dval[p] = uval[p]

\* So it is for every parameter that is not apart, while a UI is open.
Converging == upc # "closed" => \A p \in Params \ apart : Converges(p)

IInv == TypeOK /\ RequestsCounted /\ ClearedAreResent /\ Converging
=============================================================================
