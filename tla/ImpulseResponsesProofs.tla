----------------------- MODULE ImpulseResponsesProofs -----------------------
(***************************************************************************)
(* For any number of channels, files, cuts and sources, any number of      *)
(* requests and any failing allocations, the impulse response plugin       *)
(* loses no request: IInv, which TLC checks on the small instance, is      *)
(* inductive, one lemma per action and one step per part of it.            *)
(***************************************************************************)
EXTENDS ImpulseResponses, TLAPS

\* The indices of the loops stay in their ranges.
LEMMA Indices ==
  /\ 1 \in Chan /\ 1 \in 1..(nChannels + 1)
  /\ \A i \in Chan : /\ i \in Int /\ i >= 1 /\ i <= nChannels /\ i # 0 /\ i \in Tasks
                    /\ i \in 1..(nChannels + 1) /\ i + 1 \in 1..(nChannels + 1)
  /\ \A i \in Chan : i # nChannels => i + 1 \in Chan
  /\ 0 \in Tasks /\ 0 \notin Chan
  BY ImpulseAssumption DEF Chan, Tasks, ImpulseAssumption

\* the path a is ahead in port p, or was taken over
Kept(p, a) == IF p.ahead > 0 THEN p.sRequest = a ELSE p.sPath = a

\* Status and audio file of a path are of their types, and a file is its path.
LEMMA LoadTypes ==
  ASSUME NEW p \in Paths
  PROVE  LoadCode(p) \in Codes /\ Loaded(p) \in FileOrNull /\ (Loaded(p) # NULL => Loaded(p) = p)
  BY ImpulseAssumption DEF LoadCode, Loaded, Codes, FileOrNull, ImpulseAssumption

\* A rendered sample and its thumbnails are of their types.
LEMMA RenderTypes ==
  ASSUME NEW f \in FileOrNull, NEW c \in Cuts, NEW n \in FileOrNull
  PROVE  Rendered(f, c) \in SampleOrNull /\ Thumbs(Rendered(f, c), n) \in ThumbsOrNull
  BY DEF Rendered, Thumbs, FileOrNull, SampleOrNull, ThumbsOrNull

\* A convolver is of its type.
LEMMA RouteTypes ==
  ASSUME NEW s \in Sources, NEW smp \in [Chan -> SampleOrNull]
  PROVE  Routed(s, smp) \in ConvOrNull
  <1>1. s \in Nat /\ TRACKS_MAX \in Nat \ {0}
    BY ImpulseAssumption DEF Sources, ImpulseAssumption
  <1>2. CASE s = 0 \/ FileOf(s) \notin Chan
    BY <1>2 DEF Routed, ConvOrNull
  <1>3. CASE s # 0 /\ FileOf(s) \in Chan
    <2>1. TrackOf(s) \in 1..TRACKS_MAX
      BY <1>1, <1>3 DEF TrackOf
    <2>2. smp[FileOf(s)] \in SampleOrNull
      BY <1>3
    <2> QED
      BY <1>3, <2>1, <2>2 DEF Routed, ConvOrNull
  <1> QED
    BY <1>2, <1>3

\* pending() keeps a port well formed, and takes over the path that was asked for
\* last only when no accepted path is at work.
LEMMA PolledPort ==
  ASSUME NEW p \in PathPort!Ports(Paths)
  PROVE  /\ PathPort!Polled(p) \in PathPort!Ports(Paths)
         /\ PathPort!Polled(p).state = "accepted" <=> p.state = "accepted"
         /\ PathPort!Polled(p).state = "empty" => PathPort!Polled(p) = p
         /\ p.state # "empty" => PathPort!Polled(p) = p
         /\ \A a \in Paths : Kept(p, a) => Kept(PathPort!Polled(p), a)
  <1> USE DEF PathPort!TakesOver, PathPort!Ports, PathPort!Kinds, Kept
  <1>1. CASE ~ PathPort!TakesOver(p)
    BY <1>1 DEF PathPort!Polled
  <1>2. CASE PathPort!TakesOver(p)
    <2> DEFINE q == PathPort!Polled(p)
    <2>1. /\ q.wrapper = p.wrapper /\ q.locked = p.locked /\ q.state = "pending"
          /\ q.sPath = p.sRequest
          /\ q.ahead = IF p.wrapper = "jack" THEN p.ahead - 1 ELSE 0
          /\ q.sRequest = IF p.wrapper = "jack" THEN p.sRequest ELSE Empty
      BY <1>2 DEF PathPort!Polled
    <2>2. q \in PathPort!Ports(Paths)
      <3>1. CASE p.wrapper = "jack"
        <4>1. q = [p EXCEPT !.state = "pending", !.sPath = p.sRequest, !.ahead = p.ahead - 1]
          BY <1>2, <3>1 DEF PathPort!Polled
        <4>2. p.ahead - 1 \in Nat
          BY <1>2
        <4> QED
          BY <4>1, <4>2
      <3>2. CASE p.wrapper # "jack"
        <4>1. q = [wrapper |-> p.wrapper, state |-> "pending", ahead |-> 0, locked |-> p.locked,
                   sPath |-> p.sRequest, sRequest |-> Empty]
          BY <1>2, <3>2 DEF PathPort!Polled
        <4>2. Empty \in Paths
          BY ImpulseAssumption DEF ImpulseAssumption
        <4> HIDE DEF q
        <4> QED
          BY <4>1, <4>2
      <3> QED
        BY <3>1, <3>2
    <2>3. \A a \in Paths : Kept(p, a) => Kept(q, a)
      BY <1>2, <2>1
    <2> HIDE DEF q
    <2> QED
      BY <1>2, <2>1, <2>2, <2>3 DEF q
  <1> QED
    BY <1>1, <1>2

\* submit() keeps a port well formed, and the path is the one that waits.
LEMMA RequestedPort ==
  ASSUME NEW p \in PathPort!Ports(Paths), NEW a \in Paths
  PROVE  /\ PathPort!Requested(p, a) \in PathPort!Ports(Paths)
         /\ Kept(PathPort!Requested(p, a), a)
         /\ PathPort!Requested(p, a).state = p.state
         /\ PathPort!Requested(p, a).sPath = p.sPath
  <1> DEFINE n == IF p.wrapper = "jack" THEN p.ahead + 1 ELSE 1
  <1>1. n \in Nat /\ n > 0
    BY DEF PathPort!Ports
  <1>2. PathPort!Requested(p, a) = [p EXCEPT !.sRequest = a, !.locked = FALSE, !.ahead = n]
    BY DEF PathPort!Requested, PathPort!Ports
  <1> HIDE DEF n
  <1> QED
    BY <1>1, <1>2 DEF PathPort!Ports, Kept

\* The last of what was rendered is a sample of each file.
LEMMA LatestTypes ==
  ASSUME SamplesTyped
  PROVE  Latest \in [Chan -> SampleOrNull] /\ \A i \in Chan : Latest[i] = ToRoute(i)
  BY DEF Latest, ToRoute, SamplesTyped

\* What the operations of the executor do to its state.
LEMMA AcceptStep ==
  ASSUME ExecTyped, OrderKnown, NEW t \in Tasks, Executor!Accept(t)
  PROVE  /\ ExecTyped' /\ OrderKnown' /\ state[t] = "idle"
         /\ state' = [state EXCEPT ![t] = "submitted"] /\ code' = code
  BY DEF ExecTyped, OrderKnown, Executor!Accept

\* Of the tasks that wait, the one accepted first starts.
LEMMA StartStep ==
  ASSUME ExecTyped, OrderKnown, NEW t \in Tasks, Executor!Start(t)
  PROVE  /\ ExecTyped' /\ OrderKnown' /\ state[t] = "submitted"
         /\ \A u \in Tasks : state[u] # "running"
         /\ state' = [state EXCEPT ![t] = "running"] /\ code' = code
  <1>1. /\ order \in Seq(Tasks) /\ order # <<>> /\ t = order[1] /\ order' = Tail(order)
        /\ state' = [state EXCEPT ![t] = "running"] /\ code' = code /\ phase' = phase
        /\ \A u \in Tasks : state[u] # "running"
    BY DEF ExecTyped, Executor!Start
  <1>2. /\ Len(order) \in Nat \ {0} /\ Len(order') = Len(order) - 1 /\ order' \in Seq(Tasks)
        /\ \A k \in 1..Len(order') : order'[k] = order[k + 1] /\ k + 1 \in 1..Len(order)
    BY <1>1
  <1>3. /\ state[t] = "submitted"
        /\ \A k \in 1..Len(order') : order'[k] # t /\ order'[k] \in Tasks
    BY <1>1, <1>2 DEF OrderKnown
  <1>4. OrderKnown'
    BY <1>1, <1>2, <1>3 DEF OrderKnown, ExecTyped
  <1> QED
    BY <1>1, <1>2, <1>3, <1>4 DEF ExecTyped

\* The task that runs completes, and nothing else changes.
LEMMA CompleteStep ==
  ASSUME ExecTyped, OrderKnown, NEW t \in Tasks, Executor!Complete(t)
  PROVE  /\ ExecTyped' /\ OrderKnown' /\ state[t] = "running"
         /\ state' = [state EXCEPT ![t] = "completed"]
         /\ \A u \in Tasks : u # t => code'[u] = code[u]
  BY DEF ExecTyped, OrderKnown, Executor!Complete

\* A completed task becomes idle, and nothing else changes.
LEMMA ResetStep ==
  ASSUME ExecTyped, OrderKnown, NEW t \in Tasks, Executor!Reset(t)
  PROVE  /\ ExecTyped' /\ OrderKnown' /\ state[t] = "completed"
         /\ state' = [state EXCEPT ![t] = "idle"]
         /\ \A u \in Tasks : u # t => code'[u] = code[u]
  BY DEF ExecTyped, OrderKnown, Executor!Reset

\* Who leaves the executor alone keeps what is known of it.
LEMMA ExecStutters ==
  ASSUME ExecTyped, OrderKnown, UNCHANGED exec
  PROVE  ExecTyped' /\ OrderKnown' /\ state' = state /\ code' = code
  BY DEF ExecTyped, OrderKnown, exec

\* The user's request takes the lock of a port.
LEMMA AskBeginInv ==
  ASSUME IInv, NEW i \in Chan, AskBegin(i)
  PROVE  IInv'
  <1> USE Indices DEF IInv, TypeOK, AskBegin, Loader, Configurator, PathPort!Locked
  <1>0. ExecTyped' /\ OrderKnown' /\ state' = state /\ code' = code
    BY ExecStutters
  <1>1. TypeOK'
    <2>1. RequestTyped' /\ FilesTyped' /\ SamplesTyped' /\ ViewTyped' /\ ConvsTyped'
      BY DEF RequestTyped, FilesTyped, SamplesTyped, ViewTyped, ConvsTyped, request, files, samples, view, convs
    <2>2. UserTyped'
      BY DEF UserTyped
    <2>3. port' \in [Chan -> PathPort!Ports(Paths)]
      BY DEF PathPort!Ports, PathPort!Kinds
    <2>4. StepsTyped'
      BY DEF StepsTyped, worker
    <2> QED
      BY <1>0, <2>1, <2>2, <2>3, <2>4
  <1>2. Latest' = Latest /\ \A k \in Chan : ToRoute(k)' = ToRoute(k)
    BY DEF Latest, ToRoute, samples
  <1>3. WorkerKnown'
    BY <1>0 DEF WorkerKnown, confIdle, worker, ExecTyped, StepsTyped
  <1>4. RequestKept'
    BY <1>0 DEF RequestKept, files, PathPort!Ports, PathPort!Kinds
  <1>5. SampleKept'
    BY <1>0, <1>2, Indices DEF SampleKept, ToRender, confIdle, samples, request, files, worker, ExecTyped
  <1>6. RouteKept'
    BY <1>0, <1>2, Indices DEF RouteKept, IsRouted, RoutedTo, confIdle, confCompleted, convs, request, worker, ExecTyped
  <1> QED
    BY <1>0, <1>1, <1>3, <1>4, <1>5, <1>6

\* submit() of a port leaves the path as the one that waits.
LEMMA AskEndInv ==
  ASSUME IInv, NEW i \in Chan, AskEnd(i)
  PROVE  IInv'
  <1> USE Indices DEF IInv, TypeOK, AskEnd, Loader, Configurator
  <1>0. ExecTyped' /\ OrderKnown' /\ state' = state /\ code' = code
    BY ExecStutters
  <1>p. PICK p \in Paths : /\ port' = [port EXCEPT ![i] = PathPort!Requested(port[i], p)]
                          /\ asked' = [asked EXCEPT ![i] = p]
    OBVIOUS
  <1>1. TypeOK'
    <2>1. RequestTyped' /\ FilesTyped' /\ SamplesTyped' /\ ViewTyped' /\ ConvsTyped'
      BY DEF RequestTyped, FilesTyped, SamplesTyped, ViewTyped, ConvsTyped, request, files, samples, view, convs
    <2>2. UserTyped'
      BY <1>p DEF UserTyped
    <2>3. port' \in [Chan -> PathPort!Ports(Paths)]
      BY <1>p, RequestedPort
    <2>4. StepsTyped'
      BY DEF StepsTyped, worker
    <2> QED
      BY <1>0, <2>1, <2>2, <2>3, <2>4
  <1>2. Latest' = Latest /\ \A k \in Chan : ToRoute(k)' = ToRoute(k)
    BY DEF Latest, ToRoute, samples
  <1>3. WorkerKnown'
    BY <1>0 DEF WorkerKnown, confIdle, worker, ExecTyped, StepsTyped
  <1>4. RequestKept'
    <2> SUFFICES ASSUME NEW j \in Chan
                 PROVE  /\ Kept(port'[j], asked'[j])
                        /\ port'[j].state = port[j].state /\ port'[j].sPath = port[j].sPath
      BY <1>0 DEF RequestKept, Kept, files
    <2>1. Kept(port[j], asked[j])
      BY DEF RequestKept, Kept
    <2>2. CASE j = i
      <3>1. port'[j] = PathPort!Requested(port[i], p) /\ asked'[j] = p
        BY <1>p, <2>2 DEF UserTyped
      <3> QED
        BY <2>2, <3>1, RequestedPort
    <2>3. CASE j # i
      <3>1. port'[j] = port[j] /\ asked'[j] = asked[j]
        BY <1>p, <2>3 DEF UserTyped
      <3> QED
        BY <2>1, <3>1
    <2> QED
      BY <2>2, <2>3
  <1>5. SampleKept'
    BY <1>0, <1>2, Indices DEF SampleKept, ToRender, confIdle, samples, request, files, worker, ExecTyped
  <1>6. RouteKept'
    BY <1>0, <1>2, Indices DEF RouteKept, IsRouted, RoutedTo, confIdle, confCompleted, convs, request, worker, ExecTyped
  <1> QED
    BY <1>0, <1>1, <1>3, <1>4, <1>5, <1>6

\* A control of the user turns: the settings are not applied yet.
LEMMA TurnInv ==
  ASSUME IInv, NEW i \in Chan, Turn(i)
  PROVE  IInv'
  <1> USE Indices DEF IInv, TypeOK, Turn, Loader, Configurator
  <1>0. ExecTyped' /\ OrderKnown' /\ state' = state /\ code' = code
    BY ExecStutters
  <1>1. TypeOK'
    <2>1. RequestTyped' /\ FilesTyped' /\ SamplesTyped' /\ ViewTyped' /\ ConvsTyped'
      BY DEF RequestTyped, FilesTyped, SamplesTyped, ViewTyped, ConvsTyped, request, files, samples, view, convs
    <2>2. UserTyped'
      BY DEF UserTyped
    <2>3. port' \in [Chan -> PathPort!Ports(Paths)]
      OBVIOUS
    <2>4. StepsTyped'
      BY DEF StepsTyped, worker
    <2> QED
      BY <1>0, <2>1, <2>2, <2>3, <2>4
  <1>2. Latest' = Latest /\ \A k \in Chan : ToRoute(k)' = ToRoute(k)
    BY DEF Latest, ToRoute, samples
  <1>3. WorkerKnown'
    BY <1>0 DEF WorkerKnown, confIdle, worker, ExecTyped, StepsTyped
  <1>4. RequestKept'
    BY <1>0 DEF RequestKept, files, user, ExecTyped
  <1>5. SampleKept'
    BY <1>0, <1>2, Indices DEF SampleKept, ToRender, confIdle, samples, request, files, worker, ExecTyped
  <1>6. RouteKept'
    BY <1>0, <1>2, Indices DEF RouteKept, IsRouted, RoutedTo, confIdle, confCompleted, convs, request, worker, ExecTyped
  <1> QED
    BY <1>0, <1>1, <1>3, <1>4, <1>5, <1>6

\* The UI takes the thumbnails it was sent.
LEMMA TakeMeshInv ==
  ASSUME IInv, NEW i \in Chan, TakeMesh(i)
  PROVE  IInv'
  <1> USE Indices DEF IInv, TypeOK, TakeMesh, Loader, Configurator
  <1>0. ExecTyped' /\ OrderKnown' /\ state' = state /\ code' = code
    BY ExecStutters
  <1>1. TypeOK'
    <2>1. UserTyped' /\ RequestTyped' /\ FilesTyped' /\ SamplesTyped' /\ ConvsTyped'
      BY DEF UserTyped, RequestTyped, FilesTyped, SamplesTyped, ConvsTyped, user, request, files, samples, convs
    <2>2. ViewTyped'
      BY DEF ViewTyped
    <2>3. port' \in [Chan -> PathPort!Ports(Paths)]
      OBVIOUS
    <2>4. StepsTyped'
      BY DEF StepsTyped, worker
    <2> QED
      BY <1>0, <2>1, <2>2, <2>3, <2>4
  <1>2. Latest' = Latest /\ \A k \in Chan : ToRoute(k)' = ToRoute(k)
    BY DEF Latest, ToRoute, samples
  <1>3. WorkerKnown'
    BY <1>0 DEF WorkerKnown, confIdle, worker, ExecTyped, StepsTyped
  <1>4. RequestKept'
    BY <1>0 DEF RequestKept, files, user, ExecTyped
  <1>5. SampleKept'
    BY <1>0, <1>2, Indices DEF SampleKept, ToRender, confIdle, samples, request, files, worker, ExecTyped
  <1>6. RouteKept'
    BY <1>0, <1>2, Indices DEF RouteKept, IsRouted, RoutedTo, confIdle, confCompleted, convs, request, worker, ExecTyped
  <1> QED
    BY <1>0, <1>1, <1>3, <1>4, <1>5, <1>6

\* A UI that opens makes all thumbnails be sent again.
LEMMA UiActivatedInv ==
  ASSUME IInv, UiActivated
  PROVE  IInv'
  <1> USE Indices DEF IInv, TypeOK, UiActivated, Loader, Configurator
  <1>0. ExecTyped' /\ OrderKnown' /\ state' = state /\ code' = code
    BY ExecStutters
  <1>1. TypeOK'
    <2>1. UserTyped' /\ RequestTyped' /\ FilesTyped' /\ SamplesTyped' /\ ConvsTyped'
      BY DEF UserTyped, RequestTyped, FilesTyped, SamplesTyped, ConvsTyped, user, request, files, samples, convs
    <2>2. ViewTyped'
      BY DEF ViewTyped
    <2>3. port' \in [Chan -> PathPort!Ports(Paths)]
      OBVIOUS
    <2>4. StepsTyped'
      BY DEF StepsTyped, worker
    <2> QED
      BY <1>0, <2>1, <2>2, <2>3, <2>4
  <1>2. Latest' = Latest /\ \A i \in Chan : ToRoute(i)' = ToRoute(i)
    BY DEF Latest, ToRoute, samples
  <1>3. WorkerKnown'
    BY <1>0 DEF WorkerKnown, confIdle, worker, ExecTyped, StepsTyped
  <1>4. RequestKept'
    BY <1>0 DEF RequestKept, files, user, ExecTyped
  <1>5. SampleKept'
    BY <1>0, <1>2, Indices DEF SampleKept, ToRender, confIdle, samples, request, files, worker, ExecTyped
  <1>6. RouteKept'
    BY <1>0, <1>2, Indices DEF RouteKept, IsRouted, RoutedTo, confIdle, confCompleted, convs, request, worker, ExecTyped
  <1> QED
    BY <1>0, <1>1, <1>3, <1>4, <1>5, <1>6

\* The wrapper polls the ports, and calls update_settings() if something changed.
LEMMA PreProcessInv ==
  ASSUME IInv, PreProcess
  PROVE  IInv'
  <1> USE Indices DEF IInv, TypeOK, PreProcess, Loader, Configurator
  <1>0. ExecTyped' /\ OrderKnown' /\ state' = state /\ code' = code
    BY ExecStutters
  <1>1. TypeOK'
    <2>1. UserTyped' /\ RequestTyped' /\ FilesTyped' /\ SamplesTyped' /\ ViewTyped' /\ ConvsTyped'
      BY DEF UserTyped, RequestTyped, FilesTyped, SamplesTyped, ViewTyped, ConvsTyped, user, request, files, samples, view, convs
    <2>2. port' \in [Chan -> PathPort!Ports(Paths)]
      BY PolledPort
    <2>3. StepsTyped'
      BY DEF StepsTyped, worker
    <2> QED
      BY <1>0, <2>1, <2>2, <2>3
  <1>2. Latest' = Latest /\ \A i \in Chan : ToRoute(i)' = ToRoute(i)
    BY DEF Latest, ToRoute, samples
  <1>3. WorkerKnown'
    BY <1>0 DEF WorkerKnown, confIdle, worker, ExecTyped, StepsTyped
  <1>4. RequestKept'
    <2> SUFFICES ASSUME NEW i \in Chan
                 PROVE  /\ Kept(port'[i], asked[i])
                        /\ port'[i].state = "accepted" <=> state[i] # "idle"
                        /\ port'[i].state = "empty" => port'[i] = port[i]
                        /\ state[i] = "completed" => port'[i] = port[i]
      BY <1>0 DEF RequestKept, Kept, files, user
    <2>1. port'[i] = PathPort!Polled(port[i]) /\ port[i] \in PathPort!Ports(Paths) /\ asked[i] \in Paths
      BY DEF UserTyped
    <2>2. /\ Kept(port[i], asked[i])
          /\ port[i].state = "accepted" <=> state[i] # "idle"
      BY DEF RequestKept, Kept
    <2> QED
      BY <2>1, <2>2, PolledPort
  <1>5. SampleKept'
    BY <1>0, <1>2, Indices DEF SampleKept, ToRender, confIdle, samples, request, files, worker, ExecTyped
  <1>6. RouteKept'
    BY <1>0, <1>2, Indices DEF RouteKept, IsRouted, RoutedTo, confIdle, confCompleted, convs, request, worker, ExecTyped
  <1> QED
    BY <1>0, <1>1, <1>3, <1>4, <1>5, <1>6

\* update_settings() marks what the cuts or the source have changed.
LEMMA SettingsInv ==
  ASSUME IInv, NEW i \in Chan, Settings(i)
  PROVE  IInv'
  <1> USE Indices DEF IInv, TypeOK, Settings, Loader, Configurator, Marked
  <1> DEFINE q == PathPort!Polled(port[i])
  <1>p. /\ q \in PathPort!Ports(Paths)
        /\ q.state = "accepted" <=> port[i].state = "accepted"
        /\ q.state = "empty" => q = port[i]
        /\ port[i].state # "empty" => q = port[i]
        /\ Kept(port[i], asked[i]) => Kept(q, asked[i])
    BY PolledPort DEF UserTyped
  <1> HIDE DEF q
  <1>0. /\ ExecTyped' /\ OrderKnown' /\ code' = code
        /\ \/ /\ q.state = "pending" /\ state[i] = "idle"
              /\ state' = [state EXCEPT ![i] = "submitted"]
              /\ nStatus' = [nStatus EXCEPT ![i] = "loading"]
              /\ port' = [port EXCEPT ![i] = [q EXCEPT !.state = "accepted"]]
           \/ port' = [port EXCEPT ![i] = q] /\ state' = state /\ nStatus' = nStatus
    <2>1. CASE /\ PathPort!IsPending(q) /\ Executor!Accept(i)
               /\ nStatus' = [nStatus EXCEPT ![i] = "loading"]
               /\ port' = [port EXCEPT ![i] = PathPort!Accepted(q)]
      BY <2>1, AcceptStep DEF PathPort!IsPending, PathPort!Accepted, q
    <2>2. CASE port' = [port EXCEPT ![i] = q] /\ UNCHANGED <<exec, nStatus>>
      BY <2>2, ExecStutters
    <2> QED
      BY <2>1, <2>2 DEF q
  <1>1. TypeOK'
    <2>1. UserTyped' /\ SamplesTyped' /\ ViewTyped' /\ ConvsTyped'
      BY DEF UserTyped, SamplesTyped, ViewTyped, ConvsTyped, user, samples, view, convs
    <2>2. RequestTyped'
      BY DEF RequestTyped, UserTyped
    <2>3. FilesTyped'
      BY <1>0 DEF FilesTyped
    <2>4. port' \in [Chan -> PathPort!Ports(Paths)]
      BY <1>0, <1>p DEF PathPort!Ports, PathPort!Kinds
    <2>5. StepsTyped'
      BY DEF StepsTyped, worker
    <2> QED
      BY <1>0, <2>1, <2>2, <2>3, <2>4, <2>5
  <1>2. Latest' = Latest /\ \A k \in Chan : ToRoute(k)' = ToRoute(k)
    BY DEF Latest, ToRoute, samples
  <1>3. WorkerKnown'
    BY <1>0 DEF WorkerKnown, confIdle, worker, ExecTyped, StepsTyped
  <1>4. RequestKept'
    <2> SUFFICES ASSUME NEW j \in Chan
                 PROVE  /\ Kept(port'[j], asked[j])
                        /\ port'[j].state = "accepted" <=> state'[j] # "idle"
                        /\ port'[j].state = "empty" => port'[j] = port[j] /\ nStatus'[j] = nStatus[j]
                        /\ state'[j] = "completed" => port'[j] = port[j] /\ state[j] = "completed"
      BY <1>0 DEF RequestKept, Kept, user
    <2>1. /\ Kept(port[j], asked[j])
          /\ port[j].state = "accepted" <=> state[j] # "idle"
      BY DEF RequestKept, Kept
    <2>2. CASE j = i
      <3>1. CASE state[i] = "idle" /\ port' = [port EXCEPT ![i] = [q EXCEPT !.state = "accepted"]]
        <4>1. port'[j].ahead = q.ahead /\ port'[j].sRequest = q.sRequest /\ port'[j].sPath = q.sPath
              /\ port'[j].state = "accepted"
          BY <1>p, <2>2, <3>1 DEF PathPort!Ports
        <4>2. state'[j] = "submitted"
          BY <1>0, <2>2, <3>1, <2>1, <4>1, <1>p DEF ExecTyped
        <4> QED
          BY <1>p, <2>1, <2>2, <4>1, <4>2 DEF Kept
      <3>2. CASE port' = [port EXCEPT ![i] = q] /\ state' = state /\ nStatus' = nStatus
        BY <1>p, <2>1, <2>2, <3>2
      <3> QED
        BY <1>0, <3>1, <3>2
    <2>3. CASE j # i
      BY <1>0, <2>1, <2>3 DEF ExecTyped, FilesTyped
    <2> QED
      BY <2>2, <2>3
  <1>5. SampleKept'
    BY <1>0, <1>2, Indices DEF SampleKept, ToRender, confIdle, samples, worker, ExecTyped, RequestTyped
  <1>6. RouteKept'
    BY <1>0, <1>2, Indices DEF RouteKept, IsRouted, RoutedTo, confIdle, confCompleted, convs, worker, ExecTyped, RequestTyped
  <1> QED
    BY <1>0, <1>1, <1>3, <1>4, <1>5, <1>6

\* A loader or the configurator is submitted only for what is asked, and keeps it if
\* the executor refuses.
LEMMA ProcessSubmitInv ==
  ASSUME IInv, ProcessSubmit
  PROVE  IInv'
  <1> USE Indices DEF IInv, TypeOK, ProcessSubmit, Loader, Configurator, confIdle
  <1>0. /\ ExecTyped' /\ OrderKnown' /\ code' = code
        /\ \/ /\ state[0] = "idle" /\ state' = [state EXCEPT ![0] = "submitted"]
              /\ ~ bReconfig'
           \/ state' = state /\ bReconfig' = bReconfig /\ bRender' = [i \in Chan |-> bRender[i]]
    <2>1. CASE Executor!Accept(0) /\ ~ bReconfig'
      BY <2>1, AcceptStep
    <2>2. CASE /\ UNCHANGED exec /\ bReconfig' = bReconfig
               /\ bRender' = [i \in Chan |-> bRender[i]]
      BY <2>2, ExecStutters
    <2> QED
      BY <2>1, <2>2 DEF RequestTyped
  <1>1. TypeOK'
    <2>1. UserTyped' /\ FilesTyped' /\ SamplesTyped' /\ ViewTyped' /\ ConvsTyped'
      BY DEF UserTyped, FilesTyped, SamplesTyped, ViewTyped, ConvsTyped, user, files, samples, view, convs
    <2>2. RequestTyped'
      BY DEF RequestTyped
    <2>3. port' \in [Chan -> PathPort!Ports(Paths)]
      OBVIOUS
    <2>4. StepsTyped'
      BY DEF StepsTyped, worker
    <2> QED
      BY <1>0, <2>1, <2>2, <2>3, <2>4
  <1>2. Latest' = Latest /\ \A i \in Chan : ToRoute(i)' = ToRoute(i)
    BY DEF Latest, ToRoute, samples
  <1>3. WorkerKnown'
    BY <1>0 DEF WorkerKnown, confIdle, worker, ExecTyped, StepsTyped
  <1>4. RequestKept'
    BY <1>0 DEF RequestKept, files, user, ExecTyped
  <1>5. SampleKept'
    BY <1>0, <1>2, Indices DEF SampleKept, ToRender, confIdle, samples, files, worker, ExecTyped, RequestTyped, WorkerKnown
  <1>6. RouteKept'
    BY <1>0, <1>2, Indices DEF RouteKept, IsRouted, RoutedTo, confIdle, confCompleted, convs, worker, ExecTyped, RequestTyped, WorkerKnown
  <1> QED
    BY <1>0, <1>1, <1>3, <1>4, <1>5, <1>6

\* The file a loader left becomes the current one, and its sample is marked.
LEMMA ProcessFileInv ==
  ASSUME IInv, NEW i \in Chan, ProcessFile(i)
  PROVE  IInv'
  <1> USE Indices DEF IInv, TypeOK, ProcessFile, Loader, Configurator, FilesTurn, confIdle
  <1> DEFINE Done == port[i].state = "accepted" /\ state[i] = "completed"
  <1>0. /\ ExecTyped' /\ OrderKnown'
        /\ Done => /\ state' = [state EXCEPT ![i] = "idle"]
                   /\ \A u \in Tasks : u # i => code'[u] = code[u]
        /\ ~ Done => UNCHANGED <<pSwap, pCurr, nStatus, bRender, bReconfig, port, state, code>>
    <2>1. CASE Done
      BY <2>1, ResetStep
    <2>2. CASE ~ Done
      BY <2>2, ExecStutters DEF exec
    <2> QED
      BY <2>1, <2>2
  <1>i. state[0] = "idle" /\ state'[0] = "idle" /\ wpc \notin {"render", "route", "nomem"}
    BY <1>0 DEF WorkerKnown, ExecTyped
  <1>1. TypeOK'
    <2>1. UserTyped' /\ SamplesTyped' /\ ViewTyped' /\ ConvsTyped'
      BY DEF UserTyped, SamplesTyped, ViewTyped, ConvsTyped, user, samples, view, convs
    <2>2. RequestTyped'
      BY <1>0 DEF RequestTyped
    <2>3. FilesTyped'
      <3>1. Done => code[i] \in Codes
        BY LoadTypes DEF RequestKept, PathPort!Ports
      <3> QED
        BY <1>0, <3>1 DEF FilesTyped
    <2>4. port' \in [Chan -> PathPort!Ports(Paths)]
      BY <1>0 DEF PathPort!Committed, PathPort!IsPending, PathPort!Ports, PathPort!Kinds
    <2>5. StepsTyped'
      BY DEF StepsTyped, worker
    <2> QED
      BY <1>0, <2>1, <2>2, <2>3, <2>4, <2>5
  <1>2. Latest' = Latest /\ \A k \in Chan : ToRoute(k)' = ToRoute(k)
    BY DEF Latest, ToRoute, samples
  <1>3. WorkerKnown'
    BY <1>0, <1>i DEF WorkerKnown, worker, ExecTyped, StepsTyped
  <1>4. RequestKept'
    <2> SUFFICES ASSUME NEW j \in Chan
                 PROVE  /\ Kept(port'[j], asked[j])
                        /\ port'[j].state = "accepted" <=> state'[j] # "idle"
                        /\ port'[j].state = "empty" =>
                             pCurr'[j] = Loaded(port'[j].sPath) /\ nStatus'[j] = LoadCode(port'[j].sPath)
                        /\ state'[j] = "completed" =>
                             pSwap'[j] = Loaded(port'[j].sPath) /\ code'[j] = LoadCode(port'[j].sPath)
      BY DEF RequestKept, Kept, user
    <2>1. /\ Kept(port[j], asked[j])
          /\ port[j].state = "accepted" <=> state[j] # "idle"
          /\ port[j].state = "empty" =>
               pCurr[j] = Loaded(port[j].sPath) /\ nStatus[j] = LoadCode(port[j].sPath)
          /\ state[j] = "completed" =>
               pSwap[j] = Loaded(port[j].sPath) /\ code[j] = LoadCode(port[j].sPath)
      BY DEF RequestKept, Kept
    <2>2. CASE Done /\ j = i
      <3>1. port'[i] = [port[i] EXCEPT !.state = "empty"]
        BY <2>2 DEF PathPort!Committed
      <3>2. state'[i] = "idle" /\ pCurr'[i] = pSwap[i] /\ nStatus'[i] = code[i]
        BY <1>0, <2>2 DEF ExecTyped, FilesTyped
      <3>3. port[i] \in PathPort!Ports(Paths)
        OBVIOUS
      <3> QED
        BY <2>1, <2>2, <3>1, <3>2, <3>3 DEF Kept, PathPort!Ports
    <2>3. CASE ~ Done
      BY <1>0, <2>1, <2>3
    <2>4. CASE Done /\ j # i
      BY <1>0, <2>1, <2>4 DEF ExecTyped, FilesTyped
    <2> QED
      BY <2>2, <2>3, <2>4
  <1>5. SampleKept'
    BY <1>0, <1>i, <1>2, Indices DEF SampleKept, ToRender, samples, worker, RequestTyped, FilesTyped
  <1>6. RouteKept'
    BY <1>0, <1>i, <1>2, Indices DEF RouteKept, IsRouted, confCompleted, convs, worker, RequestTyped
  <1> QED
    BY <1>0, <1>1, <1>3, <1>4, <1>5, <1>6

\* What the configurator left becomes current.
LEMMA ProcessApplyInv ==
  ASSUME IInv, ProcessApply
  PROVE  IInv'
  <1> USE Indices DEF IInv, TypeOK, ProcessApply, Loader, Configurator, confCompleted, Synced
  <1>0. ExecTyped' /\ OrderKnown' /\ state[0] = "completed" /\ state' = [state EXCEPT ![0] = "idle"] /\ \A u \in Chan : code'[u] = code[u]
    BY ResetStep
  <1>1. TypeOK'
    <2>1. UserTyped' /\ RequestTyped' /\ FilesTyped'
      BY DEF UserTyped, RequestTyped, FilesTyped, user, request, files
    <2>2. SamplesTyped'
      BY DEF SamplesTyped
    <2>3. ViewTyped'
      BY DEF ViewTyped
    <2>4. ConvsTyped'
      BY DEF ConvsTyped
    <2>5. port' \in [Chan -> PathPort!Ports(Paths)]
      OBVIOUS
    <2>6. StepsTyped'
      BY DEF StepsTyped, worker
    <2> QED
      BY <1>0, <2>1, <2>2, <2>3, <2>4, <2>5, <2>6
  <1>2. Latest' = Latest /\ \A i \in Chan : ToRoute(i)' = ToRoute(i)
    BY DEF Latest, ToRoute, SamplesTyped
  <1>3. WorkerKnown'
    BY <1>0 DEF WorkerKnown, confIdle, worker, ExecTyped, StepsTyped
  <1>4. RequestKept'
    BY <1>0 DEF RequestKept, files, user, ExecTyped
  <1>5. SampleKept'
    BY <1>0, <1>2, Indices DEF SampleKept, ToRender, confIdle, samples, request, files, worker, ExecTyped
  <1>6. RouteKept'
    BY <1>0, <1>2, Indices DEF RouteKept, IsRouted, RoutedTo, confIdle, request, worker, ExecTyped, WorkerKnown
  <1> QED
    BY <1>0, <1>1, <1>3, <1>4, <1>5, <1>6

\* process() has nothing of the configurator to apply.
LEMMA ProcessNothingInv ==
  ASSUME IInv, ProcessNothing
  PROVE  IInv'
  <1> USE Indices DEF IInv, TypeOK, ProcessNothing, Loader, Configurator, confIdle, confCompleted
  <1>0. ExecTyped' /\ OrderKnown' /\ state' = state /\ code' = code
    BY ExecStutters
  <1>1. TypeOK'
    <2>1. UserTyped' /\ RequestTyped' /\ FilesTyped' /\ SamplesTyped' /\ ViewTyped' /\ ConvsTyped'
      BY DEF UserTyped, RequestTyped, FilesTyped, SamplesTyped, ViewTyped, ConvsTyped, user, request, files, samples, view, convs
    <2>2. port' \in [Chan -> PathPort!Ports(Paths)]
      OBVIOUS
    <2>3. StepsTyped'
      BY DEF StepsTyped, worker
    <2> QED
      BY <1>0, <2>1, <2>2, <2>3
  <1>2. Latest' = Latest /\ \A i \in Chan : ToRoute(i)' = ToRoute(i)
    BY DEF Latest, ToRoute, samples
  <1>3. WorkerKnown'
    BY <1>0 DEF WorkerKnown, confIdle, worker, ExecTyped, StepsTyped
  <1>4. RequestKept'
    BY <1>0 DEF RequestKept, files, user, ExecTyped
  <1>5. SampleKept'
    BY <1>0, <1>2, Indices DEF SampleKept, ToRender, confIdle, samples, request, files, worker, ExecTyped
  <1>6. RouteKept'
    BY <1>0, <1>2, Indices DEF RouteKept, IsRouted, RoutedTo, confIdle, confCompleted, convs, request, worker, ExecTyped
  <1> QED
    BY <1>0, <1>1, <1>3, <1>4, <1>5, <1>6

\* process() sends thumbnails to each mesh that the UI has emptied.
LEMMA ProcessOutputInv ==
  ASSUME IInv, ProcessOutput
  PROVE  IInv'
  <1> USE Indices DEF IInv, TypeOK, ProcessOutput, Loader, Configurator, Sent
  <1>0. ExecTyped' /\ OrderKnown' /\ state' = state /\ code' = code
    BY ExecStutters
  <1>1. TypeOK'
    <2>1. UserTyped' /\ RequestTyped' /\ FilesTyped' /\ SamplesTyped' /\ ConvsTyped'
      BY DEF UserTyped, RequestTyped, FilesTyped, SamplesTyped, ConvsTyped, user, request, files, samples, convs
    <2>2. ViewTyped'
      BY DEF ViewTyped, ThumbsOrNull
    <2>3. port' \in [Chan -> PathPort!Ports(Paths)]
      OBVIOUS
    <2>4. StepsTyped'
      BY DEF StepsTyped, worker
    <2> QED
      BY <1>0, <2>1, <2>2, <2>3, <2>4
  <1>2. Latest' = Latest /\ \A i \in Chan : ToRoute(i)' = ToRoute(i)
    BY DEF Latest, ToRoute, samples
  <1>3. WorkerKnown'
    BY <1>0 DEF WorkerKnown, confIdle, worker, ExecTyped, StepsTyped
  <1>4. RequestKept'
    BY <1>0 DEF RequestKept, files, user, ExecTyped
  <1>5. SampleKept'
    BY <1>0, <1>2, Indices DEF SampleKept, ToRender, confIdle, samples, request, files, worker, ExecTyped
  <1>6. RouteKept'
    BY <1>0, <1>2, Indices DEF RouteKept, IsRouted, RoutedTo, confIdle, confCompleted, convs, request, worker, ExecTyped
  <1> QED
    BY <1>0, <1>1, <1>3, <1>4, <1>5, <1>6

\* The loader of a file starts.
LEMMA LoadStartInv ==
  ASSUME IInv, NEW i \in Chan, LoadStart(i)
  PROVE  IInv'
  <1> USE Indices DEF IInv, TypeOK, LoadStart, Loader, Configurator
  <1>0. ExecTyped' /\ OrderKnown' /\ state[i] = "submitted" /\ (\A u \in Tasks : state[u] # "running") /\ state' = [state EXCEPT ![i] = "running"] /\ code' = code
    BY StartStep
  <1>1. TypeOK'
    <2>1. UserTyped' /\ RequestTyped' /\ SamplesTyped' /\ ViewTyped' /\ ConvsTyped'
      BY DEF UserTyped, RequestTyped, SamplesTyped, ViewTyped, ConvsTyped, user, request, samples, view, convs
    <2>2. FilesTyped'
      BY DEF FilesTyped, FileOrNull
    <2>3. port' \in [Chan -> PathPort!Ports(Paths)]
      OBVIOUS
    <2>4. StepsTyped'
      BY Indices DEF StepsTyped
    <2> QED
      BY <1>0, <2>1, <2>2, <2>3, <2>4
  <1>2. Latest' = Latest /\ \A k \in Chan : ToRoute(k)' = ToRoute(k)
    BY DEF Latest, ToRoute, samples
  <1>3. WorkerKnown'
    BY <1>0 DEF WorkerKnown, confIdle, worker, ExecTyped, StepsTyped
  <1>4. RequestKept'
    BY <1>0 DEF RequestKept, files, user, ExecTyped
  <1>5. SampleKept'
    BY <1>0, <1>2, Indices DEF SampleKept, ToRender, confIdle, samples, request, files, worker, ExecTyped
  <1>6. RouteKept'
    BY <1>0, <1>2, Indices DEF RouteKept, IsRouted, RoutedTo, confIdle, confCompleted, convs, request, worker, ExecTyped
  <1> QED
    BY <1>0, <1>1, <1>3, <1>4, <1>5, <1>6

\* The loader leaves the file of the path it has read, or its error.
LEMMA LoadEndInv ==
  ASSUME IInv, LoadEnd
  PROVE  IInv'
  <1> USE Indices DEF IInv, TypeOK, LoadEnd, Loader, Configurator
  <1>w. wi \in Chan
    BY DEF WorkerKnown
  <1>0. /\ ExecTyped' /\ OrderKnown' /\ state[wi] = "running"
        /\ state' = [state EXCEPT ![wi] = "completed"]
        /\ \A u \in Tasks : u # wi => code'[u] = code[u]
    BY <1>w, CompleteStep
  <1>p. /\ port[wi].sPath \in Paths
        /\ code'[wi] = LoadCode(port[wi].sPath)
    BY <1>w DEF PathPort!Ports
  <1>1. TypeOK'
    <2>1. UserTyped' /\ RequestTyped' /\ SamplesTyped' /\ ViewTyped' /\ ConvsTyped'
      BY DEF UserTyped, RequestTyped, SamplesTyped, ViewTyped, ConvsTyped, user, request, samples, view, convs
    <2>2. FilesTyped'
      BY <1>w, <1>p, LoadTypes DEF FilesTyped
    <2>3. port' \in [Chan -> PathPort!Ports(Paths)]
      OBVIOUS
    <2>4. StepsTyped'
      BY DEF StepsTyped, worker
    <2> QED
      BY <1>0, <2>1, <2>2, <2>3, <2>4
  <1>2. Latest' = Latest /\ \A i \in Chan : ToRoute(i)' = ToRoute(i)
    BY DEF Latest, ToRoute, samples
  <1>3. WorkerKnown'
    BY <1>0, <1>w DEF WorkerKnown, confIdle, ExecTyped, StepsTyped
  <1>4. RequestKept'
    <2> SUFFICES ASSUME NEW j \in Chan
                 PROVE  /\ state'[j] # "idle" <=> state[j] # "idle"
                        /\ state'[j] = "completed" =>
                             pSwap'[j] = Loaded(port[j].sPath) /\ code'[j] = LoadCode(port[j].sPath)
      BY DEF RequestKept, user
    <2>1. CASE j = wi
      BY <1>0, <1>w, <1>p, <2>1 DEF FilesTyped, ExecTyped
    <2>2. CASE j # wi
      BY <1>0, <1>w, <2>2 DEF RequestKept, FilesTyped, ExecTyped
    <2> QED
      BY <2>1, <2>2
  <1>5. SampleKept'
    BY <1>0, <1>w, <1>2, Indices DEF SampleKept, ToRender, confIdle, samples, request, worker, ExecTyped
  <1>6. RouteKept'
    BY <1>0, <1>w, <1>2, Indices DEF RouteKept, IsRouted, RoutedTo, confIdle, confCompleted, convs, request, ExecTyped
  <1> QED
    BY <1>0, <1>1, <1>3, <1>4, <1>5, <1>6

\* The configurator starts with what process() gave it.
LEMMA ConfStartInv ==
  ASSUME IInv, ConfStart
  PROVE  IInv'
  <1> USE Indices DEF IInv, TypeOK, ConfStart, Loader, Configurator
  <1>0. ExecTyped' /\ OrderKnown' /\ state[0] = "submitted" /\ (\A u \in Tasks : state[u] # "running") /\ state' = [state EXCEPT ![0] = "running"] /\ code' = code
    BY StartStep
  <1>1. TypeOK'
    <2>1. UserTyped' /\ RequestTyped' /\ FilesTyped' /\ SamplesTyped' /\ ViewTyped' /\ ConvsTyped'
      BY DEF UserTyped, RequestTyped, FilesTyped, SamplesTyped, ViewTyped, ConvsTyped, user, request, files, samples, view, convs
    <2>2. port' \in [Chan -> PathPort!Ports(Paths)]
      OBVIOUS
    <2>3. StepsTyped'
      BY DEF StepsTyped, worker
    <2> QED
      BY <1>0, <2>1, <2>2, <2>3
  <1>2. Latest' = Latest /\ \A i \in Chan : ToRoute(i)' = ToRoute(i)
    BY DEF Latest, ToRoute, samples
  <1>3. WorkerKnown'
    BY <1>0 DEF WorkerKnown, confIdle, worker, ExecTyped, StepsTyped
  <1>4. RequestKept'
    BY <1>0 DEF RequestKept, files, user, ExecTyped
  <1>5. SampleKept'
    BY <1>0, <1>2, Indices DEF SampleKept, ToRender, confIdle, samples, request, files, worker, ExecTyped
  <1>6. RouteKept'
    BY <1>0, <1>2, Indices DEF RouteKept, IsRouted, RoutedTo, confIdle, confCompleted, convs, request, worker, ExecTyped
  <1> QED
    BY <1>0, <1>1, <1>3, <1>4, <1>5, <1>6

\* The configurator skips a file that is not marked.
LEMMA RenderSkipInv ==
  ASSUME IInv, RenderSkip
  PROVE  IInv'
  <1> USE Indices DEF IInv, TypeOK, RenderSkip, Loader, Configurator
  <1>0. ExecTyped' /\ OrderKnown' /\ state' = state /\ code' = code
    BY ExecStutters
  <1>w. wi \in Chan /\ state[0] = "running"
    BY DEF WorkerKnown
  <1>t. \A j \in Chan : (ToRender(j) <=> j >= wi) /\ (ToRender(j)' <=> j > wi)
    BY <1>0, <1>w, Indices DEF ToRender, AfterRender
  <1>1. TypeOK'
    <2>1. UserTyped' /\ RequestTyped' /\ FilesTyped' /\ SamplesTyped' /\ ViewTyped' /\ ConvsTyped'
      BY DEF UserTyped, RequestTyped, FilesTyped, SamplesTyped, ViewTyped, ConvsTyped, user, request, files, samples, view, convs
    <2>2. port' \in [Chan -> PathPort!Ports(Paths)]
      OBVIOUS
    <2>3. StepsTyped'
      BY <1>w DEF StepsTyped, AfterRender
    <2> QED
      BY <1>0, <2>1, <2>2, <2>3
  <1>2. Latest' = Latest /\ \A i \in Chan : ToRoute(i)' = ToRoute(i)
    BY DEF Latest, ToRoute, samples
  <1>3. WorkerKnown'
    BY <1>0, <1>w, Indices DEF WorkerKnown, confIdle, AfterRender, ExecTyped
  <1>4. RequestKept'
    BY <1>0 DEF RequestKept, files, user, ExecTyped
  <1>5. SampleKept'
    BY <1>0, <1>w, <1>t, <1>2, Indices DEF SampleKept, confIdle, samples, request, files
  <1>6. RouteKept'
    BY <1>0, <1>w, <1>2, Indices DEF RouteKept, IsRouted, RoutedTo, confIdle, confCompleted, convs, request, AfterRender
  <1> QED
    BY <1>0, <1>1, <1>3, <1>4, <1>5, <1>6

\* The configurator renders the current file with the cuts in force.
LEMMA RenderInv ==
  ASSUME IInv, Render
  PROVE  IInv'
  <1> USE Indices DEF IInv, TypeOK, Render, Loader, Configurator
  <1>0. ExecTyped' /\ OrderKnown' /\ state' = state /\ code' = code
    BY ExecStutters
  <1>w. wi \in Chan /\ state[0] = "running"
    BY DEF WorkerKnown
  <1>t. \A j \in Chan : (ToRender(j) <=> j >= wi) /\ (ToRender(j)' <=> j > wi)
    BY <1>0, <1>w, Indices DEF ToRender, AfterRender
  <1>s. /\ Rendered(pCurr[wi], fCut[wi]) \in SampleOrNull
        /\ Thumbs(Rendered(pCurr[wi], fCut[wi]), fNorm[wi]) \in ThumbsOrNull
    BY <1>w, RenderTypes DEF FilesTyped, RequestTyped
  <1>1. TypeOK'
    <2>1. UserTyped' /\ RequestTyped' /\ FilesTyped' /\ ConvsTyped'
      BY DEF UserTyped, RequestTyped, FilesTyped, ConvsTyped, user, request, files, convs
    <2>2. SamplesTyped'
      BY <1>s DEF SamplesTyped
    <2>3. ViewTyped'
      BY <1>s, <1>w DEF ViewTyped
    <2>4. port' \in [Chan -> PathPort!Ports(Paths)]
      OBVIOUS
    <2>5. StepsTyped'
      BY <1>w DEF StepsTyped, AfterRender
    <2> QED
      BY <1>0, <2>1, <2>2, <2>3, <2>4, <2>5
  <1>3. WorkerKnown'
    BY <1>0, <1>w, Indices DEF WorkerKnown, confIdle, AfterRender, ExecTyped
  <1>4. RequestKept'
    BY <1>0 DEF RequestKept, files, user, ExecTyped
  <1>5. SampleKept'
    <2>1. ASSUME NEW j \in Chan
          PROVE  /\ j = wi => ToRoute(j)' = Rendered(pCurr[j], fCut[j])
                 /\ j # wi => bSwap'[j] = bSwap[j] /\ ToRoute(j)' = ToRoute(j)
      BY <1>w DEF ToRoute, SamplesTyped
    <2>2. ASSUME NEW j \in Chan, j = wi
          PROVE  /\ sPlayer[j] = pCurrSample[j] /\ (bRender[j] => bReconfig)
                 /\ ~ ToRender(j)' /\ ToRoute(j)' = Rendered(pCurr[j], fCut[j])
      <3>1. ~ ToRender(j)'
        BY <2>2, <1>t, Indices
      <3> QED
        BY <2>1, <2>2, <3>1 DEF SampleKept
    <2>3. ASSUME NEW j \in Chan, j # wi
          PROVE  /\ sPlayer[j] = pCurrSample[j] /\ (bRender[j] => bReconfig)
                 /\ ToRender(j)' => ~ bSwap'[j]
                 /\ \/ bRender[j] \/ j \in spoilt'
                    \/ ToRender(j)' /\ sReconfig[j].render
                    \/ ToRoute(j)' = Rendered(pCurr[j], fCut[j])
      <3>1. ToRender(j)' <=> ToRender(j)
        BY <2>3, <1>t, <1>w, Indices
      <3> QED
        BY <2>1, <2>3, <3>1 DEF SampleKept
    <2> QED
      BY <1>0, <1>w, <2>2, <2>3 DEF SampleKept, confIdle, request, files
  <1>6. RouteKept'
    BY <1>0, <1>w, Indices DEF RouteKept, IsRouted, confIdle, confCompleted, convs, request, AfterRender
  <1> QED
    BY <1>0, <1>1, <1>3, <1>4, <1>5, <1>6

\* An allocation fails while a file is rendered: the task ends with its error.
LEMMA RenderFailInv ==
  ASSUME IInv, RenderFail
  PROVE  IInv'
  <1> USE Indices DEF IInv, TypeOK, RenderFail, Loader, Configurator
  <1>0. ExecTyped' /\ OrderKnown' /\ state' = state /\ code' = code
    BY ExecStutters
  <1>w. wi \in Chan /\ state[0] = "running"
    BY DEF WorkerKnown
  <1>1. TypeOK'
    <2>1. UserTyped' /\ RequestTyped' /\ FilesTyped' /\ ViewTyped' /\ ConvsTyped'
      BY DEF UserTyped, RequestTyped, FilesTyped, ViewTyped, ConvsTyped, user, request, files, view, convs
    <2>2. SamplesTyped'
      BY DEF SamplesTyped, SampleOrNull
    <2>3. port' \in [Chan -> PathPort!Ports(Paths)]
      OBVIOUS
    <2>4. StepsTyped'
      <3>1. \A j \in wi..nChannels : j \in Chan
        BY <1>w DEF Chan
      <3> QED
        BY <3>1, Indices DEF StepsTyped
    <2> QED
      BY <1>0, <2>1, <2>2, <2>3, <2>4
  <1>3. WorkerKnown'
    BY <1>0, <1>w, Indices DEF WorkerKnown, confIdle, ExecTyped
  <1>4. RequestKept'
    BY <1>0 DEF RequestKept, files, user, ExecTyped
  <1>5. SampleKept'
    <2> SUFFICES ASSUME NEW j \in Chan
                 PROVE  /\ ~ ToRender(j)' /\ sPlayer[j] = pCurrSample[j] /\ (bRender[j] => bReconfig)
                        /\ \/ bRender[j] \/ j \in spoilt'
                           \/ ToRoute(j)' = Rendered(pCurr[j], fCut[j])
      BY <1>0, <1>w DEF SampleKept, confIdle, request, files
    <2>1. ToRender(j) => j >= wi
      BY <1>w DEF ToRender
    <2>2. j # wi => ToRoute(j)' = ToRoute(j)
      BY DEF ToRoute, SamplesTyped
    <2>3. j >= wi /\ sReconfig[j].render => j \in spoilt'
      BY <1>w, Indices
    <2>4. ~ ToRender(j)'
      BY <1>0, <1>w DEF ToRender
    <2>5. j = wi => j \in spoilt'
      BY <2>3, <1>w, Indices
    <2> QED
      BY <2>1, <2>2, <2>3, <2>4, <2>5 DEF SampleKept
  <1>6. RouteKept'
    BY <1>0, <1>w DEF RouteKept, confIdle, request, convs
  <1> QED
    BY <1>0, <1>1, <1>3, <1>4, <1>5, <1>6

\* The configurator makes a convolver of the sample rendered last.
LEMMA RouteInv ==
  ASSUME IInv, Route
  PROVE  IInv'
  <1> USE Indices DEF IInv, TypeOK, Route, Loader, Configurator
  <1>0. ExecTyped' /\ OrderKnown' /\ state' = state /\ code' = code
    BY ExecStutters
  <1>w. wi \in Chan /\ state[0] = "running"
    BY DEF WorkerKnown
  <1>r. RoutedTo(wi) \in ConvOrNull
    BY RouteTypes, LatestTypes DEF RoutedTo, RequestTyped
  <1>1. TypeOK'
    <2>1. UserTyped' /\ RequestTyped' /\ FilesTyped' /\ SamplesTyped' /\ ViewTyped'
      BY DEF UserTyped, RequestTyped, FilesTyped, SamplesTyped, ViewTyped, user, request, files, samples, view
    <2>2. ConvsTyped'
      BY <1>r DEF ConvsTyped
    <2>3. port' \in [Chan -> PathPort!Ports(Paths)]
      OBVIOUS
    <2>4. StepsTyped'
      BY Indices DEF StepsTyped
    <2> QED
      BY <1>0, <2>1, <2>2, <2>3, <2>4
  <1>2. Latest' = Latest /\ \A i \in Chan : ToRoute(i)' = ToRoute(i)
    BY DEF Latest, ToRoute, samples
  <1>3. WorkerKnown'
    BY <1>0 DEF WorkerKnown, confIdle, worker, ExecTyped, StepsTyped
  <1>4. RequestKept'
    BY <1>0 DEF RequestKept, files, user, ExecTyped
  <1>5. SampleKept'
    BY <1>0, <1>2, Indices DEF SampleKept, ToRender, confIdle, samples, request, files, worker, ExecTyped
  <1>6. RouteKept'
    <2> SUFFICES ASSUME NEW c \in Chan
                 PROVE  IsRouted(c)' => c \in unrouted' \/ pSwapConv'[c] = RoutedTo(c)
      BY <1>0, <1>w, <1>2 DEF RouteKept, RoutedTo, confIdle, request
    <2>1. CASE c = wi
      BY <2>1 DEF ConvsTyped
    <2>2. CASE c # wi
      <3>1. IsRouted(c)' => IsRouted(c)
        BY <1>0, <2>2, Indices DEF IsRouted, confCompleted
      <3> QED
        BY <2>2, <3>1 DEF RouteKept, ConvsTyped
    <2> QED
      BY <2>1, <2>2
  <1> QED
    BY <1>0, <1>1, <1>3, <1>4, <1>5, <1>6

\* An allocation fails while a convolver is made: the task ends with its error.
LEMMA RouteFailInv ==
  ASSUME IInv, RouteFail
  PROVE  IInv'
  <1> USE Indices DEF IInv, TypeOK, RouteFail, Loader, Configurator
  <1>0. ExecTyped' /\ OrderKnown' /\ state' = state /\ code' = code
    BY ExecStutters
  <1>w. wi \in Chan /\ state[0] = "running"
    BY DEF WorkerKnown
  <1>r. RoutedTo(wi) \in ConvOrNull
    BY RouteTypes, LatestTypes DEF RoutedTo, RequestTyped
  <1>1. TypeOK'
    <2>1. UserTyped' /\ RequestTyped' /\ FilesTyped' /\ SamplesTyped' /\ ViewTyped'
      BY DEF UserTyped, RequestTyped, FilesTyped, SamplesTyped, ViewTyped, user, request, files, samples, view
    <2>2. ConvsTyped'
      BY DEF ConvsTyped, ConvOrNull
    <2>3. port' \in [Chan -> PathPort!Ports(Paths)]
      OBVIOUS
    <2>4. StepsTyped'
      <3>1. unrouted' \subseteq Chan
        <4>1. unrouted \subseteq Chan /\ unrouted' = unrouted \cup (wi..nChannels)
          BY DEF StepsTyped
        <4>2. \A j \in wi..nChannels : j \in Chan
          BY DEF Chan
        <4> QED
          BY <4>1, <4>2
      <3>2. fails' \in Nat
        BY DEF StepsTyped
      <3> QED
        BY <3>1, <3>2, Indices DEF StepsTyped
    <2> QED
      BY <1>0, <2>1, <2>2, <2>3, <2>4
  <1>2. Latest' = Latest /\ \A i \in Chan : ToRoute(i)' = ToRoute(i)
    BY DEF Latest, ToRoute, samples
  <1>3. WorkerKnown'
    BY <1>0 DEF WorkerKnown, confIdle, worker, ExecTyped, StepsTyped
  <1>4. RequestKept'
    BY <1>0 DEF RequestKept, files, user, ExecTyped
  <1>5. SampleKept'
    BY <1>0, <1>2, Indices DEF SampleKept, ToRender, confIdle, samples, request, files, worker, ExecTyped
  <1>6. RouteKept'
    <2> SUFFICES ASSUME NEW c \in Chan
                 PROVE  c \in unrouted' \/ pSwapConv'[c] = RoutedTo(c)
      BY <1>0, <1>w, <1>2 DEF RouteKept, RoutedTo, confIdle, request
    <2>1. CASE c >= wi
      BY <2>1, Indices
    <2>2. CASE c < wi
      BY <2>2, Indices DEF RouteKept, IsRouted, ConvsTyped
    <2> QED
      BY <2>1, <2>2, Indices
  <1> QED
    BY <1>0, <1>1, <1>3, <1>4, <1>5, <1>6

\* The configurator completes.
LEMMA ConfEndInv ==
  ASSUME IInv, ConfEnd
  PROVE  IInv'
  <1> USE Indices DEF IInv, TypeOK, ConfEnd, Loader, Configurator
  <1>0. ExecTyped' /\ OrderKnown' /\ state[0] = "running" /\ state' = [state EXCEPT ![0] = "completed"] /\ \A u \in Chan : code'[u] = code[u]
    BY CompleteStep
  <1>1. TypeOK'
    <2>1. UserTyped' /\ RequestTyped' /\ FilesTyped' /\ SamplesTyped' /\ ViewTyped' /\ ConvsTyped'
      BY DEF UserTyped, RequestTyped, FilesTyped, SamplesTyped, ViewTyped, ConvsTyped, user, request, files, samples, view, convs
    <2>2. port' \in [Chan -> PathPort!Ports(Paths)]
      OBVIOUS
    <2>3. StepsTyped'
      BY DEF StepsTyped, worker
    <2> QED
      BY <1>0, <2>1, <2>2, <2>3
  <1>2. Latest' = Latest /\ \A i \in Chan : ToRoute(i)' = ToRoute(i)
    BY DEF Latest, ToRoute, samples
  <1>3. WorkerKnown'
    BY <1>0 DEF WorkerKnown, confIdle, worker, ExecTyped, StepsTyped
  <1>4. RequestKept'
    BY <1>0 DEF RequestKept, files, user, ExecTyped
  <1>5. SampleKept'
    BY <1>0, <1>2, Indices DEF SampleKept, ToRender, confIdle, samples, request, files, worker, ExecTyped
  <1>6. RouteKept'
    <2>1. \A c \in Chan : IsRouted(c)
      BY ImpulseAssumption DEF IsRouted, StepsTyped, Chan, ImpulseAssumption
    <2> QED
      BY <1>0, <1>2, <2>1, Indices DEF RouteKept, RoutedTo, confIdle, request, convs, ExecTyped
  <1> QED
    BY <1>0, <1>1, <1>3, <1>4, <1>5, <1>6

\* At the beginning nothing is asked for and nothing runs.
LEMMA InitIInv == ASSUME Init PROVE IInv
  <1> USE ImpulseAssumption DEF Init, Executor!Init
  <1>1. TypeOK
    <2>1. port \in [Chan -> PathPort!Ports(Paths)]
      BY DEF PathPort!NewPort, PathPort!Ports, PathPort!Kinds, ImpulseAssumption
    <2>2. /\ source \in [Chan -> Sources] /\ nSourceReq \in [Chan -> Sources]
          /\ sReconfig \in [Chan -> [render : BOOLEAN, source : Sources]]
      BY DEF ImpulseAssumption, Sources, Chan
    <2>3. /\ state \in [Tasks -> {"idle", "submitted", "running", "completed"}]
          /\ code \in [Tasks -> Codes \cup {NULL}]
          /\ order \in Seq(Tasks) /\ phase = "open"
      OBVIOUS
    <2> QED
      BY <2>1, <2>2, <2>3, Indices
      DEF TypeOK, ExecTyped, UserTyped, RequestTyped, FilesTyped, SamplesTyped, ViewTyped,
          ConvsTyped, StepsTyped, Codes, FileOrNull, SampleOrNull, ConvOrNull, ThumbsOrNull,
          ImpulseAssumption
  <1>o. OrderKnown
    BY DEF OrderKnown
  <1>2. WorkerKnown
    BY Indices DEF WorkerKnown, Loader, Configurator, confIdle
  <1>3. RequestKept
    BY Indices DEF RequestKept, PathPort!NewPort, Loader, Loaded, LoadCode, ImpulseAssumption
  <1>4. SampleKept
    BY Indices DEF SampleKept, ToRender, ToRoute, Rendered, Configurator
  <1>5. RouteKept
    BY Indices DEF RouteKept, IsRouted, confIdle, confCompleted, Configurator
  <1> QED
    BY <1>1, <1>o, <1>2, <1>3, <1>4, <1>5 DEF IInv

\* Every step keeps the invariant.
LEMMA NextIInv == ASSUME IInv, [Next]_vars PROVE IInv'
  <1>1. CASE Audio
    BY <1>1, PreProcessInv, SettingsInv, ProcessSubmitInv, ProcessFileInv, ProcessApplyInv,
       ProcessNothingInv, ProcessOutputInv DEF Audio
  <1>2. CASE Run
    BY <1>2, LoadStartInv, LoadEndInv, ConfStartInv, RenderSkipInv, RenderInv, RenderFailInv,
       RouteInv, RouteFailInv, ConfEndInv DEF Run
  <1>3. CASE User
    BY <1>3, AskBeginInv, AskEndInv, TurnInv, TakeMeshInv, UiActivatedInv DEF User
  <1>4. CASE UNCHANGED vars
    <2> USE <1>4 DEF IInv, vars
    <2>1. TypeOK' /\ OrderKnown'
      BY DEF TypeOK, OrderKnown, ExecTyped, UserTyped, RequestTyped, FilesTyped, SamplesTyped,
             ViewTyped, ConvsTyped, StepsTyped, exec, user, request, files, samples, view, convs,
             worker
    <2>2. Latest' = Latest /\ \A i \in Chan : ToRoute(i)' = ToRoute(i)
      BY DEF Latest, ToRoute, samples
    <2>3. WorkerKnown' /\ RequestKept'
      BY DEF WorkerKnown, RequestKept, confIdle, exec, user, files, worker
    <2>4. SampleKept'
      BY <2>2 DEF SampleKept, ToRender, confIdle, exec, request, files, samples, worker
    <2>5. RouteKept'
      BY <2>2 DEF RouteKept, RoutedTo, IsRouted, confIdle, confCompleted, exec, request, convs,
                  worker
    <2> QED
      BY <2>1, <2>3, <2>4, <2>5
  <1> QED
    BY <1>1, <1>2, <1>3, <1>4 DEF Next

\* All of it holds in every reachable state.
LEMMA Invariant == Spec => []IInv
  BY InitIInv, NextIInv, PTL DEF Spec

\* Every variable of the plugin keeps its range (impulse_responses.h:45-119).
THEOREM TypeCorrect == Spec => []TypeOK
  BY Invariant, PTL DEF IInv

\* At rest, the invariant leaves nothing but what the user asked for last.
LEMMA QuietHearsInv == ASSUME IInv PROVE QuietHears
  <1> SUFFICES ASSUME Quiet PROVE QuietHears
    BY DEF QuietHears
  <1> USE DEF IInv, Quiet, ConfDone, confIdle
  <1>1. ASSUME NEW i \in Chan
        PROVE  /\ pCurr[i] = Loaded(asked[i]) /\ nStatus[i] = LoadCode(asked[i])
               /\ ToRoute(i) = pCurrSample[i]
               /\ i \notin spoilt => pCurrSample[i] = Wanted(i) /\ sPlayer[i] = Wanted(i)
    <2>1. pCurr[i] = Loaded(asked[i]) /\ nStatus[i] = LoadCode(asked[i])
      BY <1>1 DEF FileDone, RequestKept
    <2>2. ~ ToRender(i)
      BY <1>1 DEF ToRender, WorkerKnown
    <2>3. ~ bSwap[i] /\ ~ bRender[i]
      BY <1>1 DEF SampleKept
    <2> QED
      BY <1>1, <2>1, <2>2, <2>3 DEF SampleKept, ToRoute, Wanted
  <1>2. Latest = pCurrSample
    BY <1>1 DEF Latest, TypeOK, SamplesTyped
  <1>3. ASSUME NEW c \in Chan \ unrouted
        PROVE  pCurrConv[c] = Routed(source[c], pCurrSample)
    BY <1>2, <1>3 DEF RouteKept
  <1> QED
    BY <1>1, <1>3 DEF QuietHears

\* No request is lost: at rest the plugin plays and convolves with the file, the
\* cuts and the source that were asked for last (impulse_responses.cpp:497-504,
\* 570-645), for every number of channels and any failing allocations.
THEOREM NoRequestLost == Spec => []QuietHears
  BY Invariant, QuietHearsInv, PTL

\* Nothing that a running task works on is exchanged by the audio thread
\* (impulse_responses.cpp:570-645).
THEOREM NothingDisturbed == Spec => Undisturbed
  <1>1. ASSUME IInv, [Next]_vars
        PROVE  [/\ wpc = "load" => pCurr'[wi] = pCurr[wi]
                /\ wpc \in {"render", "route", "nomem"} =>
                     UNCHANGED <<pCurr, pSwap, pCurrSample, pCurrConv, sPlayer>>]_vars
    <2> USE <1>1 DEF IInv, files, samples, convs
    <2>1. CASE Audio
      <3>1. ASSUME NEW i \in Chan, ProcessFile(i)
            PROVE  /\ wpc = "load" => pCurr'[wi] = pCurr[wi]
                   /\ wpc \notin {"render", "route", "nomem"}
        <4>1. confIdle /\ wpc \notin {"render", "route", "nomem"}
          BY <3>1 DEF ProcessFile, FilesTurn, confIdle, WorkerKnown
        <4>2. wpc = "load" => wi \in Chan /\ state[wi] = "running"
          BY DEF WorkerKnown, Loader
        <4>3. wpc = "load" /\ pCurr' # pCurr => wi # i /\ pCurr' = [pCurr EXCEPT ![i] = pSwap[i]]
          BY <3>1, <4>2 DEF ProcessFile, Loader
        <4> QED
          BY <4>1, <4>2, <4>3 DEF TypeOK, FilesTyped
      <3>2. ASSUME ProcessApply
            PROVE  pCurr' = pCurr /\ wpc \notin {"render", "route", "nomem"}
        BY <3>2 DEF ProcessApply, confCompleted, WorkerKnown
      <3> QED
        BY <2>1, <3>1, <3>2
        DEF Audio, PreProcess, Settings, ProcessSubmit, ProcessNothing, ProcessOutput
    <2>2. CASE Run
      BY <2>2 DEF Run, LoadStart, LoadEnd, ConfStart, RenderSkip, Render, RenderFail, Route,
                  RouteFail, ConfEnd
    <2>3. CASE User
      BY <2>3 DEF User, AskBegin, AskEnd, Turn, TakeMesh, UiActivated
    <2>4. CASE UNCHANGED vars
      BY <2>4
    <2> QED
      BY <1>1, <2>1, <2>2, <2>3, <2>4 DEF Next
  <1> QED
    BY <1>1, Invariant, PTL DEF Spec, Undisturbed

\* The file that fNorm was taken of, the thumbnails and the mesh belong together
\* after every step.
LEMMA NextView == ASSUME IInv, ViewInv, [Next]_vars PROVE ViewInv'
  <1> USE Indices DEF IInv, ViewInv, TypeOK, exec, request, files, samples, view, worker
  <1>1. ASSUME NEW i \in Chan, AskBegin(i) PROVE ViewInv'
    <2>1. NormKept'
      BY <1>1 DEF AskBegin, NormKept, Loader, Configurator, ExecTyped, FilesTyped, WorkerKnown
    <2>2. ThumbsKept'
      BY <1>1 DEF AskBegin, ThumbsKept, Due, ToRender, ToRoute, Loader, Configurator, ExecTyped, FilesTyped, RequestTyped, SamplesTyped, ViewTyped, WorkerKnown, StepsTyped
    <2>3. MeshKept'
      BY <1>1 DEF AskBegin, MeshKept, confIdle, Configurator, ExecTyped, SamplesTyped, ViewTyped, WorkerKnown
    <2> QED
      BY <2>1, <2>2, <2>3
  <1>2. ASSUME NEW i \in Chan, AskEnd(i) PROVE ViewInv'
    <2>1. NormKept'
      BY <1>2 DEF AskEnd, NormKept, Loader, Configurator, ExecTyped, FilesTyped, WorkerKnown
    <2>2. ThumbsKept'
      BY <1>2 DEF AskEnd, ThumbsKept, Due, ToRender, ToRoute, Loader, Configurator, ExecTyped, FilesTyped, RequestTyped, SamplesTyped, ViewTyped, WorkerKnown, StepsTyped
    <2>3. MeshKept'
      BY <1>2 DEF AskEnd, MeshKept, confIdle, Configurator, ExecTyped, SamplesTyped, ViewTyped, WorkerKnown
    <2> QED
      BY <2>1, <2>2, <2>3
  <1>3. ASSUME NEW i \in Chan, Turn(i) PROVE ViewInv'
    <2>1. NormKept'
      BY <1>3 DEF Turn, NormKept, Loader, Configurator, ExecTyped, FilesTyped, WorkerKnown
    <2>2. ThumbsKept'
      BY <1>3 DEF Turn, ThumbsKept, Due, ToRender, ToRoute, Loader, Configurator, ExecTyped, FilesTyped, RequestTyped, SamplesTyped, ViewTyped, WorkerKnown, StepsTyped
    <2>3. MeshKept'
      BY <1>3 DEF Turn, MeshKept, confIdle, Configurator, ExecTyped, SamplesTyped, ViewTyped, WorkerKnown
    <2> QED
      BY <2>1, <2>2, <2>3
  <1>4. ASSUME NEW i \in Chan, TakeMesh(i) PROVE ViewInv'
    <2>1. NormKept'
      BY <1>4 DEF TakeMesh, NormKept, Loader, Configurator, ExecTyped, FilesTyped, WorkerKnown
    <2>2. ThumbsKept'
      BY <1>4 DEF TakeMesh, ThumbsKept, Due, ToRender, ToRoute, Loader, Configurator, ExecTyped, FilesTyped, RequestTyped, SamplesTyped, ViewTyped, WorkerKnown, StepsTyped
    <2>3. MeshKept'
      BY <1>4 DEF TakeMesh, MeshKept, confIdle, Configurator, ExecTyped, SamplesTyped, ViewTyped, WorkerKnown
    <2> QED
      BY <2>1, <2>2, <2>3
  <1>5. CASE UiActivated
    <2>1. NormKept'
      BY <1>5 DEF UiActivated, NormKept, Loader, Configurator, ExecTyped, FilesTyped, WorkerKnown
    <2>2. ThumbsKept'
      BY <1>5 DEF UiActivated, ThumbsKept, Due, ToRender, ToRoute, Loader, Configurator, ExecTyped, FilesTyped, RequestTyped, SamplesTyped, ViewTyped, WorkerKnown, StepsTyped
    <2>3. MeshKept'
      BY <1>5 DEF UiActivated, MeshKept, confIdle, Configurator, ExecTyped, SamplesTyped, ViewTyped, WorkerKnown
    <2> QED
      BY <2>1, <2>2, <2>3
  <1>6. CASE PreProcess
    <2>1. NormKept'
      BY <1>6 DEF PreProcess, NormKept, Loader, Configurator, ExecTyped, FilesTyped, WorkerKnown
    <2>2. ThumbsKept'
      BY <1>6 DEF PreProcess, ThumbsKept, Due, ToRender, ToRoute, Loader, Configurator, ExecTyped, FilesTyped, RequestTyped, SamplesTyped, ViewTyped, WorkerKnown, StepsTyped
    <2>3. MeshKept'
      BY <1>6 DEF PreProcess, MeshKept, confIdle, Configurator, ExecTyped, SamplesTyped, ViewTyped, WorkerKnown
    <2> QED
      BY <2>1, <2>2, <2>3
  <1>7. ASSUME NEW i \in Chan, Settings(i) PROVE ViewInv'
    <2>1. NormKept'
      BY <1>7 DEF Settings, Marked, Executor!Accept, NormKept, Loader, Configurator, ExecTyped, FilesTyped, WorkerKnown
    <2>2. ThumbsKept'
      BY <1>7 DEF Settings, Marked, Executor!Accept, ThumbsKept, Due, ToRender, ToRoute, Loader, Configurator, ExecTyped, FilesTyped, RequestTyped, SamplesTyped, ViewTyped, WorkerKnown, StepsTyped
    <2>3. MeshKept'
      BY <1>7 DEF Settings, Marked, Executor!Accept, MeshKept, confIdle, Configurator, ExecTyped, SamplesTyped, ViewTyped, WorkerKnown
    <2> QED
      BY <2>1, <2>2, <2>3
  <1>8. CASE ProcessSubmit
    <2>1. NormKept'
      BY <1>8 DEF ProcessSubmit, Executor!Accept, NormKept, Loader, Configurator, ExecTyped, FilesTyped, WorkerKnown
    <2>2. ThumbsKept'
      <3>1. ASSUME NEW k \in Chan PROVE /\ (Due(k) => Due(k)') /\ ToRoute(k)' = ToRoute(k)
                                        /\ state'[k] # "idle" \/ state'[k] = state[k]
        <4>1. ~ ToRender(k)
          BY <1>8 DEF ProcessSubmit, ToRender, WorkerKnown, confIdle, Configurator
        <4>2. CASE Executor!Accept(Configurator) /\ sReconfig'[k].render = bRender[k]
          BY <1>8, <4>1, <4>2 DEF ProcessSubmit, Executor!Accept, ExecTyped, Due, ToRender, ToRoute, Configurator
        <4>3. CASE UNCHANGED exec /\ bRender'[k] = bRender[k]
          BY <1>8, <4>1, <4>3 DEF ProcessSubmit, Due, ToRender, ToRoute
        <4> QED
          BY <1>8, <4>2, <4>3 DEF ProcessSubmit, RequestTyped
      <3> QED
        <4>1. pCurr' = pCurr /\ vThumbs' = vThumbs
          BY <1>8 DEF ProcessSubmit
        <4> SUFFICES ASSUME NEW k \in Chan
                     PROVE  \/ Due(k)' \/ state'[k] # "idle" \/ ToRoute(k)' = NULL
                            \/ vThumbs'[k] = Thumbs(ToRoute(k)', pCurr'[k])
          BY DEF ThumbsKept, Loader, Thumbs
        <4>2. /\ (Due(k) => Due(k)') /\ ToRoute(k)' = ToRoute(k)
              /\ state'[k] # "idle" \/ state'[k] = state[k]
          BY <3>1
        <4>3. \/ Due(k) \/ state[k] # "idle" \/ ToRoute(k) = NULL
              \/ vThumbs[k] = Thumbs(ToRoute(k), pCurr[k])
          BY DEF ThumbsKept, Loader
        <4> QED
          BY <4>1, <4>2, <4>3
    <2>3. MeshKept'
      BY <1>8 DEF ProcessSubmit, Executor!Accept, MeshKept, confIdle, Configurator, ExecTyped, SamplesTyped, ViewTyped, WorkerKnown
    <2> QED
      BY <2>1, <2>2, <2>3
  <1>9. ASSUME NEW i \in Chan, ProcessFile(i) PROVE ViewInv'
    <2>1. NormKept'
      BY <1>9 DEF ProcessFile, Executor!Reset, NormKept, Loader, Configurator, ExecTyped, FilesTyped, WorkerKnown
    <2>2. ThumbsKept'
      BY <1>9 DEF ProcessFile, Executor!Reset, ThumbsKept, Due, ToRender, ToRoute, Loader, Configurator, ExecTyped, FilesTyped, RequestTyped, SamplesTyped, ViewTyped, WorkerKnown, StepsTyped
    <2>3. MeshKept'
      BY <1>9 DEF ProcessFile, Executor!Reset, MeshKept, confIdle, Configurator, Loader, ExecTyped, SamplesTyped, ViewTyped, WorkerKnown
    <2> QED
      BY <2>1, <2>2, <2>3
  <1>10. CASE ProcessApply
    <2>1. NormKept'
      BY <1>10 DEF ProcessApply, Synced, confCompleted, Executor!Reset, NormKept, Loader, Configurator, ExecTyped, FilesTyped, WorkerKnown
    <2>2. ThumbsKept'
      BY <1>10 DEF ProcessApply, Synced, confCompleted, Executor!Reset, ThumbsKept, Due, ToRender, ToRoute, Loader, Configurator, ExecTyped, FilesTyped, RequestTyped, SamplesTyped, ViewTyped, WorkerKnown, StepsTyped
    <2>3. MeshKept'
      BY <1>10 DEF ProcessApply, Synced, confCompleted, Executor!Reset, MeshKept, confIdle, Configurator, ExecTyped, SamplesTyped, ViewTyped, WorkerKnown
    <2> QED
      BY <2>1, <2>2, <2>3
  <1>11. CASE ProcessNothing
    <2>1. NormKept'
      BY <1>11 DEF ProcessNothing, NormKept, Loader, Configurator, ExecTyped, FilesTyped, WorkerKnown
    <2>2. ThumbsKept'
      BY <1>11 DEF ProcessNothing, ThumbsKept, Due, ToRender, ToRoute, Loader, Configurator, ExecTyped, FilesTyped, RequestTyped, SamplesTyped, ViewTyped, WorkerKnown, StepsTyped
    <2>3. MeshKept'
      BY <1>11 DEF ProcessNothing, MeshKept, confIdle, Configurator, ExecTyped, SamplesTyped, ViewTyped, WorkerKnown
    <2> QED
      BY <2>1, <2>2, <2>3
  <1>12. CASE ProcessOutput
    <2>1. NormKept'
      BY <1>12 DEF ProcessOutput, Sent, NormKept, Loader, Configurator, ExecTyped, FilesTyped, WorkerKnown
    <2>2. ThumbsKept'
      BY <1>12 DEF ProcessOutput, Sent, ThumbsKept, Due, ToRender, ToRoute, Loader, Configurator, ExecTyped, FilesTyped, RequestTyped, SamplesTyped, ViewTyped, WorkerKnown, StepsTyped
    <2>3. MeshKept'
      BY <1>12 DEF ProcessOutput, Sent, MeshKept, confIdle, Configurator, ExecTyped, SamplesTyped, ViewTyped, WorkerKnown
    <2> QED
      BY <2>1, <2>2, <2>3
  <1>13. ASSUME NEW i \in Chan, LoadStart(i) PROVE ViewInv'
    <2>1. NormKept'
      BY <1>13 DEF LoadStart, Executor!Start, NormKept, Loader, Configurator, ExecTyped, FilesTyped, WorkerKnown
    <2>2. ThumbsKept'
      BY <1>13 DEF LoadStart, Executor!Start, ThumbsKept, Due, ToRender, ToRoute, Loader, Configurator, ExecTyped, FilesTyped, RequestTyped, SamplesTyped, ViewTyped, WorkerKnown, StepsTyped
    <2>3. MeshKept'
      BY <1>13 DEF LoadStart, Executor!Start, MeshKept, confIdle, Configurator, ExecTyped, SamplesTyped, ViewTyped, WorkerKnown
    <2> QED
      BY <2>1, <2>2, <2>3
  <1>14. CASE LoadEnd
    <2>1. NormKept'
      <3>1. wi \in Chan /\ state[wi] = "running"
        BY <1>14 DEF LoadEnd, WorkerKnown, Loader
      <3>2. /\ state' = [state EXCEPT ![wi] = "completed"] /\ pCurr' = pCurr
            /\ pSwap' = [pSwap EXCEPT ![wi] = Loaded(port[wi].sPath)]
            /\ fNorm' = [fNorm EXCEPT ![wi] = IF Loaded(port[wi].sPath) = NULL THEN @ ELSE port[wi].sPath]
        BY <1>14 DEF LoadEnd, Executor!Complete, Loader
      <3>3. port[wi].sPath \in Paths
        BY <3>1 DEF PathPort!Ports
      <3>4. Loaded(port[wi].sPath) # NULL => Loaded(port[wi].sPath) = port[wi].sPath
        BY <3>3, LoadTypes
      <3> QED
        BY <3>1, <3>2, <3>4 DEF NormKept, Loader, ExecTyped, FilesTyped
    <2>2. ThumbsKept'
      BY <1>14 DEF LoadEnd, Executor!Complete, ThumbsKept, Due, ToRender, ToRoute, Loader, Configurator, ExecTyped, FilesTyped, RequestTyped, SamplesTyped, ViewTyped, WorkerKnown, StepsTyped
    <2>3. MeshKept'
      BY <1>14 DEF LoadEnd, Executor!Complete, MeshKept, confIdle, Configurator, ExecTyped, SamplesTyped, ViewTyped, WorkerKnown
    <2> QED
      BY <2>1, <2>2, <2>3
  <1>15. CASE ConfStart
    <2>1. NormKept'
      BY <1>15 DEF ConfStart, Executor!Start, NormKept, Loader, Configurator, ExecTyped, FilesTyped, WorkerKnown
    <2>2. ThumbsKept'
      BY <1>15 DEF ConfStart, Executor!Start, ThumbsKept, Due, ToRender, ToRoute, Loader, Configurator, ExecTyped, FilesTyped, RequestTyped, SamplesTyped, ViewTyped, WorkerKnown, StepsTyped
    <2>3. MeshKept'
      BY <1>15 DEF ConfStart, Executor!Start, MeshKept, confIdle, Configurator, ExecTyped, SamplesTyped, ViewTyped, WorkerKnown
    <2> QED
      BY <2>1, <2>2, <2>3
  <1>16. CASE RenderSkip
    <2>1. NormKept'
      BY <1>16 DEF RenderSkip, AfterRender, NormKept, Loader, Configurator, ExecTyped, FilesTyped, WorkerKnown
    <2>2. ThumbsKept'
      BY <1>16 DEF RenderSkip, AfterRender, ThumbsKept, Due, ToRender, ToRoute, Loader, Configurator, ExecTyped, FilesTyped, RequestTyped, SamplesTyped, ViewTyped, WorkerKnown, StepsTyped
    <2>3. MeshKept'
      BY <1>16 DEF RenderSkip, AfterRender, MeshKept, confIdle, Configurator, ExecTyped, SamplesTyped, ViewTyped, WorkerKnown
    <2> QED
      BY <2>1, <2>2, <2>3
  <1>17. CASE Render
    <2>1. NormKept'
      BY <1>17 DEF Render, AfterRender, Rendered, Thumbs, NormKept, Loader, Configurator, ExecTyped, FilesTyped, WorkerKnown
    <2>2. ThumbsKept'
      <3>1. wi \in Chan /\ wpc = "render" /\ state[0] = "running" /\ state' = state /\ pCurr' = pCurr
        BY <1>17 DEF Render, WorkerKnown, Configurator
      <3>2. ASSUME NEW k \in Chan, k # wi
            PROVE  /\ (Due(k) => Due(k)') /\ ToRoute(k)' = ToRoute(k) /\ vThumbs'[k] = vThumbs[k]
        <4>1. ToRender(k) => ToRender(k)'
          BY <1>17, <3>1, <3>2 DEF Render, AfterRender, ToRender, Configurator, StepsTyped, Chan
        <4> QED
          BY <1>17, <3>1, <3>2, <4>1 DEF Render, Due, ToRoute, SamplesTyped, ViewTyped
      <3>w. PICK w \in Chan : w = wi
        BY <3>1
      <3>3. /\ ToRoute(w)' = Rendered(pCurr[w], fCut[w])
            /\ pCurr[w] # NULL => vThumbs'[w] = Thumbs(Rendered(pCurr[w], fCut[w]), fNorm[w])
            /\ pCurr[w] = NULL => Rendered(pCurr[w], fCut[w]) = NULL
        <4> DEFINE smp == Rendered(pCurr[w], fCut[w])
        <4>1. /\ pSwapSample' = [pSwapSample EXCEPT ![w] = smp] /\ bSwap' = [bSwap EXCEPT ![w] = TRUE]
              /\ vThumbs' = [vThumbs EXCEPT ![w] = IF pCurr[w] = NULL THEN @ ELSE Thumbs(smp, fNorm[w])]
          BY <1>17, <3>w DEF Render
        <4>2. pCurr[w] = NULL => smp = NULL
          BY DEF Rendered
        <4> HIDE DEF smp
        <4>3. pSwapSample'[w] = smp /\ bSwap'[w]
          BY <4>1 DEF SamplesTyped
        <4>4. pCurr[w] # NULL => vThumbs'[w] = Thumbs(smp, fNorm[w])
          BY <4>1 DEF ViewTyped
        <4>5. ToRoute(w)' = smp
          BY <4>3 DEF ToRoute
        <4> QED
          BY <4>2, <4>4, <4>5 DEF smp
      <3>4. state[wi] = "idle" /\ pCurr[wi] # NULL => fNorm[wi] = pCurr[wi]
        BY <3>1 DEF NormKept, Loader
      <3> QED
        <4> SUFFICES ASSUME NEW k \in Chan
                     PROVE  \/ Due(k)' \/ state'[k] # "idle" \/ ToRoute(k)' = NULL
                            \/ vThumbs'[k] = Thumbs(ToRoute(k)', pCurr'[k])
          BY DEF ThumbsKept, Loader, Thumbs
        <4>1. \/ Due(k) \/ state[k] # "idle" \/ ToRoute(k) = NULL
              \/ vThumbs[k] = Thumbs(ToRoute(k), pCurr[k])
          BY DEF ThumbsKept, Loader
        <4>2. CASE k = wi
          BY <3>1, <3>w, <3>3, <3>4, <4>2
        <4>3. CASE k # wi
          BY <3>1, <3>2, <4>1, <4>3
        <4> QED
          BY <4>2, <4>3
    <2>3. MeshKept'
      BY <1>17 DEF Render, AfterRender, Rendered, Thumbs, MeshKept, confIdle, Configurator, ExecTyped, SamplesTyped, ViewTyped, WorkerKnown
    <2> QED
      BY <2>1, <2>2, <2>3
  <1>18. CASE RenderFail
    <2>1. NormKept'
      BY <1>18 DEF RenderFail, NormKept, Loader, Configurator, ExecTyped, FilesTyped, WorkerKnown
    <2>2. ThumbsKept'
      BY <1>18 DEF RenderFail, ThumbsKept, Due, ToRender, ToRoute, Loader, Configurator, ExecTyped, FilesTyped, RequestTyped, SamplesTyped, ViewTyped, WorkerKnown, StepsTyped
    <2>3. MeshKept'
      BY <1>18 DEF RenderFail, MeshKept, confIdle, Configurator, ExecTyped, SamplesTyped, ViewTyped, WorkerKnown
    <2> QED
      BY <2>1, <2>2, <2>3
  <1>19. CASE Route
    <2>1. NormKept'
      BY <1>19 DEF Route, NormKept, Loader, Configurator, ExecTyped, FilesTyped, WorkerKnown
    <2>2. ThumbsKept'
      BY <1>19 DEF Route, ThumbsKept, Due, ToRender, ToRoute, Loader, Configurator, ExecTyped, FilesTyped, RequestTyped, SamplesTyped, ViewTyped, WorkerKnown, StepsTyped
    <2>3. MeshKept'
      BY <1>19 DEF Route, MeshKept, confIdle, Configurator, ExecTyped, SamplesTyped, ViewTyped, WorkerKnown
    <2> QED
      BY <2>1, <2>2, <2>3
  <1>20. CASE RouteFail
    <2>1. NormKept'
      BY <1>20 DEF RouteFail, NormKept, Loader, Configurator, ExecTyped, FilesTyped, WorkerKnown
    <2>2. ThumbsKept'
      BY <1>20 DEF RouteFail, ThumbsKept, Due, ToRender, ToRoute, Loader, Configurator, ExecTyped, FilesTyped, RequestTyped, SamplesTyped, ViewTyped, WorkerKnown, StepsTyped
    <2>3. MeshKept'
      BY <1>20 DEF RouteFail, MeshKept, confIdle, Configurator, ExecTyped, SamplesTyped, ViewTyped, WorkerKnown
    <2> QED
      BY <2>1, <2>2, <2>3
  <1>21. CASE ConfEnd
    <2>1. NormKept'
      BY <1>21 DEF ConfEnd, Executor!Complete, NormKept, Loader, Configurator, ExecTyped, FilesTyped, WorkerKnown
    <2>2. ThumbsKept'
      BY <1>21 DEF ConfEnd, Executor!Complete, ThumbsKept, Due, ToRender, ToRoute, Loader, Configurator, ExecTyped, FilesTyped, RequestTyped, SamplesTyped, ViewTyped, WorkerKnown, StepsTyped
    <2>3. MeshKept'
      BY <1>21 DEF ConfEnd, Executor!Complete, MeshKept, confIdle, Configurator, ExecTyped, SamplesTyped, ViewTyped, WorkerKnown
    <2> QED
      BY <2>1, <2>2, <2>3
  <1>22. CASE UNCHANGED vars
    BY <1>22 DEF vars, NormKept, Loader, Configurator, ThumbsKept, Due, ToRender, ToRoute, MeshKept, confIdle
  <1> QED
    BY <1>1, <1>2, <1>3, <1>4, <1>5, <1>6, <1>7, <1>8, <1>9, <1>10, <1>11,
       <1>12, <1>13, <1>14, <1>15, <1>16, <1>17, <1>18, <1>19, <1>20, <1>21, <1>22
    DEF Next, Audio, Run, User

\* What the UI was sent last is the file that is heard, normalised for itself
\* (impulse_responses.cpp:654, 740-754, 890-906), for every number of channels.
THEOREM ShowsWhatIsHeard == Spec => []QuietShows
  <1>1. ASSUME Init PROVE ViewInv
    BY <1>1, Indices DEF Init, Executor!Init, ViewInv, NormKept, ThumbsKept, MeshKept, ToRoute, Loader
  <1>2. ASSUME IInv, ViewInv PROVE QuietShows
    <2> SUFFICES ASSUME NEW i \in Chan, Quiet, ~ bSync[i], i \notin spoilt
                 PROVE  mesh[i] = Thumbs(Wanted(i), pCurr[i])
      BY DEF QuietShows
    <2>1. pCurrSample[i] = Wanted(i)
      BY <1>2, QuietHearsInv DEF QuietHears
    <2>2. confIdle /\ ~ bRender[i] /\ ~ ToRender(i) /\ ToRoute(i) = pCurrSample[i]
      BY <1>2 DEF IInv, Quiet, ConfDone, SampleKept, ToRoute, ToRender, WorkerKnown, confIdle
    <2>3. state[Loader(i)] = "idle"
      BY <1>2 DEF IInv, Quiet, FileDone, RequestKept
    <2>4. pCurrSample[i] # NULL => vThumbs[i] = Thumbs(pCurrSample[i], pCurr[i])
      BY <1>2, <2>2, <2>3 DEF ViewInv, ThumbsKept, Due
    <2> QED
      BY <1>2, <2>1, <2>2, <2>4 DEF ViewInv, MeshKept, Thumbs
  <1> QED
    BY <1>1, <1>2, Invariant, NextView, PTL DEF Spec
=============================================================================
