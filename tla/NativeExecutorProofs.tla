------------------------ MODULE NativeExecutorProofs ------------------------
(***************************************************************************)
(* The executor's invariants for any number of tasks, clients and codes.   *)
(***************************************************************************)
EXTENDS NativeExecutor, TLAPS

\* A client inside submit() holds a task of its own that nobody else changes.
ClientsInv ==
  \A c \in Clients : cpc[c] # "idle" =>
    /\ ctask[c] \in Tasks
    /\ Owner[ctask[c]] = c
    /\ cpc[c] \in {"lock", "mark"} => nState[ctask[c]] = "idle"
    /\ cpc[c] = "link" =>
         /\ nState[ctask[c]] = "submitted"
         /\ \A i \in 1..Len(accepted) : accepted[i] # ctask[c]

\* Where the worker may be for each state of the thread and of the host.
ThreadInv ==
  /\ wpc \in {"run", "running", "complete"} => wtask \in Tasks
  /\ wpc = "none" <=> hpc \in {"start", "failed"}
  /\ wpc \in {"none", "launch"} => enState \in {"CREATED", "PENDING"}
  /\ hpc \in {"start", "starting", "failed"} => wpc \in {"none", "launch"} /\ enState = "CREATED"
  /\ hpc \notin {"start", "starting", "failed"} => enState # "CREATED"
  /\ wpc \in {"result", "exited"} <=> enState = "FINISHED"
  /\ hpc \in {"cancel", "join", "wait", "down"} => pHead = NoTask
  /\ bCancelled => hpc \in {"join", "wait", "down"}
  /\ wpc \in {"finish", "result", "exited"} => bCancelled
  /\ hpc = "down" => enState = "FINISHED"

IInv ==
  /\ TypeOK
  /\ LockExclusive
  /\ QueueIsAccepted
  /\ TasksAccounted
  /\ ClientsInv
  /\ ThreadInv

\* Before the first start the queue is empty and nobody is inside.
LEMMA InitInv == Init => IInv
  <1> SUFFICES ASSUME Init PROVE IInv
    OBVIOUS
  <1> USE ExecutorAssumption DEF Init, ExecutorAssumption
  <1>1. TypeOK
    <2>1. accepted \in Seq(Tasks) /\ nCode \in [Tasks -> Codes]
      OBVIOUS
    <2>2. pNext \in [Tasks -> Tasks \cup {NoTask}] /\ ctask \in [Clients -> Tasks \cup {NoTask}]
      OBVIOUS
    <2>3. nState \in [Tasks -> {"idle", "submitted", "running", "completed"}]
      OBVIOUS
    <2>4. cpc \in [Clients -> {"idle", "lock", "mark", "link"}]
      OBVIOUS
    <2> QED
      BY <2>1, <2>2, <2>3, <2>4 DEF TypeOK
  <1>2. LockExclusive
    BY DEF LockExclusive, HostHolds, ClientHolds
  <1>3. QueueIsAccepted
    BY DEF QueueIsAccepted, Fetched
  <1>4. TasksAccounted
    BY DEF TasksAccounted
  <1>5. ClientsInv
    BY DEF ClientsInv
  <1>6. ThreadInv
    BY DEF ThreadInv
  <1> QED
    BY <1>1, <1>2, <1>3, <1>4, <1>5, <1>6 DEF IInv

\* submit() begins: the task it holds is idle and, by ClientsInv, held by no other.
LEMMA SubmitCheckInv == ASSUME IInv, NEW c \in Clients, NEW t \in Tasks, SubmitCheck(c, t) PROVE IInv'
  <1> USE ExecutorAssumption DEF ExecutorAssumption, IInv, SubmitCheck, Serving, IsIdle, thread, list
  <1>1. TypeOK'
    BY DEF TypeOK
  <1>2. LockExclusive'
    BY DEF TypeOK, LockExclusive, HostHolds, ClientHolds
  <1>3. QueueIsAccepted'
    BY DEF TypeOK, QueueIsAccepted, Fetched
  <1>4. TasksAccounted'
    BY DEF TypeOK, TasksAccounted
  <1>5. ClientsInv'
    BY DEF TypeOK, ClientsInv
  <1>6. ThreadInv'
    BY DEF TypeOK, ThreadInv
  <1> QED
    BY <1>1, <1>2, <1>3, <1>4, <1>5, <1>6

\* The try-lock is taken only when it was free, or submit() is refused.
LEMMA SubmitLockInv == ASSUME IInv, NEW c \in Clients, SubmitLock(c) PROVE IInv'
  <1> USE ExecutorAssumption DEF ExecutorAssumption, IInv, SubmitLock, TryLock, thread, list
  <1>1. TypeOK'
    BY DEF TypeOK
  <1>2. LockExclusive'
    BY DEF TypeOK, LockExclusive, HostHolds, ClientHolds
  <1>3. QueueIsAccepted'
    BY DEF TypeOK, QueueIsAccepted, Fetched
  <1>4. TasksAccounted'
    BY DEF TypeOK, TasksAccounted
  <1>5. ClientsInv'
    BY DEF TypeOK, ClientsInv
  <1>6. ThreadInv'
    BY DEF TypeOK, ThreadInv
  <1> QED
    BY <1>1, <1>2, <1>3, <1>4, <1>5, <1>6

\* The task becomes submitted while its client holds the lock: it is not linked yet.
LEMMA SubmitMarkInv == ASSUME IInv, NEW c \in Clients, SubmitMark(c) PROVE IInv'
  <1> USE ExecutorAssumption DEF ExecutorAssumption, IInv, SubmitMark, thread, list
  <1>1. TypeOK'
    BY DEF TypeOK, ClientsInv, ThreadInv, QueueIsAccepted, Fetched
  <1>2. LockExclusive'
    BY DEF TypeOK, LockExclusive, HostHolds, ClientHolds
  <1>3. QueueIsAccepted'
    BY DEF TypeOK, QueueIsAccepted, Fetched
  <1>4. TasksAccounted'
    BY DEF TypeOK, TasksAccounted, ClientsInv
  <1>5. ClientsInv'
    BY DEF TypeOK, TasksAccounted, ClientsInv
  <1>6. ThreadInv'
    BY DEF TypeOK, ThreadInv
  <1> QED
    BY <1>1, <1>2, <1>3, <1>4, <1>5, <1>6

\* The task goes to the end of the list, where it was not before.
LEMMA SubmitLinkInv == ASSUME IInv, NEW c \in Clients, SubmitLink(c) PROVE IInv'
  <1> USE ExecutorAssumption DEF ExecutorAssumption, IInv, SubmitLink, thread, list
  <1>1. TypeOK'
    <2>1. ctask[c] \in Tasks
      BY DEF ClientsInv
    <2>2. accepted' \in Seq(Tasks)
      BY <2>1 DEF TypeOK
    <2>3. pNext' \in [Tasks -> Tasks \cup {NoTask}] /\ pHead' \in Tasks \cup {NoTask}
      BY <2>1 DEF TypeOK
    <2> QED
      BY <2>1, <2>2, <2>3 DEF TypeOK
  <1>2. LockExclusive'
    BY DEF TypeOK, LockExclusive, HostHolds, ClientHolds
  <1>3. QueueIsAccepted'
    <2> DEFINE n == Len(accepted)
               t == ctask[c]
    <2>1. /\ t \in Tasks
          /\ \A i \in 1..n : accepted[i] # t
      BY DEF ClientsInv
    <2>2. /\ n \in Nat
          /\ Len(accepted') = n + 1
          /\ accepted'[n + 1] = t
          /\ \A i \in 1..n : accepted'[i] = accepted[i] /\ accepted[i] \in Tasks
      BY <2>1 DEF TypeOK
    <2>3. /\ wpc' = wpc /\ Fetched' = Fetched /\ Fetched \in {0, 1}
          /\ Fetched = 1 <=> wpc = "run"
      BY DEF Fetched
    <2>4. wpc = "run" => n > 0 /\ accepted[1] = wtask
      BY DEF QueueIsAccepted
    <2>5. CASE n > Fetched
      <3>1. /\ pTail = accepted[n] /\ pTail \in Tasks /\ pTail # NoTask /\ pTail # t
            /\ pHead = accepted[Fetched + 1]
        BY <2>1, <2>2, <2>3, <2>5 DEF QueueIsAccepted
      <3>2. /\ pHead' = pHead /\ pTail' = t
            /\ pNext' = [pNext EXCEPT ![pTail] = t, ![t] = NoTask]
        BY <3>1
      <3>3. /\ pNext'[accepted[n]] = t /\ pNext'[t] = NoTask
            /\ \A u \in Tasks : u # accepted[n] /\ u # t => pNext'[u] = pNext[u]
        BY <3>1, <3>2, <2>1 DEF TypeOK
      <3>4. \A i \in 1..n : i < n => accepted[i] # accepted[n]
        BY <2>2 DEF TasksAccounted
      <3>5. \A i \in 1..(n + 1) : i > Fetched /\ i < n + 1
               => pNext'[accepted'[i]] = accepted'[i + 1]
        BY <2>1, <2>2, <2>3, <3>3, <3>4 DEF QueueIsAccepted
      <3>6. ASSUME NEW u \in Tasks,
                   \A i \in 1..(n + 1) : i > Fetched /\ i < n + 1 => accepted'[i] # u
            PROVE  pNext'[u] = NoTask
        <4>1. \A i \in 1..n : i > Fetched => accepted[i] # u
          BY <3>6, <2>2, <2>3
        <4>2. n \in 1..n /\ u # accepted[n]
          BY <4>1, <2>2, <2>3, <2>5
        <4> QED
          BY <4>1, <4>2, <3>3, <2>2 DEF QueueIsAccepted
      <3>7. /\ n + 1 > Fetched
            /\ accepted'[Fetched + 1] = accepted[Fetched + 1]
            /\ wpc = "run" => accepted'[1] = accepted[1]
        BY <2>2, <2>3, <2>5
      <3>8. wpc' = "run" => Len(accepted') > 0 /\ accepted'[1] = wtask'
        BY <2>2, <2>3, <2>4, <3>7
      <3>9. /\ Len(accepted') > Fetched'
            /\ pHead' = accepted'[Fetched' + 1]
            /\ pTail' = accepted'[Len(accepted')]
        BY <2>2, <2>3, <3>1, <3>2, <3>7
      <3> QED
        BY <2>2, <2>3, <3>5, <3>6, <3>8, <3>9 DEF QueueIsAccepted
    <2>6. CASE ~(n > Fetched)
      <3>1. /\ pTail = NoTask
            /\ \A u \in Tasks : pNext[u] = NoTask
        BY <2>2, <2>3, <2>6 DEF QueueIsAccepted
      <3>2. pHead' = t /\ pTail' = t /\ pNext' = pNext
        BY <3>1
      <3>3. n = Fetched
        BY <2>2, <2>3, <2>4, <2>6
      <3> QED
        BY <2>2, <2>3, <2>4, <3>1, <3>2, <3>3 DEF QueueIsAccepted
    <2> QED
      BY <2>5, <2>6
  <1>4. TasksAccounted'
    <2> DEFINE n == Len(accepted)
               t == ctask[c]
    <2>1. /\ t \in Tasks /\ Owner[t] = c /\ nState[t] = "submitted"
          /\ \A i \in 1..n : accepted[i] # t
      BY DEF ClientsInv
    <2>2. /\ n \in Nat
          /\ Len(accepted') = n + 1
          /\ accepted'[n + 1] = t
          /\ \A i \in 1..n : accepted'[i] = accepted[i] /\ accepted[i] \in Tasks
      BY <2>1 DEF TypeOK
    <2>3. \A i, j \in 1..Len(accepted') : accepted'[i] = accepted'[j] => i = j
      <3> SUFFICES ASSUME NEW i \in 1..(n + 1), NEW j \in 1..(n + 1),
                          accepted'[i] = accepted'[j]
                   PROVE  i = j
        BY <2>2
      <3>1. i \in 1..n \/ i = n + 1
        BY <2>2
      <3>2. j \in 1..n \/ j = n + 1
        BY <2>2
      <3> QED
        BY <2>1, <2>2, <3>1, <3>2 DEF TasksAccounted
    <2>4. \A i \in 1..Len(accepted') : nState'[accepted'[i]] = "submitted"
      <3> SUFFICES ASSUME NEW i \in 1..(n + 1)
                   PROVE  nState[accepted'[i]] = "submitted"
        BY <2>2
      <3>1. i \in 1..n \/ i = n + 1
        BY <2>2
      <3> QED
        BY <2>1, <2>2, <3>1 DEF TasksAccounted
    <2>5. ASSUME NEW u \in Tasks, nState'[u] = "submitted"
          PROVE  \/ \E i \in 1..Len(accepted') : accepted'[i] = u
                 \/ cpc'[Owner[u]] = "link" /\ ctask'[Owner[u]] = u
      <3>1. CASE u = t
        <4>1. n + 1 \in 1..Len(accepted')
          BY <2>2
        <4> QED
          BY <2>2, <3>1, <4>1
      <3>2. CASE u # t
        <4>1. CASE \E i \in 1..n : accepted[i] = u
          <5>1. PICK i \in 1..n : accepted[i] = u
            BY <4>1
          <5>2. i \in 1..Len(accepted') /\ accepted'[i] = u
            BY <5>1, <2>2
          <5> QED
            BY <5>2
        <4>2. CASE cpc[Owner[u]] = "link" /\ ctask[Owner[u]] = u
          BY <4>2, <3>2 DEF TypeOK
        <4> QED
          BY <2>5, <4>1, <4>2 DEF TasksAccounted
      <3> QED
        BY <3>1, <3>2
    <2> QED
      BY <2>3, <2>4, <2>5 DEF TasksAccounted
  <1>5. ClientsInv'
    BY DEF TypeOK, ClientsInv
  <1>6. ThreadInv'
    BY DEF TypeOK, ThreadInv, ClientsInv, LockExclusive, HostHolds, ClientHolds
  <1> QED
    BY <1>1, <1>2, <1>3, <1>4, <1>5, <1>6

\* Only a completed task is reset, which is in no list.
LEMMA ResetTaskInv == ASSUME IInv, NEW t \in Tasks, ResetTask(t) PROVE IInv'
  <1> USE ExecutorAssumption DEF ExecutorAssumption, IInv, ResetTask, thread, list
  <1>1. TypeOK'
    BY DEF TypeOK, ClientsInv, ThreadInv, QueueIsAccepted, Fetched
  <1>2. LockExclusive'
    BY DEF TypeOK, LockExclusive, HostHolds, ClientHolds
  <1>3. QueueIsAccepted'
    BY DEF TypeOK, QueueIsAccepted, Fetched
  <1>4. TasksAccounted'
    BY DEF TypeOK, TasksAccounted
  <1>5. ClientsInv'
    BY DEF TypeOK, ClientsInv
  <1>6. ThreadInv'
    BY DEF TypeOK, ThreadInv
  <1> QED
    BY <1>1, <1>2, <1>3, <1>4, <1>5, <1>6

\* The thread starts to run.
LEMMA WLaunchInv == ASSUME IInv, WLaunch PROVE IInv'
  <1> USE ExecutorAssumption DEF ExecutorAssumption, IInv, WLaunch, thread, list
  <1>1. TypeOK'
    BY DEF TypeOK, ClientsInv, ThreadInv, QueueIsAccepted, Fetched
  <1>2. LockExclusive'
    BY DEF TypeOK, LockExclusive, HostHolds, ClientHolds
  <1>3. QueueIsAccepted'
    BY DEF TypeOK, QueueIsAccepted, Fetched
  <1>4. TasksAccounted'
    BY DEF TypeOK, TasksAccounted
  <1>5. ClientsInv'
    BY DEF TypeOK, ClientsInv
  <1>6. ThreadInv'
    BY DEF TypeOK, ThreadInv
  <1> QED
    BY <1>1, <1>2, <1>3, <1>4, <1>5, <1>6

\* The worker looks at the cancellation flag.
LEMMA WLoopInv == ASSUME IInv, WLoop PROVE IInv'
  <1> USE ExecutorAssumption DEF ExecutorAssumption, IInv, WLoop, thread, list
  <1>1. TypeOK'
    BY DEF TypeOK, ClientsInv, ThreadInv, QueueIsAccepted, Fetched
  <1>2. LockExclusive'
    BY DEF TypeOK, LockExclusive, HostHolds, ClientHolds
  <1>3. QueueIsAccepted'
    BY DEF TypeOK, QueueIsAccepted, Fetched
  <1>4. TasksAccounted'
    BY DEF TypeOK, TasksAccounted
  <1>5. ClientsInv'
    BY DEF TypeOK, ClientsInv
  <1>6. ThreadInv'
    BY DEF TypeOK, ThreadInv
  <1> QED
    BY <1>1, <1>2, <1>3, <1>4, <1>5, <1>6

\* The worker takes the lock when it was free.
LEMMA WLockInv == ASSUME IInv, WLock PROVE IInv'
  <1> USE ExecutorAssumption DEF ExecutorAssumption, IInv, WLock, TryLock, thread, list
  <1>1. TypeOK'
    BY DEF TypeOK, ClientsInv, ThreadInv, QueueIsAccepted, Fetched
  <1>2. LockExclusive'
    BY DEF TypeOK, LockExclusive, HostHolds, ClientHolds
  <1>3. QueueIsAccepted'
    BY DEF TypeOK, QueueIsAccepted, Fetched
  <1>4. TasksAccounted'
    BY DEF TypeOK, TasksAccounted
  <1>5. ClientsInv'
    BY DEF TypeOK, ClientsInv
  <1>6. ThreadInv'
    BY DEF TypeOK, ThreadInv
  <1> QED
    BY <1>1, <1>2, <1>3, <1>4, <1>5, <1>6

\* A cancelled worker that waits for the lock leaves without it.
LEMMA WLockCancelledInv == ASSUME IInv, WLockCancelled PROVE IInv'
  <1> USE ExecutorAssumption DEF ExecutorAssumption, IInv, WLockCancelled, thread, list
  <1>1. TypeOK'
    BY DEF TypeOK, ClientsInv, ThreadInv, QueueIsAccepted, Fetched
  <1>2. LockExclusive'
    BY DEF TypeOK, LockExclusive, HostHolds, ClientHolds
  <1>3. QueueIsAccepted'
    BY DEF TypeOK, QueueIsAccepted, Fetched
  <1>4. TasksAccounted'
    BY DEF TypeOK, TasksAccounted
  <1>5. ClientsInv'
    BY DEF TypeOK, ClientsInv
  <1>6. ThreadInv'
    BY DEF TypeOK, ThreadInv
  <1> QED
    BY <1>1, <1>2, <1>3, <1>4, <1>5, <1>6

\* The worker meets an empty list and frees the lock.
LEMMA WEmptyInv == ASSUME IInv, WEmpty PROVE IInv'
  <1> USE ExecutorAssumption DEF ExecutorAssumption, IInv, WEmpty, thread, list
  <1>1. TypeOK'
    BY DEF TypeOK, ClientsInv, ThreadInv, QueueIsAccepted, Fetched
  <1>2. LockExclusive'
    BY DEF TypeOK, LockExclusive, HostHolds, ClientHolds
  <1>3. QueueIsAccepted'
    BY DEF TypeOK, QueueIsAccepted, Fetched
  <1>4. TasksAccounted'
    BY DEF TypeOK, TasksAccounted
  <1>5. ClientsInv'
    BY DEF TypeOK, ClientsInv
  <1>6. ThreadInv'
    BY DEF TypeOK, ThreadInv
  <1> QED
    BY <1>1, <1>2, <1>3, <1>4, <1>5, <1>6

\* The worker unlinks the head: the rest of the list is what is left of the queue.
LEMMA WFetchInv == ASSUME IInv, WFetch PROVE IInv'
  <1> USE ExecutorAssumption DEF ExecutorAssumption, IInv, WFetch, TailAfter, thread, list
  <1>1. TypeOK'
    BY DEF TypeOK, ClientsInv, ThreadInv, QueueIsAccepted, Fetched
  <1>2. LockExclusive'
    BY DEF TypeOK, LockExclusive, HostHolds, ClientHolds
  <1>3. QueueIsAccepted'
    <2> DEFINE n == Len(accepted)
    <2>1. n \in Nat /\ \A i \in 1..n : accepted[i] \in Tasks
      BY DEF TypeOK
    <2>2. Fetched = 0 /\ Fetched' = 1
      BY DEF Fetched
    <2>3. n > 0 /\ pHead = accepted[1] /\ pTail = accepted[n]
      BY <2>1, <2>2 DEF QueueIsAccepted
    <2>4. pHead' = IF n > 1 THEN accepted[2] ELSE NoTask
      <3>1. CASE n > 1
        BY <3>1, <2>1, <2>2, <2>3 DEF QueueIsAccepted
      <3>2. CASE n = 1
        <4>1. \A i \in 1..n : i > Fetched /\ i < n => accepted[i] # pHead
          BY <3>2
        <4> QED
          BY <3>2, <4>1, <2>1, <2>3 DEF QueueIsAccepted, TypeOK
      <3>3. n > 1 \/ n = 1
        <4>1. n \in Nat /\ n > 0
          BY <2>1, <2>3
        <4> HIDE DEF n
        <4> QED
          BY <4>1
      <3> QED
        BY <3>1, <3>2, <3>3
    <2>5. pTail' = IF n > 1 THEN accepted[n] ELSE NoTask
      <3>1. n > 1 => accepted[2] # NoTask
        BY <2>1
      <3>2. pTail' = IF pHead' = NoTask THEN NoTask ELSE pTail
        OBVIOUS
      <3> QED
        BY <2>3, <2>4, <3>1, <3>2
    <2>6. \A i \in 1..n : i > 1 => accepted[i] # pHead
      BY <2>1, <2>3 DEF TasksAccounted
    <2>7. /\ pNext'[pHead] = NoTask
          /\ \A u \in Tasks : u # pHead => pNext'[u] = pNext[u]
      BY DEF TypeOK
    <2>8. \A i \in 1..n : i > 1 /\ i < n => pNext'[accepted[i]] = accepted[i + 1]
      BY <2>1, <2>2, <2>6, <2>7 DEF QueueIsAccepted
    <2>9. ASSUME NEW u \in Tasks,
                 \A i \in 1..n : i > 1 /\ i < n => accepted[i] # u
          PROVE  pNext'[u] = NoTask
      <3>1. CASE u = pHead
        BY <3>1, <2>7
      <3>2. CASE u # pHead
        <4>1. \A i \in 1..n : i > Fetched /\ i < n => accepted[i] # u
          BY <2>1, <2>3, <2>9, <3>2
        <4> QED
          BY <3>2, <4>1, <2>7 DEF QueueIsAccepted
      <3> QED
        BY <3>1, <3>2
    <2>10. accepted' = accepted /\ wpc' = "run" /\ wtask' = accepted[1]
      BY <2>3
    <2> QED
      BY <2>1, <2>2, <2>3, <2>4, <2>5, <2>8, <2>9, <2>10 DEF QueueIsAccepted
  <1>4. TasksAccounted'
    BY DEF TypeOK, TasksAccounted
  <1>5. ClientsInv'
    BY DEF TypeOK, ClientsInv
  <1>6. ThreadInv'
    BY DEF TypeOK, ThreadInv
  <1> QED
    BY <1>1, <1>2, <1>3, <1>4, <1>5, <1>6

\* The fetched task runs; the worker runs no other one.
LEMMA WRunInv == ASSUME IInv, WRun PROVE IInv'
  <1> USE ExecutorAssumption DEF ExecutorAssumption, IInv, WRun, thread, list
  <1>1. TypeOK'
    BY DEF TypeOK, ClientsInv, ThreadInv, QueueIsAccepted, Fetched
  <1>2. LockExclusive'
    BY DEF TypeOK, LockExclusive, HostHolds, ClientHolds
  <1>3. QueueIsAccepted'
    <2> DEFINE n == Len(accepted)
    <2>1. n \in Nat \ {0} /\ accepted[1] = wtask
      BY DEF TypeOK, QueueIsAccepted
    <2>2. /\ Len(accepted') = n - 1
          /\ \A i \in 1..(n - 1) : accepted'[i] = accepted[i + 1]
      BY <2>1 DEF TypeOK
    <2>3. Fetched = 1 /\ Fetched' = 0 /\ wpc' # "run"
      BY DEF Fetched
    <2>4. pHead' = pHead /\ pTail' = pTail /\ pNext' = pNext
      OBVIOUS
    <2>5. pHead' = IF n - 1 > 0 THEN accepted'[1] ELSE NoTask
      BY <2>1, <2>2, <2>3, <2>4 DEF QueueIsAccepted
    <2>6. pTail' = IF n - 1 > 0 THEN accepted'[n - 1] ELSE NoTask
      BY <2>1, <2>2, <2>3, <2>4 DEF QueueIsAccepted
    <2>7. \A i \in 1..(n - 1) : i < n - 1 => pNext[accepted'[i]] = accepted'[i + 1]
      BY <2>1, <2>2, <2>3 DEF QueueIsAccepted
    <2>8. ASSUME NEW u \in Tasks,
                 \A i \in 1..(n - 1) : i > 0 /\ i < n - 1 => accepted'[i] # u
          PROVE  pNext[u] = NoTask
      <3>1. ASSUME NEW i \in 1..n, i > 1, i < n
            PROVE  accepted[i] # u
        <4>1. i - 1 \in 1..(n - 1) /\ i - 1 < n - 1 /\ (i - 1) + 1 = i
          BY <3>1, <2>1
        <4> QED
          BY <4>1, <2>2, <2>8
      <3> QED
        BY <3>1, <2>3 DEF QueueIsAccepted
    <2> QED
      BY <2>2, <2>3, <2>4, <2>5, <2>6, <2>7, <2>8 DEF QueueIsAccepted
  <1>4. TasksAccounted'
    <2> DEFINE n == Len(accepted)
    <2>1. n \in Nat \ {0} /\ accepted[1] = wtask
      BY DEF TypeOK, QueueIsAccepted
    <2>2. /\ Len(accepted') = n - 1
          /\ \A i \in 1..(n - 1) : accepted'[i] = accepted[i + 1]
      BY <2>1 DEF TypeOK
    <2>3. /\ wtask \in Tasks
          /\ nState' = [nState EXCEPT ![wtask] = "running"]
          /\ \A i \in 1..n : i > 1 => accepted[i] # wtask
      BY <2>1 DEF TasksAccounted, ThreadInv
    <2>4. \A i, j \in 1..Len(accepted') : accepted'[i] = accepted'[j] => i = j
      BY <2>1, <2>2 DEF TasksAccounted
    <2>5. \A i \in 1..Len(accepted') : nState'[accepted'[i]] = "submitted"
      BY <2>1, <2>2, <2>3 DEF TasksAccounted, TypeOK
    <2>6. ASSUME NEW u \in Tasks, nState'[u] = "submitted"
          PROVE  \/ \E i \in 1..Len(accepted') : accepted'[i] = u
                 \/ cpc'[Owner[u]] = "link" /\ ctask'[Owner[u]] = u
      <3>1. u # wtask /\ nState[u] = "submitted"
        BY <2>3, <2>6 DEF TypeOK
      <3>2. CASE \E i \in 1..n : accepted[i] = u
        <4>1. PICK i \in 1..n : accepted[i] = u
          BY <3>2
        <4>2. i - 1 \in 1..Len(accepted') /\ accepted'[i - 1] = u
          BY <4>1, <3>1, <2>1, <2>2
        <4> QED
          BY <4>2
      <3>3. CASE cpc[Owner[u]] = "link" /\ ctask[Owner[u]] = u
        BY <3>3
      <3> QED
        BY <3>1, <3>2, <3>3 DEF TasksAccounted
    <2>7. \A u \in Tasks : nState'[u] = "running"
             <=> wpc' \in {"running", "complete"} /\ wtask' = u
      BY <2>3 DEF TasksAccounted, TypeOK
    <2> QED
      BY <2>4, <2>5, <2>6, <2>7 DEF TasksAccounted
  <1>5. ClientsInv'
    BY DEF TypeOK, ClientsInv, TasksAccounted, QueueIsAccepted, ThreadInv, Fetched
  <1>6. ThreadInv'
    BY DEF TypeOK, ThreadInv
  <1> QED
    BY <1>1, <1>2, <1>3, <1>4, <1>5, <1>6

\* run() returns one of its codes.
LEMMA WReturnInv == ASSUME IInv, WReturn PROVE IInv'
  <1> USE ExecutorAssumption DEF ExecutorAssumption, IInv, WReturn, thread, list
  <1>1. TypeOK'
    BY DEF TypeOK, ClientsInv, ThreadInv, QueueIsAccepted, Fetched
  <1>2. LockExclusive'
    BY DEF TypeOK, LockExclusive, HostHolds, ClientHolds
  <1>3. QueueIsAccepted'
    BY DEF TypeOK, QueueIsAccepted, Fetched
  <1>4. TasksAccounted'
    BY DEF TypeOK, TasksAccounted
  <1>5. ClientsInv'
    BY DEF TypeOK, ClientsInv
  <1>6. ThreadInv'
    BY DEF TypeOK, ThreadInv
  <1> QED
    BY <1>1, <1>2, <1>3, <1>4, <1>5, <1>6

\* The task is completed, and the worker is free of it.
LEMMA WCompleteInv == ASSUME IInv, WComplete PROVE IInv'
  <1> USE ExecutorAssumption DEF ExecutorAssumption, IInv, WComplete, thread, list
  <1>1. TypeOK'
    BY DEF TypeOK, ClientsInv, ThreadInv, QueueIsAccepted, Fetched
  <1>2. LockExclusive'
    BY DEF TypeOK, LockExclusive, HostHolds, ClientHolds
  <1>3. QueueIsAccepted'
    BY DEF TypeOK, QueueIsAccepted, Fetched
  <1>4. TasksAccounted'
    BY DEF TypeOK, TasksAccounted
  <1>5. ClientsInv'
    BY DEF TypeOK, ClientsInv, TasksAccounted, ThreadInv
  <1>6. ThreadInv'
    BY DEF TypeOK, ThreadInv
  <1> QED
    BY <1>1, <1>2, <1>3, <1>4, <1>5, <1>6

\* The thread stores its state at its end, when nothing is fetched.
LEMMA WFinishInv == ASSUME IInv, WFinish PROVE IInv'
  <1> USE ExecutorAssumption DEF ExecutorAssumption, IInv, WFinish, thread, list
  <1>1. TypeOK'
    BY DEF TypeOK, ClientsInv, ThreadInv, QueueIsAccepted, Fetched
  <1>2. LockExclusive'
    BY DEF TypeOK, LockExclusive, HostHolds, ClientHolds
  <1>3. QueueIsAccepted'
    BY DEF TypeOK, QueueIsAccepted, Fetched
  <1>4. TasksAccounted'
    BY DEF TypeOK, TasksAccounted
  <1>5. ClientsInv'
    BY DEF TypeOK, ClientsInv
  <1>6. ThreadInv'
    BY DEF TypeOK, ThreadInv
  <1> QED
    BY <1>1, <1>2, <1>3, <1>4, <1>5, <1>6

\* The last access of the worker to the Thread object.
LEMMA WResultInv == ASSUME IInv, WResult PROVE IInv'
  <1> USE ExecutorAssumption DEF ExecutorAssumption, IInv, WResult, thread, list
  <1>1. TypeOK'
    BY DEF TypeOK, ClientsInv, ThreadInv, QueueIsAccepted, Fetched
  <1>2. LockExclusive'
    BY DEF TypeOK, LockExclusive, HostHolds, ClientHolds
  <1>3. QueueIsAccepted'
    BY DEF TypeOK, QueueIsAccepted, Fetched
  <1>4. TasksAccounted'
    BY DEF TypeOK, TasksAccounted
  <1>5. ClientsInv'
    BY DEF TypeOK, ClientsInv
  <1>6. ThreadInv'
    BY DEF TypeOK, ThreadInv
  <1> QED
    BY <1>1, <1>2, <1>3, <1>4, <1>5, <1>6

\* The host starts the executor.
LEMMA HStartInv == ASSUME IInv, HStart PROVE IInv'
  <1> USE ExecutorAssumption DEF ExecutorAssumption, IInv, HStart, thread, list
  <1>1. TypeOK'
    BY DEF TypeOK, ClientsInv, ThreadInv, QueueIsAccepted, Fetched
  <1>2. LockExclusive'
    BY DEF TypeOK, LockExclusive, HostHolds, ClientHolds
  <1>3. QueueIsAccepted'
    BY DEF TypeOK, QueueIsAccepted, Fetched, ThreadInv
  <1>4. TasksAccounted'
    BY DEF TypeOK, TasksAccounted, ThreadInv
  <1>5. ClientsInv'
    BY DEF TypeOK, ClientsInv
  <1>6. ThreadInv'
    BY DEF TypeOK, ThreadInv
  <1> QED
    BY <1>1, <1>2, <1>3, <1>4, <1>5, <1>6

\* start() stores the state of the thread that it has created.
LEMMA HPendingInv == ASSUME IInv, HPending PROVE IInv'
  <1> USE ExecutorAssumption DEF ExecutorAssumption, IInv, HPending, thread, list
  <1>1. TypeOK'
    BY DEF TypeOK, ClientsInv, ThreadInv, QueueIsAccepted, Fetched
  <1>2. LockExclusive'
    BY DEF TypeOK, LockExclusive, HostHolds, ClientHolds
  <1>3. QueueIsAccepted'
    BY DEF TypeOK, QueueIsAccepted, Fetched
  <1>4. TasksAccounted'
    BY DEF TypeOK, TasksAccounted
  <1>5. ClientsInv'
    BY DEF TypeOK, ClientsInv
  <1>6. ThreadInv'
    BY DEF TypeOK, ThreadInv
  <1> QED
    BY <1>1, <1>2, <1>3, <1>4, <1>5, <1>6

\* shutdown() begins.
LEMMA HShutdownInv == ASSUME IInv, HShutdown PROVE IInv'
  <1> USE ExecutorAssumption DEF ExecutorAssumption, IInv, HShutdown, thread, list
  <1>1. TypeOK'
    BY DEF TypeOK, ClientsInv, ThreadInv, QueueIsAccepted, Fetched
  <1>2. LockExclusive'
    BY DEF TypeOK, LockExclusive, HostHolds, ClientHolds
  <1>3. QueueIsAccepted'
    BY DEF TypeOK, QueueIsAccepted, Fetched
  <1>4. TasksAccounted'
    BY DEF TypeOK, TasksAccounted
  <1>5. ClientsInv'
    BY DEF TypeOK, ClientsInv
  <1>6. ThreadInv'
    BY DEF TypeOK, ThreadInv
  <1> QED
    BY <1>1, <1>2, <1>3, <1>4, <1>5, <1>6

\* shutdown() takes the lock when it was free.
LEMMA HLockInv == ASSUME IInv, HLock PROVE IInv'
  <1> USE ExecutorAssumption DEF ExecutorAssumption, IInv, HLock, TryLock, thread, list
  <1>1. TypeOK'
    BY DEF TypeOK, ClientsInv, ThreadInv, QueueIsAccepted, Fetched
  <1>2. LockExclusive'
    BY DEF TypeOK, LockExclusive, HostHolds, ClientHolds
  <1>3. QueueIsAccepted'
    BY DEF TypeOK, QueueIsAccepted, Fetched
  <1>4. TasksAccounted'
    BY DEF TypeOK, TasksAccounted
  <1>5. ClientsInv'
    BY DEF TypeOK, ClientsInv
  <1>6. ThreadInv'
    BY DEF TypeOK, ThreadInv
  <1> QED
    BY <1>1, <1>2, <1>3, <1>4, <1>5, <1>6

\* shutdown() looks at the list under the lock, and keeps it if the list is empty.
LEMMA HCheckInv == ASSUME IInv, HCheck PROVE IInv'
  <1> USE ExecutorAssumption DEF ExecutorAssumption, IInv, HCheck, Drained, LockAfterDrain, thread, list
  <1>1. TypeOK'
    BY DEF TypeOK, ClientsInv, ThreadInv, QueueIsAccepted, Fetched
  <1>2. LockExclusive'
    BY DEF TypeOK, LockExclusive, HostHolds, ClientHolds
  <1>3. QueueIsAccepted'
    BY DEF TypeOK, QueueIsAccepted, Fetched
  <1>4. TasksAccounted'
    BY DEF TypeOK, TasksAccounted
  <1>5. ClientsInv'
    BY DEF TypeOK, ClientsInv
  <1>6. ThreadInv'
    BY DEF TypeOK, ThreadInv
  <1> QED
    BY <1>1, <1>2, <1>3, <1>4, <1>5, <1>6

\* The thread is cancelled while shutdown() holds the lock: nothing is linked any more.
LEMMA HCancelInv == ASSUME IInv, HCancel PROVE IInv'
  <1> USE ExecutorAssumption DEF ExecutorAssumption, IInv, HCancel, Cancellable, thread, list
  <1>1. TypeOK'
    BY DEF TypeOK, ClientsInv, ThreadInv, QueueIsAccepted, Fetched
  <1>2. LockExclusive'
    BY DEF TypeOK, LockExclusive, HostHolds, ClientHolds
  <1>3. QueueIsAccepted'
    BY DEF TypeOK, QueueIsAccepted, Fetched
  <1>4. TasksAccounted'
    BY DEF TypeOK, TasksAccounted
  <1>5. ClientsInv'
    BY DEF TypeOK, ClientsInv
  <1>6. ThreadInv'
    BY DEF TypeOK, ThreadInv
  <1> QED
    BY <1>1, <1>2, <1>3, <1>4, <1>5, <1>6

\* join() waits, unless the thread has finished or was never created.
LEMMA HJoinInv == ASSUME IInv, HJoin PROVE IInv'
  <1> USE ExecutorAssumption DEF ExecutorAssumption, IInv, HJoin, JoinBlocks, thread, list
  <1>1. TypeOK'
    BY DEF TypeOK, ClientsInv, ThreadInv, QueueIsAccepted, Fetched
  <1>2. LockExclusive'
    BY DEF TypeOK, LockExclusive, HostHolds, ClientHolds
  <1>3. QueueIsAccepted'
    BY DEF TypeOK, QueueIsAccepted, Fetched
  <1>4. TasksAccounted'
    BY DEF TypeOK, TasksAccounted
  <1>5. ClientsInv'
    BY DEF TypeOK, ClientsInv
  <1>6. ThreadInv'
    BY DEF TypeOK, ThreadInv
  <1> QED
    BY <1>1, <1>2, <1>3, <1>4, <1>5, <1>6

\* join() returns for a thread that has exited: no task is fetched or runs.
LEMMA HWaitInv == ASSUME IInv, HWait PROVE IInv'
  <1> USE ExecutorAssumption DEF ExecutorAssumption, IInv, HWait, thread, list
  <1>1. TypeOK'
    BY DEF TypeOK, ClientsInv, ThreadInv, QueueIsAccepted, Fetched
  <1>2. LockExclusive'
    BY DEF TypeOK, LockExclusive, HostHolds, ClientHolds
  <1>3. QueueIsAccepted'
    BY DEF TypeOK, QueueIsAccepted, Fetched
  <1>4. TasksAccounted'
    BY DEF TypeOK, TasksAccounted
  <1>5. ClientsInv'
    BY DEF TypeOK, ClientsInv
  <1>6. ThreadInv'
    BY DEF TypeOK, ThreadInv
  <1> QED
    BY <1>1, <1>2, <1>3, <1>4, <1>5, <1>6

-----------------------------------------------------------------------------
\* Each step keeps the invariant.
LEMMA NextInv == IInv /\ [Next]_vars => IInv'
  <1> SUFFICES ASSUME IInv, [Next]_vars PROVE IInv'
    OBVIOUS
  <1>1. ASSUME NEW c \in Clients, Client(c) PROVE IInv'
    BY <1>1, SubmitCheckInv, SubmitLockInv, SubmitMarkInv, SubmitLinkInv, ResetTaskInv
       DEF Client
  <1>2. CASE Worker
    BY <1>2, WLaunchInv, WLoopInv, WLockInv, WLockCancelledInv, WEmptyInv, WFetchInv,
       WRunInv, WReturnInv, WCompleteInv, WFinishInv, WResultInv DEF Worker
  <1>3. CASE Host
    BY <1>3, HStartInv, HPendingInv, HShutdownInv, HLockInv, HCheckInv, HCancelInv, HJoinInv, HWaitInv
       DEF Host
  <1>4. CASE UNCHANGED vars
    BY <1>4 DEF vars, thread, list, IInv, TypeOK, LockExclusive, HostHolds, ClientHolds,
       QueueIsAccepted, Fetched, TasksAccounted, ClientsInv, ThreadInv
  <1> QED
    BY <1>1, <1>2, <1>3, <1>4 DEF Next, Stopped

\* The list, the lock, the tasks and the places of clients, worker and host agree
\* in every reachable state (NativeExecutor.cpp:35-190).
THEOREM ExecutorInv == Spec => []IInv
  BY InitInv, NextInv, PTL DEF Spec

(***************************************************************************)
(* The variables keep their types, ITask::nCode among them: a code is only *)
(* ever what some run() returned, or STATUS_OK.                            *)
(***************************************************************************)
THEOREM ExecutorTypeOK == Spec => []TypeOK
  BY ExecutorInv, PTL DEF IInv

(***************************************************************************)
(* submit(), the worker and shutdown() never use the list at the same time *)
(* and shutdown() ends with the lock in its hands.                         *)
(***************************************************************************)
THEOREM ExecutorLockExclusive == Spec => []LockExclusive
  BY ExecutorInv, PTL DEF IInv

(***************************************************************************)
(* pHead, pTail and pNext always spell the accepted tasks, in order.       *)
(***************************************************************************)
THEOREM ExecutorQueue == Spec => []QueueIsAccepted
  BY ExecutorInv, PTL DEF IInv

(***************************************************************************)
(* No submitted task is forgotten and none is queued twice.                *)
(***************************************************************************)
THEOREM ExecutorTasks == Spec => []TasksAccounted
  BY ExecutorInv, PTL DEF IInv

(***************************************************************************)
(* shutdown() returns only when nothing is queued, submitted or running,   *)
(* whatever the clients are doing meanwhile.                               *)
(***************************************************************************)
LEMMA InvDrained == IInv => ShutdownDrained
  <1> SUFFICES ASSUME IInv, hpc = "down"
               PROVE  /\ accepted = <<>>
                      /\ \A t \in Tasks : nState[t] \in {"idle", "completed"}
                      /\ wpc \in {"result", "exited"}
    BY DEF ShutdownDrained
  <1>1. wpc \in {"result", "exited"} /\ pHead = NoTask
    BY DEF IInv, ThreadInv
  <1>2. Len(accepted) = 0
    <2>1. Fetched = 0
      BY <1>1 DEF Fetched
    <2>2. Len(accepted) \in Nat /\ (Len(accepted) > 0 => accepted[1] \in Tasks)
      BY DEF IInv, TypeOK
    <2>3. Len(accepted) > 0 => pHead = accepted[1]
      BY <2>1 DEF IInv, QueueIsAccepted
    <2> QED
      BY <1>1, <2>2, <2>3, ExecutorAssumption DEF ExecutorAssumption
  <1>3. accepted = <<>>
    BY <1>2 DEF IInv, TypeOK
  <1>4. ASSUME NEW t \in Tasks PROVE nState[t] \in {"idle", "completed"}
    <2>1. Owner[t] \in Clients
      BY ExecutorAssumption DEF ExecutorAssumption
    <2>2. cpc[Owner[t]] # "link"
      BY <2>1 DEF IInv, LockExclusive, ClientHolds, HostHolds
    <2>3. nState[t] # "submitted"
      BY <1>2, <2>2 DEF IInv, TasksAccounted
    <2>4. nState[t] # "running"
      BY <1>1 DEF IInv, TasksAccounted
    <2> QED
      BY <2>3, <2>4 DEF IInv, TypeOK
  <1> QED
    BY <1>1, <1>3, <1>4

\* When shutdown() has returned, no task is queued, submitted or running
\* (NativeExecutor.cpp:62-92).
THEOREM ExecutorShutdown == Spec => []ShutdownDrained
  BY ExecutorInv, InvDrained, PTL

-----------------------------------------------------------------------------
(* Refinement: each step of the executor is a step of TaskService or none. *)

\* At the beginning the service is open and all its tasks are idle.
LEMMA InitService == Init => Service!Init
  BY ExecutorAssumption
     DEF ExecutorAssumption, Init, Service!Init, ServiceState, ServiceCode, ServicePhase, Linking

\* The steps the owner of a task cannot tell apart from nothing at all.
LEMMA QuietService ==
  ASSUME IInv,
         \/ \E c \in Clients : SubmitLock(c) \/ SubmitMark(c) \/ \E t \in Tasks : SubmitCheck(c, t)
         \/ WLaunch \/ WLoop \/ WLock \/ WLockCancelled \/ WEmpty \/ WFetch \/ WReturn
         \/ WFinish \/ WResult
         \/ HStart \/ HPending \/ HShutdown \/ HLock \/ HCancel
         \/ UNCHANGED vars
  PROVE  UNCHANGED Service!vars
  <1> USE ExecutorAssumption DEF ExecutorAssumption, IInv, TypeOK
  <1>1. UNCHANGED ServiceState
    <2>1. ASSUME NEW c \in Clients, NEW t \in Tasks, SubmitCheck(c, t)
          PROVE  UNCHANGED ServiceState
      BY <2>1 DEF SubmitCheck, ServiceState, Linking
    <2>2. ASSUME NEW c \in Clients, SubmitLock(c)
          PROVE  UNCHANGED ServiceState
      BY <2>2 DEF SubmitLock, ServiceState, Linking
    <2>3. ASSUME NEW c \in Clients, SubmitMark(c)
          PROVE  UNCHANGED ServiceState
      BY <2>3 DEF SubmitMark, ServiceState, Linking, ClientsInv
    <2>4. ASSUME UNCHANGED <<nState, cpc, ctask>>
          PROVE  UNCHANGED ServiceState
      BY <2>4 DEF ServiceState, Linking
    <2> QED
      BY <2>1, <2>2, <2>3, <2>4 DEF WLaunch, WLoop, WLock, WLockCancelled, WEmpty, WFetch,
         WReturn, WFinish, WResult, HStart, HPending, HShutdown, HLock, HCancel, vars
  <1>2. UNCHANGED ServiceCode
    <2>1. CASE WReturn
      <3>1. wtask \in Tasks /\ nState[wtask] = "running"
        BY <2>1 DEF WReturn, ThreadInv, TasksAccounted
      <3> QED
        BY <2>1, <3>1 DEF WReturn, ServiceCode
    <2>2. ASSUME NEW c \in Clients, SubmitMark(c)
          PROVE  UNCHANGED ServiceCode
      BY <2>2 DEF SubmitMark, ServiceCode, ClientsInv
    <2>3. ASSUME UNCHANGED <<nState, nCode>>
          PROVE  UNCHANGED ServiceCode
      BY <2>3 DEF ServiceCode
    <2> QED
      BY <2>1, <2>2, <2>3 DEF SubmitCheck, SubmitLock, WLaunch, WLoop, WLock, WLockCancelled,
         WEmpty, WFetch, WFinish, WResult, HStart, HPending, HShutdown, HLock, HCancel, vars
  <1>3. UNCHANGED <<accepted, ServicePhase>>
    BY DEF SubmitCheck, SubmitLock, SubmitMark, WLaunch, WLoop, WLock, WLockCancelled, WEmpty,
       WFetch, WReturn, WFinish, WResult, HStart, HPending, HShutdown, HLock, HCancel, vars,
       ServicePhase
  <1> QED
    BY <1>1, <1>2, <1>3 DEF Service!vars

\* A task that is linked is accepted by the service.
LEMMA SubmitLinkService ==
  ASSUME IInv, NEW c \in Clients, SubmitLink(c)
  PROVE  Service!Accept(ctask[c])
  <1> USE ExecutorAssumption DEF ExecutorAssumption, IInv, TypeOK, SubmitLink
  <1>1. ctask[c] \in Tasks /\ Owner[ctask[c]] = c /\ nState[ctask[c]] = "submitted"
    BY DEF ClientsInv
  <1>2. ServiceState' = [ServiceState EXCEPT ![ctask[c]] = "submitted"]
    <2>1. ASSUME NEW u \in Tasks
          PROVE  ServiceState'[u] = IF u = ctask[c] THEN "submitted" ELSE ServiceState[u]
      BY <1>1 DEF ServiceState, Linking
    <2> QED
      BY <1>1, <2>1 DEF ServiceState
  <1>3. ServiceState[ctask[c]] = "idle"
    BY <1>1 DEF ServiceState, Linking
  <1>4. ServicePhase = "open" /\ UNCHANGED <<ServiceCode, ServicePhase>>
    BY DEF ServicePhase, ServiceCode, LockExclusive, ClientHolds, HostHolds
  <1> QED
    BY <1>2, <1>3, <1>4 DEF Service!Accept

\* reset() of a completed task is the service's reset.
LEMMA ResetService ==
  ASSUME IInv, NEW t \in Tasks, ResetTask(t)
  PROVE  Service!Reset(t)
  <1> USE ExecutorAssumption DEF ExecutorAssumption, IInv, TypeOK, ResetTask
  <1>1. ServiceState' = [ServiceState EXCEPT ![t] = "idle"]
    BY DEF ServiceState, Linking
  <1>2. ServiceCode' = [ServiceCode EXCEPT ![t] = NoCode]
    BY DEF ServiceCode
  <1>3. ServiceState[t] = "completed" /\ UNCHANGED ServicePhase
    BY DEF ServiceState, Linking, ServicePhase
  <1> QED
    BY <1>1, <1>2, <1>3 DEF Service!Reset

\* The task the worker runs is the one accepted first.
LEMMA RunService ==
  ASSUME IInv, WRun
  PROVE  wtask \in Tasks /\ Service!Start(wtask)
  <1> USE ExecutorAssumption DEF ExecutorAssumption, IInv, TypeOK, WRun
  <1>1. /\ wtask \in Tasks /\ accepted # <<>> /\ wtask = Head(accepted)
        /\ nState[wtask] = "submitted" /\ ~Linking(wtask)
    <2>1. wtask \in Tasks /\ Len(accepted) > 0 /\ accepted[1] = wtask
      BY DEF QueueIsAccepted, ThreadInv
    <2>2. 1 \in 1..Len(accepted) /\ accepted # <<>> /\ Head(accepted) = accepted[1]
      BY <2>1
    <2>3. nState[wtask] = "submitted"
      BY <2>1, <2>2 DEF TasksAccounted
    <2>4. Owner[wtask] \in Clients
      BY <2>1
    <2>5. ~Linking(wtask)
      BY <2>1, <2>2, <2>4 DEF ClientsInv, Linking
    <2> QED
      BY <2>1, <2>2, <2>3, <2>5
  <1>2. \A u \in Tasks : ServiceState[u] # "running"
    BY DEF TasksAccounted, ServiceState
  <1>3. ServiceState' = [ServiceState EXCEPT ![wtask] = "running"]
    BY <1>1 DEF ServiceState, Linking
  <1>4. UNCHANGED <<ServiceCode, ServicePhase>>
    BY <1>1 DEF ServiceCode, ServicePhase
  <1> QED
    BY <1>1, <1>2, <1>3, <1>4 DEF Service!Start

\* The task that completes is the one that runs, with the code run() returned.
LEMMA CompleteService ==
  ASSUME IInv, WComplete
  PROVE  wtask \in Tasks /\ Service!Complete(wtask)
  <1> USE ExecutorAssumption DEF ExecutorAssumption, IInv, TypeOK, WComplete
  <1>1. wtask \in Tasks /\ nState[wtask] = "running" /\ ~Linking(wtask)
    <2>1. wtask \in Tasks /\ nState[wtask] = "running"
      BY DEF ThreadInv, TasksAccounted
    <2>2. Owner[wtask] \in Clients
      BY <2>1
    <2> QED
      BY <2>1, <2>2 DEF ClientsInv, Linking
  <1>2. /\ ServiceState[wtask] = "running"
        /\ ServiceState' = [ServiceState EXCEPT ![wtask] = "completed"]
    BY <1>1 DEF ServiceState, Linking
  <1>3. ServiceCode' = [ServiceCode EXCEPT ![wtask] = nCode[wtask]]
    BY <1>1 DEF ServiceCode
  <1>4. nCode[wtask] \in Codes /\ UNCHANGED ServicePhase
    BY <1>1 DEF ServicePhase
  <1> QED
    BY <1>1, <1>2, <1>3, <1>4 DEF Service!Complete

\* shutdown() that finds the list empty closes the service.
LEMMA CheckService ==
  ASSUME IInv, HCheck
  PROVE  Service!Close \/ UNCHANGED Service!vars
  <1>1. UNCHANGED <<ServiceState, ServiceCode, accepted>>
    BY DEF HCheck, ServiceState, ServiceCode, Linking
  <1>2. \/ ServicePhase = "open" /\ ServicePhase' = "closed"
        \/ UNCHANGED ServicePhase
    BY DEF HCheck, ServicePhase
  <1> QED
    BY <1>1, <1>2 DEF Service!Close, Service!vars

\* The same after a step.
LEMMA InvDrainedNext == IInv' => ShutdownDrained'
  BY InvDrained, PTL

\* When shutdown() returns the service goes down, with nothing left to do.
LEMMA JoinService ==
  ASSUME IInv, HJoin \/ HWait
  PROVE  Service!Down \/ UNCHANGED Service!vars
  <1>1. UNCHANGED <<ServiceState, ServiceCode, accepted>>
    BY DEF HJoin, HWait, ServiceState, ServiceCode, Linking
  <1>2. \/ ServicePhase = "closed" /\ ServicePhase' = "down" /\ hpc' = "down"
        \/ UNCHANGED ServicePhase
    BY DEF HJoin, HWait, ServicePhase
  <1>3. CASE hpc' = "down"
    <2>1. ShutdownDrained'
      BY HJoinInv, HWaitInv, InvDrainedNext
    <2>2. accepted = <<>> /\ \A t \in Tasks : nState'[t] \in {"idle", "completed"}
      BY <1>1, <1>3, <2>1 DEF ShutdownDrained
    <2>3. \A t \in Tasks : ServiceState[t] \notin {"submitted", "running"}
      BY <2>2 DEF ServiceState, HJoin, HWait
    <2> QED
      BY <1>1, <1>2, <2>2, <2>3 DEF Service!Down, Service!vars
  <1>4. CASE hpc' # "down"
    BY <1>1, <1>2, <1>4 DEF Service!vars
  <1> QED
    BY <1>3, <1>4

(***************************************************************************)
(* The executor implements the abstract task service: tasks run once each, *)
(* one at a time, in the order submit() linked them; a completed task's    *)
(* code is stable until reset(); nothing is accepted once shutdown() found *)
(* the queue empty, and shutdown() returns only when all tasks are done.   *)
(***************************************************************************)
THEOREM ExecutorRefinement == Spec => ImplementsTaskService
  <1>1. IInv /\ [Next]_vars => [Service!Next]_(Service!vars)
    <2> SUFFICES ASSUME IInv, [Next]_vars PROVE Service!Next \/ UNCHANGED Service!vars
      OBVIOUS
    <2>1. ASSUME NEW c \in Clients, Client(c)
          PROVE  Service!Next \/ UNCHANGED Service!vars
      <3>1. CASE SubmitLink(c)
        BY <3>1, SubmitLinkService DEF Service!Next, IInv, ClientsInv, SubmitLink
      <3>2. ASSUME NEW t \in Tasks, ResetTask(t)
            PROVE  Service!Next
        BY <3>2, ResetService DEF Service!Next
      <3> QED
        BY <2>1, <3>1, <3>2, QuietService DEF Client
    <2>2. CASE Worker
      BY <2>2, RunService, CompleteService, QuietService DEF Worker, Service!Next
    <2>3. CASE Host
      BY <2>3, CheckService, JoinService, QuietService DEF Host, Service!Next
    <2>4. CASE UNCHANGED vars
      BY <2>4, QuietService
    <2> QED
      BY <2>1, <2>2, <2>3, <2>4 DEF Next, Stopped
  <1> QED
    BY <1>1, InitService, ExecutorInv, PTL DEF Spec, ImplementsTaskService, Service!Spec
=============================================================================
