--------------------------- MODULE NativeExecutor ---------------------------
(***************************************************************************)
(* The executor service of the plugins: ipc::NativeExecutor with its       *)
(* ipc::Thread and the ipc::ITask objects it runs.                         *)
(*                                                                         *)
(* Processes:                                                              *)
(*   clients  the threads that own tasks (audio threads) and poll them;    *)
(*   worker   the thread started by NativeExecutor::start();               *)
(*   host     the thread that creates the executor and shuts it down.      *)
(*                                                                         *)
(* A step of the model is one access to memory another process reads:      *)
(* stores that only their writer can observe are merged with the next one. *)
(***************************************************************************)
EXTENDS Integers, Sequences

CONSTANTS
  Tasks,        (* the tasks                                               *)
  Clients,      (* the threads that submit them                            *)
  Owner,        (* Owner[t]: the only client that submits and resets t     *)
  Codes,        (* what ITask::run() may return; 0 is STATUS_OK            *)
  NoTask,       (* the NULL task pointer                                   *)
  NoCode        (* what the owner reads of a task that is not completed    *)

ASSUME ExecutorAssumption ==
  /\ Owner \in [Tasks -> Clients]
  /\ NoTask \notin Tasks
  /\ 0 \in Codes
  /\ NoCode \notin Codes

VARIABLES
  enState,      (* Thread::enState                                         *)
  bCancelled,   (* Thread::bCancelled                                      *)
  nLock,        (* NativeExecutor::nLock, 1 is free                        *)
  pHead, pTail, (* NativeExecutor::pHead, pTail                            *)
  pNext,        (* ITask::pNext of each task                               *)
  nState,       (* ITask::nState of each task                              *)
  nCode,        (* ITask::nCode of each task                               *)
  cpc, ctask,   (* where each client is in submit(), and with which task   *)
  wpc, wtask,   (* where the worker is, and the task it took               *)
  hpc,          (* where the host is                                       *)
  accepted      (* history: tasks linked and not yet running, oldest first *)

thread == <<enState, bCancelled>>
list   == <<nLock, pHead, pTail, pNext>>
vars   == <<thread, list, nState, nCode, cpc, ctask, wpc, wtask, hpc, accepted>>

Init ==
  /\ enState    = "CREATED"
  /\ bCancelled = FALSE
  /\ nLock      = 1
  /\ pHead      = NoTask
  /\ pTail      = NoTask
  /\ pNext      = [t \in Tasks |-> NoTask]
  /\ nState     = [t \in Tasks |-> "idle"]
  /\ nCode      = [t \in Tasks |-> 0]
  /\ cpc        = [c \in Clients |-> "idle"]
  /\ ctask      = [c \in Clients |-> NoTask]
  /\ wpc        = "none"
  /\ wtask      = NoTask
  /\ hpc        = "start"
  /\ accepted   = <<>>

\* the host handed the executor out; clients may call it even during shutdown()
Serving == hpc \notin {"start", "starting", "failed"}

-----------------------------------------------------------------------------
(* The tests and values the steps below are made of. A definition marked   *)
(* "slip" is not used: it is what a wrong version of the next one could be. *)

\* ITask::idle(); slip: a task in any state is accepted
IsIdleAny(t) == TRUE
IsIdle(t) == nState[t] = "idle"

\* atomic_trylock() swaps 0 in; slip: it decrements
TryLockCounted == nLock - 1
TryLock == 0

\* pTail after the head was removed; slip: the tail is left behind
TailAfterStale(head) == pTail
TailAfter(head) == IF head = NoTask THEN NoTask ELSE pTail

\* shutdown() may go on; slip: without waiting for the queue
DrainedAlways == TRUE
Drained == pHead = NoTask

\* nLock when shutdown() goes on: never released; slip: it is
LockAfterDrainFree == 1
LockAfterDrain == 0

\* Thread::cancel() is possible; slip: only before the thread runs
CancellableEarly == enState = "PENDING"
Cancellable == enState \in {"PENDING", "RUNNING"}

\* Thread::join() has to wait; slip: it does not
JoinBlocksNever == FALSE
JoinBlocks == enState \in {"PENDING", "RUNNING"}

-----------------------------------------------------------------------------
(* NativeExecutor::submit(), called by the owner of the task               *)

\* if (!task->idle()) return false
SubmitCheck(c, t) ==
  /\ Serving
  /\ cpc[c] = "idle"
  /\ Owner[t] = c
  /\ IsIdle(t)
  /\ cpc'   = [cpc EXCEPT ![c] = "lock"]
  /\ ctask' = [ctask EXCEPT ![c] = t]
  /\ UNCHANGED <<thread, list, nState, nCode, wpc, wtask, hpc, accepted>>

\* if (!atomic_trylock(nLock)) return false
SubmitLock(c) ==
  /\ cpc[c] = "lock"
  /\ nLock' = TryLock
  /\ IF nLock = 1
       THEN cpc' = [cpc EXCEPT ![c] = "mark"] /\ UNCHANGED ctask
       ELSE cpc' = [cpc EXCEPT ![c] = "idle"] /\ ctask' = [ctask EXCEPT ![c] = NoTask]
  /\ UNCHANGED <<thread, pHead, pTail, pNext, nState, nCode, wpc, wtask, hpc, accepted>>

\* change_task_state(task, TS_SUBMITTED)
SubmitMark(c) ==
  /\ cpc[c] = "mark"
  /\ nState' = [nState EXCEPT ![ctask[c]] = "submitted"]
  /\ cpc'    = [cpc EXCEPT ![c] = "link"]
  /\ UNCHANGED <<thread, list, nCode, ctask, wpc, wtask, hpc, accepted>>

\* link at the tail, release the lock, return true
SubmitLink(c) ==
  LET t == ctask[c] IN
  /\ cpc[c] = "link"
  /\ IF pTail # NoTask
       THEN pNext' = [pNext EXCEPT ![pTail] = t, ![t] = NoTask] /\ UNCHANGED pHead
       ELSE pHead' = t /\ UNCHANGED pNext
  /\ pTail'    = t
  /\ nLock'    = 1
  /\ accepted' = Append(accepted, t)
  /\ cpc'      = [cpc EXCEPT ![c] = "idle"]
  /\ ctask'    = [ctask EXCEPT ![c] = NoTask]
  /\ UNCHANGED <<thread, nState, nCode, wpc, wtask, hpc>>

\* ITask::reset() by the owner that saw the task completed
ResetTask(t) ==
  /\ cpc[Owner[t]] = "idle"
  /\ nState[t] = "completed"
  /\ nState' = [nState EXCEPT ![t] = "idle"]
  /\ UNCHANGED <<thread, list, nCode, cpc, ctask, wpc, wtask, hpc, accepted>>

-----------------------------------------------------------------------------
(* The worker: Thread::thread_launcher() around NativeExecutor::run()      *)

\* while (!atomic_cas(&enState, TS_PENDING, TS_RUNNING)) {}
WLaunch ==
  /\ wpc = "launch"
  /\ enState = "PENDING"
  /\ enState' = "RUNNING"
  /\ wpc' = "loop"
  /\ UNCHANGED <<bCancelled, list, nState, nCode, cpc, ctask, wtask, hpc, accepted>>

\* while (!is_cancelled()); sleeping on an empty queue makes the same test
WLoop ==
  /\ wpc \in {"loop", "idlewait"}
  /\ wpc' = IF bCancelled THEN "finish" ELSE "lock"
  /\ UNCHANGED <<thread, list, nState, nCode, cpc, ctask, wtask, hpc, accepted>>

\* atomic_trylock(nLock) succeeds; a failed attempt changes nothing and is retried
WLock ==
  /\ wpc = "lock"
  /\ nLock = 1
  /\ nLock' = TryLock
  /\ wpc' = "fetch"
  /\ UNCHANGED <<thread, pHead, pTail, pNext, nState, nCode, cpc, ctask, wtask, hpc, accepted>>

\* atomic_trylock(nLock) failed and sleep(100) returned STATUS_CANCELLED
WLockCancelled ==
  /\ wpc = "lock"
  /\ nLock = 0
  /\ bCancelled
  /\ wpc' = "finish"
  /\ UNCHANGED <<thread, list, nState, nCode, cpc, ctask, wtask, hpc, accepted>>

\* queue empty: release the lock and sleep
WEmpty ==
  /\ wpc = "fetch"
  /\ pHead = NoTask
  /\ nLock' = 1
  /\ wpc' = "idlewait"
  /\ UNCHANGED <<thread, pHead, pTail, pNext, nState, nCode, cpc, ctask, wtask, hpc, accepted>>

\* remove the head of the queue, release the lock
WFetch ==
  /\ wpc = "fetch"
  /\ pHead # NoTask
  /\ wtask' = pHead
  /\ pHead' = pNext[pHead]
  /\ pNext' = [pNext EXCEPT ![pHead] = NoTask]
  /\ pTail' = TailAfter(pHead')
  /\ nLock' = 1
  /\ wpc' = "run"
  /\ UNCHANGED <<thread, nState, nCode, cpc, ctask, hpc, accepted>>

\* run_task(): nState = TS_RUNNING; nCode = 0
WRun ==
  /\ wpc = "run"
  /\ nState' = [nState EXCEPT ![wtask] = "running"]
  /\ nCode'  = [nCode EXCEPT ![wtask] = 0]
  /\ accepted' = Tail(accepted)
  /\ wpc' = "running"
  /\ UNCHANGED <<thread, list, cpc, ctask, wtask, hpc>>

\* nCode = task->run()
WReturn ==
  /\ wpc = "running"
  /\ \E r \in Codes : nCode' = [nCode EXCEPT ![wtask] = r]
  /\ wpc' = "complete"
  /\ UNCHANGED <<thread, list, nState, cpc, ctask, wtask, hpc, accepted>>

\* nState = TS_COMPLETED
WComplete ==
  /\ wpc = "complete"
  /\ nState' = [nState EXCEPT ![wtask] = "completed"]
  /\ wtask' = NoTask
  /\ wpc' = "loop"
  /\ UNCHANGED <<thread, list, nCode, cpc, ctask, hpc, accepted>>

\* run() returned: atomic_cas(&enState, state, TS_FINISHED)
WFinish ==
  /\ wpc = "finish"
  /\ enState' = "FINISHED"
  /\ wpc' = "result"
  /\ UNCHANGED <<bCancelled, list, nState, nCode, cpc, ctask, wtask, hpc, accepted>>

\* nResult = res, after TS_FINISHED is visible: STATUS_OK, which it held already
WResult ==
  /\ wpc = "result"
  /\ wpc' = "exited"
  /\ UNCHANGED <<thread, list, nState, nCode, cpc, ctask, wtask, hpc, accepted>>

-----------------------------------------------------------------------------
(* The host: start() in get_executor(), shutdown() in destroy()            *)

\* pthread_create() succeeds; on failure the wrapper deletes the executor
HStart ==
  /\ hpc = "start"
  /\ \/ hpc' = "starting" /\ wpc' = "launch"
     \/ hpc' = "failed" /\ UNCHANGED wpc
  /\ UNCHANGED <<thread, list, nState, nCode, cpc, ctask, wtask, accepted>>

\* enState = TS_PENDING, after the thread exists
HPending ==
  /\ hpc = "starting"
  /\ enState' = "PENDING"
  /\ hpc' = "serving"
  /\ UNCHANGED <<bCancelled, list, nState, nCode, cpc, ctask, wpc, wtask, accepted>>

HShutdown ==
  /\ hpc = "serving"
  /\ hpc' = "drain"
  /\ UNCHANGED <<thread, list, nState, nCode, cpc, ctask, wpc, wtask, accepted>>

\* if (atomic_trylock(nLock)), else sleep(100) and again
HLock ==
  /\ hpc = "drain"
  /\ nLock = 1
  /\ nLock' = TryLock
  /\ hpc' = "check"
  /\ UNCHANGED <<thread, pHead, pTail, pNext, nState, nCode, cpc, ctask, wpc, wtask, accepted>>

\* if (pHead == NULL) break, which keeps the lock; else release it
HCheck ==
  /\ hpc = "check"
  /\ IF Drained
       THEN hpc' = "cancel" /\ nLock' = LockAfterDrain
       ELSE hpc' = "drain" /\ nLock' = 1
  /\ UNCHANGED <<thread, pHead, pTail, pNext, nState, nCode, cpc, ctask, wpc, wtask, accepted>>

\* Thread::cancel()
HCancel ==
  /\ hpc = "cancel"
  /\ bCancelled' = (bCancelled \/ Cancellable)
  /\ hpc' = "join"
  /\ UNCHANGED <<enState, list, nState, nCode, cpc, ctask, wpc, wtask, accepted>>

\* Thread::join(): the switch returns at once for CREATED and FINISHED
HJoin ==
  /\ hpc = "join"
  /\ hpc' = IF JoinBlocks THEN "wait" ELSE "down"
  /\ UNCHANGED <<thread, list, nState, nCode, cpc, ctask, wpc, wtask, accepted>>

\* pthread_join() returns once the launcher did
HWait ==
  /\ hpc = "wait"
  /\ wpc = "exited"
  /\ hpc' = "down"
  /\ UNCHANGED <<thread, list, nState, nCode, cpc, ctask, wpc, wtask, accepted>>

-----------------------------------------------------------------------------
Client(c) ==
  \/ \E t \in Tasks : SubmitCheck(c, t) \/ (Owner[t] = c /\ ResetTask(t))
  \/ SubmitLock(c) \/ SubmitMark(c) \/ SubmitLink(c)

Worker ==
  \/ WLaunch \/ WLoop \/ WLock \/ WLockCancelled \/ WEmpty \/ WFetch
  \/ WRun \/ WReturn \/ WComplete \/ WFinish \/ WResult

Host ==
  \/ HStart \/ HPending \/ HShutdown \/ HLock \/ HCheck
  \/ HCancel \/ HJoin \/ HWait

\* the executor was never handed out, or it is down and its owners are idle
Stopped ==
  /\ hpc \in {"failed", "down"}
  /\ wpc \in {"none", "exited"}
  /\ \A c \in Clients : cpc[c] = "idle"
  /\ UNCHANGED vars

Next == (\E c \in Clients : Client(c)) \/ Worker \/ Host \/ Stopped

Spec == Init /\ [][Next]_vars

(***************************************************************************)
(* Fairness: the operating system schedules every thread. Client calls are *)
(* never obliged to begin, but a call that began goes on. The worker and   *)
(* shutdown() poll the lock every 100 ms while its holders keep it for a   *)
(* few instructions: an attempt that keeps finding chances succeeds, hence *)
(* strong fairness of the attempts that find the lock free.                *)
(***************************************************************************)
Fairness ==
  /\ WF_vars(Worker)
  /\ SF_vars(WLock)
  /\ \A c \in Clients : WF_vars(SubmitLock(c) \/ SubmitMark(c) \/ SubmitLink(c))
  /\ WF_vars(HPending) /\ WF_vars(HCheck) /\ WF_vars(HCancel)
  /\ WF_vars(HJoin) /\ WF_vars(HWait)
  /\ SF_vars(HLock)

FairSpec == Spec /\ Fairness

-----------------------------------------------------------------------------
(* Properties                                                              *)

\* Every variable keeps its range; the lock word never leaves {0, 1}.
TypeOK ==
  /\ enState \in {"CREATED", "PENDING", "RUNNING", "FINISHED"}
  /\ bCancelled \in BOOLEAN
  /\ nLock \in {0, 1}
  /\ pHead \in Tasks \cup {NoTask}
  /\ pTail \in Tasks \cup {NoTask}
  /\ pNext \in [Tasks -> Tasks \cup {NoTask}]
  /\ nState \in [Tasks -> {"idle", "submitted", "running", "completed"}]
  /\ nCode \in [Tasks -> Codes]
  /\ cpc \in [Clients -> {"idle", "lock", "mark", "link"}]
  /\ ctask \in [Clients -> Tasks \cup {NoTask}]
  /\ wpc \in {"none", "launch", "loop", "lock", "fetch", "idlewait",
              "run", "running", "complete", "finish", "result", "exited"}
  /\ wtask \in Tasks \cup {NoTask}
  /\ hpc \in {"start", "starting", "failed", "serving", "drain", "check",
              "cancel", "join", "wait", "down"}
  /\ accepted \in Seq(Tasks)

(***************************************************************************)
(* The intrusive list under pHead/pTail/pNext is the sequence of tasks     *)
(* accepted and not fetched: no submission is lost when the queue runs     *)
(* empty and refills, no stale pTail or pNext links a task that already    *)
(* ran (NativeExecutor.cpp:63-67, 126-128, IExecutor.h:41-52).             *)
(***************************************************************************)
Fetched == IF wpc = "run" THEN 1 ELSE 0     \* accepted[1] is in the worker's hands

QueueIsAccepted ==
  LET n == Len(accepted) IN
  /\ wpc = "run" => n > 0 /\ accepted[1] = wtask
  /\ pHead = IF n > Fetched THEN accepted[Fetched + 1] ELSE NoTask
  /\ pTail = IF n > Fetched THEN accepted[n] ELSE NoTask
  /\ \A i \in 1..n : i > Fetched /\ i < n => pNext[accepted[i]] = accepted[i + 1]
  /\ \A t \in Tasks :
       (\A i \in 1..n : i > Fetched /\ i < n => accepted[i] # t) => pNext[t] = NoTask

(***************************************************************************)
(* The lock serialises the three kinds of users of the list, and shutdown  *)
(* takes it for good (NativeExecutor.cpp:55, 82-86, 108).                  *)
(***************************************************************************)
HostHolds      == hpc \in {"check", "cancel", "join", "wait", "down"}
ClientHolds(c) == cpc[c] \in {"mark", "link"}

LockExclusive ==
  /\ \A c \in Clients : ClientHolds(c) => nLock = 0 /\ wpc # "fetch" /\ ~HostHolds
  /\ \A c, d \in Clients : ClientHolds(c) /\ ClientHolds(d) => c = d
  /\ wpc = "fetch" => nLock = 0 /\ ~HostHolds
  /\ HostHolds => nLock = 0

(***************************************************************************)
(* Every task that reads as submitted is somewhere it will be run from,    *)
(* exactly once, and at most one task runs (ITask.h:35-41).                *)
(***************************************************************************)
TasksAccounted ==
  /\ \A i, j \in 1..Len(accepted) : accepted[i] = accepted[j] => i = j
  /\ \A i \in 1..Len(accepted) : nState[accepted[i]] = "submitted"
  /\ \A t \in Tasks : nState[t] = "submitted" =>
       \/ \E i \in 1..Len(accepted) : accepted[i] = t
       \/ cpc[Owner[t]] = "link" /\ ctask[Owner[t]] = t
  /\ \A t \in Tasks : nState[t] = "running" <=> wpc \in {"running", "complete"} /\ wtask = t

(***************************************************************************)
(* When shutdown() returns no task is submitted or running, and none ever  *)
(* will be (IExecutor.h:83-87, "must return only when all tasks have been  *)
(* completed or terminated"). The worker may still be about to store       *)
(* nResult: join() returns at once for TS_FINISHED (Thread.cpp:235, 263).  *)
(***************************************************************************)
ShutdownDrained ==
  hpc = "down" =>
    /\ accepted = <<>>
    /\ \A t \in Tasks : nState[t] \in {"idle", "completed"}
    /\ wpc \in {"result", "exited"}

(***************************************************************************)
(* A submitted task is eventually completed (NativeExecutor.cpp:101-139),  *)
(* also when shutdown() is called meanwhile.                               *)
(***************************************************************************)
SubmittedCompletes ==
  \A t \in Tasks : nState[t] = "submitted" ~> nState[t] = "completed"

(***************************************************************************)
(* shutdown() returns if the clients stop at some time: its unbounded wait *)
(* for an empty queue and the join behind a lock that is never released    *)
(* both end (NativeExecutor.cpp:74). Clients that submit for ever could    *)
(* keep the queue from being found empty.                                  *)
(***************************************************************************)
ClientsStop == <>[](\A c \in Clients : cpc[c] = "idle")

ShutdownReturns == ClientsStop => (hpc = "drain" ~> hpc = "down")

(***************************************************************************)
(* The executor implements TaskService: a task counts as submitted when it *)
(* is linked, and its code is what the owner reads once it is completed.   *)
(***************************************************************************)
Linking(t) == cpc[Owner[t]] = "link" /\ ctask[Owner[t]] = t

ServiceState == [t \in Tasks |-> IF Linking(t) THEN "idle" ELSE nState[t]]
ServiceCode  == [t \in Tasks |-> IF nState[t] = "completed" THEN nCode[t] ELSE NoCode]
ServicePhase == IF hpc = "down" THEN "down"
                ELSE IF hpc \in {"cancel", "join", "wait"} THEN "closed" ELSE "open"

Service == INSTANCE TaskService WITH
  state <- ServiceState, code <- ServiceCode, order <- accepted, phase <- ServicePhase

ImplementsTaskService == Service!Spec
=============================================================================
