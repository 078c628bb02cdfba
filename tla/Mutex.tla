------------------------------- MODULE Mutex -------------------------------
(***************************************************************************)
(* ipc::Mutex on Linux: the recursive mutex, made of an atomic word and    *)
(* the futex system call, that guards the KVT storage and the UI queues.   *)
(*                                                                         *)
(* Each access to nLock is a step, because any thread makes it. nThreadId  *)
(* is read by all but compared with the reader's own identifier only, and  *)
(* nLocks is used by the owner only, so they change with the step next to  *)
(* them.                                                                   *)
(***************************************************************************)
EXTENDS Integers

CONSTANTS
  Threads,   (* the threads that use the mutex                   *)
  NoThread,  (* nThreadId = -1                                   *)
  MaxDepth   (* bound: how often a thread locks without undoing  *)

ASSUME MutexAssumption ==
  /\ NoThread \notin Threads
  /\ MaxDepth \in Nat \ {0}

VARIABLES
  nLock,      (* 1 is free, 0 is locked                                    *)
  nThreadId,  (* the thread that holds the lock                            *)
  nLocks,     (* how often it locked it                                    *)
  pc,         (* where each thread is: "idle" is outside the three methods *)
  held        (* history: locks that succeeded and are not undone          *)

vars == <<nLock, nThreadId, nLocks, pc, held>>

Init ==
  /\ nLock     = 1
  /\ nThreadId = NoThread
  /\ nLocks    = 0
  /\ pc        = [t \in Threads |-> "idle"]
  /\ held      = [t \in Threads |-> 0]

Go(t, label) == pc' = [pc EXCEPT ![t] = label]

\* nThreadId == pthread_self(); slip: somebody holds the mutex
OwnsAny(t) == nThreadId # NoThread
Owns(t) == nThreadId = t

-----------------------------------------------------------------------------
(* lock() and try_lock()                                                   *)

\* the owner locks again
Relock(t) ==
  /\ pc[t] = "idle"
  /\ Owns(t)
  /\ held[t] < MaxDepth
  /\ nLocks' = nLocks + 1
  /\ held'   = [held EXCEPT ![t] = @ + 1]
  /\ UNCHANGED <<nLock, nThreadId, pc>>

\* another thread enters the loop of lock()
Lock(t) ==
  /\ pc[t] = "idle"
  /\ ~ Owns(t)
  /\ Go(t, "cas")
  /\ UNCHANGED <<nLock, nThreadId, nLocks, held>>

\* atomic_cas(&nLock, 1, 0) in lock()
LockCas(t) ==
  /\ pc[t] = "cas"
  /\ IF nLock = 1
       THEN nLock' = 0 /\ Go(t, "own")
       ELSE Go(t, "wait") /\ UNCHANGED nLock
  /\ UNCHANGED <<nThreadId, nLocks, held>>

\* the value of nLock at which FUTEX_WAIT does not sleep; slip: it always does
RetryNever == FALSE
Retry == nLock # 0

\* syscall(SYS_futex, &nLock, FUTEX_WAIT, 0)
LockWait(t) ==
  /\ pc[t] = "wait"
  /\ Go(t, IF Retry THEN "cas" ELSE "sleep")
  /\ UNCHANGED <<nLock, nThreadId, nLocks, held>>

\* FUTEX_WAIT returns without a wake-up (a signal): the loop goes on
Interrupt(t) ==
  /\ pc[t] = "sleep"
  /\ Go(t, "cas")
  /\ UNCHANGED <<nLock, nThreadId, nLocks, held>>

\* try_lock() by a thread that is not the owner: one attempt
TryLock(t) ==
  /\ pc[t] = "idle"
  /\ ~ Owns(t)
  /\ nLock = 1
  /\ nLock' = 0
  /\ Go(t, "own")
  /\ UNCHANGED <<nThreadId, nLocks, held>>

\* if (!(nLocks++)) nThreadId = tid
Own(t) ==
  /\ pc[t] = "own"
  /\ nLocks'    = nLocks + 1
  /\ nThreadId' = IF nLocks = 0 THEN t ELSE nThreadId
  /\ held'      = [held EXCEPT ![t] = @ + 1]
  /\ Go(t, "idle")
  /\ UNCHANGED nLock

-----------------------------------------------------------------------------
(* unlock()                                                                *)

\* if (!(--nLocks)) goes on to free the mutex; slip: whatever the count
LastAlways == TRUE
Last == nLocks = 1

\* a thread that is not the owner gets false and changes nothing
Unlock(t) ==
  /\ pc[t] = "idle"
  /\ Owns(t)
  /\ nLocks' = nLocks - 1
  /\ held'   = [held EXCEPT ![t] = @ - 1]
  /\ IF Last
       THEN nThreadId' = NoThread /\ Go(t, "free")
       ELSE UNCHANGED <<nThreadId, pc>>
  /\ UNCHANGED nLock

\* atomic_cas(&nLock, 0, 1)
UnlockCas(t) ==
  /\ pc[t] = "free"
  /\ nLock' = 1
  /\ Go(t, "wake")
  /\ UNCHANGED <<nThreadId, nLocks, held>>

\* the threads FUTEX_WAKE may wake; slip: the call is skipped
WokenNever == {}
Woken == {s \in Threads : pc[s] = "sleep"}

\* syscall(SYS_futex, &nLock, FUTEX_WAKE, 1)
UnlockWake(t) ==
  /\ pc[t] = "wake"
  /\ IF Woken = {}
       THEN Go(t, "idle")
       ELSE \E s \in Woken : pc' = [pc EXCEPT ![t] = "idle", ![s] = "cas"]
  /\ UNCHANGED <<nLock, nThreadId, nLocks, held>>

Next ==
  \E t \in Threads :
    \/ Relock(t)  \/ Lock(t)      \/ LockCas(t) \/ LockWait(t) \/ Interrupt(t)
    \/ TryLock(t) \/ Own(t)       \/ Unlock(t)  \/ UnlockCas(t) \/ UnlockWake(t)

Spec == Init /\ [][Next]_vars

(***************************************************************************)
(* A thread inside lock() or unlock() is scheduled, and whoever holds the  *)
(* mutex ends its critical section: its users hold it for one pass over    *)
(* the storage. Nobody has to call lock(), and no signal has to arrive.    *)
(***************************************************************************)
Fairness ==
  \A t \in Threads :
    /\ WF_vars(LockCas(t)) /\ WF_vars(LockWait(t)) /\ WF_vars(Own(t))
    /\ WF_vars(UnlockCas(t)) /\ WF_vars(UnlockWake(t))
    /\ SF_vars(Unlock(t) /\ nLocks = 1) /\ WF_vars(Unlock(t))

FairSpec == Spec /\ Fairness

-----------------------------------------------------------------------------
(* Properties                                                              *)

\* Every variable keeps its range: nLocks never falls below zero.
TypeOK ==
  /\ nLock \in {0, 1}
  /\ nThreadId \in Threads \cup {NoThread}
  /\ nLocks \in 0..MaxDepth
  /\ pc \in [Threads -> {"idle", "cas", "wait", "sleep", "own", "free", "wake"}]
  /\ held \in [Threads -> 0..MaxDepth]

\* t is between the CAS that took the mutex and the one that frees it
Inside(t) == pc[t] \in {"own", "free"} \/ held[t] > 0

\* At most one thread is inside, and only while the word says locked
\* (Mutex.cpp:106-118, 149-158).
MutualExclusion ==
  /\ \A s, t \in Threads : Inside(s) /\ Inside(t) => s = t
  /\ nLock = 0 <=> \E t \in Threads : Inside(t)

\* nThreadId and nLocks, which are written outside of any atomic operation,
\* describe the thread inside: the owner is recognised as such in every state
\* it can call from, no other thread ever is, and its locks are all counted.
OwnerKnown ==
  /\ \A t \in Threads : nThreadId = t <=> held[t] > 0
  /\ \A t \in Threads : held[t] > 0 => nLocks = held[t] /\ pc[t] = "idle"
  /\ nThreadId = NoThread => nLocks = 0

\* No wake-up is lost: when the mutex is free and a thread sleeps, another
\* one is about to wake a sleeper or to try the word again.
NoLostWakeup ==
  nLock = 1 /\ (\E t \in Threads : pc[t] = "sleep") =>
    \E t \in Threads : pc[t] \in {"wake", "cas", "wait"}

\* While a thread sleeps the mutex goes on being taken, even if nobody else
\* calls lock() any more: the last unlock() hands it to a sleeper.
SleepersProgress ==
  (\E t \in Threads : pc[t] = "sleep") ~> (\E t \in Threads : pc[t] = "own")

Abstract == INSTANCE RecursiveLock WITH depth <- held

\* The mutex implements the recursive lock.
ImplementsRecursiveLock == Abstract!Spec
=============================================================================
