---------------------------- MODULE MutexProofs ----------------------------
(***************************************************************************)
(* What holds of ipc::Mutex for any number of threads: its invariants and  *)
(* that it implements the recursive lock.                                  *)
(***************************************************************************)
EXTENDS Mutex, TLAPS

IInv == TypeOK /\ MutualExclusion /\ OwnerKnown

-----------------------------------------------------------------------------
(* Nobody is inside at first.                                              *)
LEMMA InitInv == Init => IInv
BY MutexAssumption
DEF MutexAssumption, Init, IInv, TypeOK, MutualExclusion, OwnerKnown, Inside

(* Each step keeps the three parts: it moves at most one thread in or out, *)
(* and the thread that is inside is the only one that may leave.           *)
LEMMA NextInv == IInv /\ [Next]_vars => IInv'
<1> SUFFICES ASSUME IInv, [Next]_vars PROVE IInv'
  OBVIOUS
<1> USE MutexAssumption DEF MutexAssumption, IInv, TypeOK, Go, Owns
<1>s CASE UNCHANGED vars
  BY <1>s DEF vars, MutualExclusion, OwnerKnown, Inside
<1>1 ASSUME NEW t \in Threads, Relock(t) PROVE IInv'
  <2>1 TypeOK'
    BY <1>1 DEF Relock, OwnerKnown
  <2>2 MutualExclusion'
    BY <1>1 DEF Relock, MutualExclusion, OwnerKnown, Inside
  <2>3 OwnerKnown'
    BY <1>1 DEF Relock, MutualExclusion, OwnerKnown, Inside
  <2> QED
    BY <2>1, <2>2, <2>3
<1>2 ASSUME NEW t \in Threads, Lock(t) PROVE IInv'
  BY <1>2 DEF Lock, MutualExclusion, OwnerKnown, Inside
<1>3 ASSUME NEW t \in Threads, LockCas(t) PROVE IInv'
  <2>1 TypeOK'
    BY <1>3 DEF LockCas
  <2>2 MutualExclusion'
    BY <1>3 DEF LockCas, MutualExclusion, OwnerKnown, Inside
  <2>3 OwnerKnown'
    BY <1>3 DEF LockCas, OwnerKnown
  <2> QED
    BY <2>1, <2>2, <2>3
<1>4 ASSUME NEW t \in Threads, LockWait(t) PROVE IInv'
  BY <1>4 DEF LockWait, Retry, MutualExclusion, OwnerKnown, Inside
<1>5 ASSUME NEW t \in Threads, Interrupt(t) PROVE IInv'
  BY <1>5 DEF Interrupt, MutualExclusion, OwnerKnown, Inside
<1>6 ASSUME NEW t \in Threads, TryLock(t) PROVE IInv'
  <2>1 TypeOK'
    BY <1>6 DEF TryLock
  <2>2 MutualExclusion'
    BY <1>6 DEF TryLock, MutualExclusion, OwnerKnown, Inside
  <2>3 OwnerKnown'
    BY <1>6 DEF TryLock, OwnerKnown
  <2> QED
    BY <2>1, <2>2, <2>3
<1>7 ASSUME NEW t \in Threads, Own(t) PROVE IInv'
  <2>a \A s \in Threads : held[s] = 0
    BY <1>7 DEF Own, MutualExclusion, OwnerKnown, Inside
  <2>0 nLocks = 0 /\ \A s \in Threads : held[s] = 0
    BY <2>a DEF OwnerKnown
  <2>1 TypeOK'
    BY <1>7, <2>0 DEF Own
  <2>2 MutualExclusion'
    BY <1>7, <2>0 DEF Own, MutualExclusion, Inside
  <2>3 OwnerKnown'
    BY <1>7, <2>0 DEF Own, MutualExclusion, OwnerKnown, Inside
  <2> QED
    BY <2>1, <2>2, <2>3
<1>8 ASSUME NEW t \in Threads, Unlock(t) PROVE IInv'
  <2>0 held[t] > 0 /\ nLocks = held[t]
    BY <1>8 DEF Unlock, OwnerKnown
  <2>1 TypeOK'
    BY <1>8, <2>0 DEF Unlock, Last
  <2>2 MutualExclusion'
    BY <1>8, <2>0 DEF Unlock, Last, MutualExclusion, OwnerKnown, Inside
  <2>3 OwnerKnown'
    BY <1>8, <2>0 DEF Unlock, Last, MutualExclusion, OwnerKnown, Inside
  <2> QED
    BY <2>1, <2>2, <2>3
<1>9 ASSUME NEW t \in Threads, UnlockCas(t) PROVE IInv'
  <2>1 TypeOK'
    BY <1>9 DEF UnlockCas
  <2>2 MutualExclusion'
    BY <1>9 DEF UnlockCas, MutualExclusion, OwnerKnown, Inside
  <2>3 OwnerKnown'
    BY <1>9 DEF UnlockCas, MutualExclusion, OwnerKnown, Inside
  <2> QED
    BY <2>1, <2>2, <2>3
<1>10 ASSUME NEW t \in Threads, UnlockWake(t) PROVE IInv'
  BY <1>10 DEF UnlockWake, Woken, MutualExclusion, OwnerKnown, Inside
<1> QED
  BY <1>s, <1>1, <1>2, <1>3, <1>4, <1>5, <1>6, <1>7, <1>8, <1>9, <1>10 DEF Next

(* In every state of every run the mutex is typed, held by one thread at   *)
(* most, and nThreadId and nLocks tell which one and how often.            *)
THEOREM MutexInv == Spec => [](TypeOK /\ MutualExclusion /\ OwnerKnown)
<1>1 Spec => []IInv
  BY InitInv, NextInv, PTL DEF Spec
<1> QED
  BY <1>1, PTL DEF IInv

(* nLocks never falls below zero and the futex word stays in {0, 1}, even  *)
(* though unlock() decrements outside of the CAS.                          *)
THEOREM MutexTypeOK == Spec => []TypeOK
  BY MutexInv, PTL

-----------------------------------------------------------------------------
(* A free mutex with a sleeper always has a thread that will wake it or    *)
(* try the word: LockWait puts a thread to sleep only while the word says  *)
(* locked, and the step that frees it goes on to the wake-up.              *)
THEOREM MutexNoLostWakeup == Spec => []NoLostWakeup
<1>1 Init => NoLostWakeup
  BY DEF Init, NoLostWakeup
<1>2 IInv /\ NoLostWakeup /\ [Next]_vars => NoLostWakeup'
  <2> SUFFICES ASSUME IInv, NoLostWakeup, [Next]_vars PROVE NoLostWakeup'
    OBVIOUS
  <2> USE DEF IInv, TypeOK, Go, NoLostWakeup
  <2>s CASE UNCHANGED vars
    BY <2>s DEF vars
  <2>1 ASSUME NEW t \in Threads, Relock(t) PROVE NoLostWakeup'
    BY <2>1 DEF Relock
  <2>2 ASSUME NEW t \in Threads, Lock(t) PROVE NoLostWakeup'
    BY <2>2 DEF Lock
  <2>3 ASSUME NEW t \in Threads, LockCas(t) PROVE NoLostWakeup'
    BY <2>3 DEF LockCas
  <2>4 ASSUME NEW t \in Threads, LockWait(t) PROVE NoLostWakeup'
    BY <2>4 DEF LockWait, Retry
  <2>5 ASSUME NEW t \in Threads, Interrupt(t) PROVE NoLostWakeup'
    BY <2>5 DEF Interrupt
  <2>6 ASSUME NEW t \in Threads, TryLock(t) PROVE NoLostWakeup'
    BY <2>6 DEF TryLock
  <2>7 ASSUME NEW t \in Threads, Own(t) PROVE NoLostWakeup'
    BY <2>7 DEF Own, MutualExclusion, Inside
  <2>8 ASSUME NEW t \in Threads, Unlock(t) PROVE NoLostWakeup'
    BY <2>8 DEF Unlock, MutualExclusion, OwnerKnown, Inside, Owns
  <2>9 ASSUME NEW t \in Threads, UnlockCas(t) PROVE NoLostWakeup'
    BY <2>9 DEF UnlockCas
  <2>10 ASSUME NEW t \in Threads, UnlockWake(t) PROVE NoLostWakeup'
    BY <2>10 DEF UnlockWake, Woken
  <2> QED
    BY <2>s, <2>1, <2>2, <2>3, <2>4, <2>5, <2>6, <2>7, <2>8, <2>9, <2>10 DEF Next
<1> QED
  BY <1>1, <1>2, InitInv, NextInv, PTL DEF Spec

-----------------------------------------------------------------------------
(* A step of the mutex is an Acquire, an Undo or nothing to the recursive  *)
(* lock: lock() and try_lock() acquire where held grows, unlock() undoes.  *)
THEOREM MutexRefinement == Spec => ImplementsRecursiveLock
<1>1 Init => Abstract!Init
  BY DEF Init, Abstract!Init
<1>2 IInv /\ [Next]_vars => [Abstract!Next]_held
  <2> SUFFICES ASSUME IInv, [Next]_vars PROVE [Abstract!Next]_held
    OBVIOUS
  <2> USE DEF IInv, TypeOK
  <2>1 ASSUME NEW t \in Threads, Relock(t) PROVE Abstract!Acquire(t)
    BY <2>1 DEF Relock, Owns, Abstract!Acquire, OwnerKnown
  <2>2 ASSUME NEW t \in Threads, Own(t) PROVE Abstract!Acquire(t)
    BY <2>2 DEF Own, Abstract!Acquire, MutualExclusion, Inside
  <2>3 ASSUME NEW t \in Threads, Unlock(t) PROVE Abstract!Undo(t)
    BY <2>3 DEF Unlock, Owns, Abstract!Undo, OwnerKnown
  <2>4 ASSUME NEW t \in Threads,
              Lock(t) \/ LockCas(t) \/ LockWait(t) \/ Interrupt(t) \/ TryLock(t)
                \/ UnlockCas(t) \/ UnlockWake(t)
       PROVE held' = held
    BY <2>4 DEF Lock, LockCas, LockWait, Interrupt, TryLock, UnlockCas, UnlockWake
  <2> QED
    BY <2>1, <2>2, <2>3, <2>4 DEF Next, vars, Abstract!Next
<1> QED
  BY <1>1, <1>2, InitInv, NextInv, PTL DEF Spec, ImplementsRecursiveLock, Abstract!Spec
=============================================================================
