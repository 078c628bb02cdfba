--------------------------- MODULE ArtDelayProofs ---------------------------
(***************************************************************************)
(* The memory of a delay line is owned once at every step, for one or two  *)
(* channels, all lengths and any number of changes of the settings and of  *)
(* failing allocations. IInv, which TLC checks on the small instance, is   *)
(* inductive: one step per action, one below it per part it can disturb.   *)
(***************************************************************************)
EXTENDS ArtDelay, TLAPS

USE ArtDelayAssumption

\* The values run() gives to its counter of channels.
LEMMA ChannelSteps ==
  /\ 1 \in 1..(Channels + 1)
  /\ \A c \in Chan : c + 1 \in 1..(Channels + 1)
  BY ArtDelayAssumption DEF Chan

\* Capacities are integers: what run() adds to the counter is one.
LEMMA CapacityInt == ASSUME NEW n \in Int PROVE Capacity(n) \in Int
  BY DEF Capacity

\* At the beginning nothing runs and nothing is allocated.
LEMMA InitIInv == Init => IInv
  <1> SUFFICES ASSUME Init PROVE IInv
    OBVIOUS
  <1> USE DEF Init, Executor!Init
  <1>1. TypeOK
    <2>1. /\ state \in [{Allocator} -> {"idle", "submitted", "running", "completed"}]
          /\ code \in [{Allocator} -> {OK, NO_MEM, NoCode}]
      OBVIOUS
    <2>2. wch \in 1..(Channels + 1)
      BY ChannelSteps
    <2>3. /\ pPDelay \in [Chan -> Objects \cup {NULL}]
          /\ pCDelay \in [Chan -> Objects \cup {NULL}]
          /\ pGDelay \in [Chan -> Objects \cup {NULL}]
          /\ delay \in [Objects -> Sizes \cup {0, NULL}]
      OBVIOUS
    <2>4. bOn \in BOOLEAN
      OBVIOUS
    <2>5. QED
      BY <2>1, <2>2, <2>3, <2>4 DEF TypeOK
  <1>2. WorkerKnown /\ DropsFirst /\ DownIsQuiet
    BY DEF WorkerKnown, DropsFirst, DownIsQuiet
  <1>3. OwnedOnce
    BY DEF OwnedOnce, Holds, Objects, Chan
  <1>4. NothingLeft
    BY DEF NothingLeft, Allocated
  <1>5. QED
    BY <1>1, <1>2, <1>3, <1>4 DEF IInv

\* Every step of the two threads and of the host preserves the invariant.
LEMMA NextIInv == IInv /\ [Next]_vars => IInv'
  <1> SUFFICES ASSUME IInv, [Next]_vars PROVE IInv'
    OBVIOUS
  <1> USE DEF IInv
  <1>1. CASE RunStart
    <2> USE <1>1 DEF RunStart, Executor!Start, RunBegins, exec, settings, slots, memory, worker
    <2>1. TypeOK'
      BY ChannelSteps DEF TypeOK
    <2>2. WorkerKnown' /\ DownIsQuiet'
      BY DEF TypeOK, WorkerKnown, DownIsQuiet
    <2>3. DropsFirst'
      BY DEF TypeOK, WorkerKnown, DropsFirst, Chan
    <2>4. OwnedOnce'
      BY DEF OwnedOnce, Holds
    <2>5. NothingLeft'
      BY DEF NothingLeft, Allocated, WorkerKnown, DownIsQuiet
    <2>6. QED
      BY <2>1, <2>2, <2>3, <2>4, <2>5 DEF IInv
  <1>2. CASE RunCount
    <2> USE <1>2 DEF RunCount, exec, settings, slots, memory, worker
    <2>1. TypeOK'
      BY DEF TypeOK
    <2>2. WorkerKnown' /\ DownIsQuiet'
      BY DEF TypeOK, WorkerKnown, DownIsQuiet
    <2>3. DropsFirst'
      BY DEF TypeOK, WorkerKnown, DropsFirst, Chan
    <2>4. OwnedOnce'
      BY DEF OwnedOnce, Holds
    <2>5. NothingLeft'
      BY DEF NothingLeft, Allocated, WorkerKnown, DownIsQuiet
    <2>6. QED
      BY <2>1, <2>2, <2>3, <2>4, <2>5 DEF IInv
  <1>3. CASE RunDrop
    <2> USE <1>3 DEF RunDrop, Deleted, Used, exec, settings, slots, memory, worker
    <2>1. TypeOK'
      BY CapacityInt DEF TypeOK, OwnedOnce, Holds
    <2>2. WorkerKnown' /\ DownIsQuiet'
      BY DEF TypeOK, WorkerKnown, DownIsQuiet
    <2>3. DropsFirst'
      BY DEF TypeOK, WorkerKnown, DropsFirst, Chan
    <2>4. OwnedOnce'
      BY DEF OwnedOnce, Holds, TypeOK, DropsFirst, Objects
    <2>5. NothingLeft'
      BY DEF NothingLeft, Allocated, WorkerKnown, DownIsQuiet
    <2>6. QED
      BY <2>1, <2>2, <2>3, <2>4, <2>5 DEF IInv
  <1>4. CASE RunDropNext
    <2> USE <1>4 DEF RunDropNext, exec, settings, slots, memory, worker
    <2>1. TypeOK'
      BY ChannelSteps DEF TypeOK
    <2>2. WorkerKnown' /\ DownIsQuiet'
      BY DEF TypeOK, WorkerKnown, DownIsQuiet
    <2>3. DropsFirst'
      BY DEF TypeOK, WorkerKnown, DropsFirst, Chan
    <2>4. OwnedOnce'
      BY DEF OwnedOnce, Holds
    <2>5. NothingLeft'
      BY DEF NothingLeft, Allocated, WorkerKnown, DownIsQuiet
    <2>6. QED
      BY <2>1, <2>2, <2>3, <2>4, <2>5 DEF IInv
  <1>5. CASE RunDropEnd
    <2> USE <1>5 DEF RunDropEnd, AfterDrop, exec, settings, slots, memory, worker
    <2>1. TypeOK'
      BY ChannelSteps DEF TypeOK
    <2>2. WorkerKnown' /\ DownIsQuiet'
      BY DEF TypeOK, WorkerKnown, DownIsQuiet
    <2>3. DropsFirst'
      BY DEF TypeOK, WorkerKnown, DropsFirst, Chan
    <2>4. OwnedOnce'
      BY DEF OwnedOnce, Holds
    <2>5. NothingLeft'
      BY DEF NothingLeft, Allocated, WorkerKnown, DownIsQuiet
    <2>6. QED
      BY <2>1, <2>2, <2>3, <2>4, <2>5 DEF IInv
  <1>6. CASE RunKeep
    <2> USE <1>6 DEF RunKeep, exec, settings, slots, memory, worker
    <2>1. TypeOK'
      BY ChannelSteps DEF TypeOK
    <2>2. WorkerKnown' /\ DownIsQuiet'
      BY DEF TypeOK, WorkerKnown, DownIsQuiet
    <2>3. DropsFirst'
      BY DEF TypeOK, WorkerKnown, DropsFirst, Chan
    <2>4. OwnedOnce'
      BY DEF OwnedOnce, Holds
    <2>5. NothingLeft'
      BY DEF NothingLeft, Allocated, WorkerKnown, DownIsQuiet
    <2>6. QED
      BY <2>1, <2>2, <2>3, <2>4, <2>5 DEF IInv
  <1>7. CASE RunAllocate
    <2> USE <1>7 DEF RunAllocate, Free, exec, settings, slots, memory, worker
    <2>1. TypeOK'
      BY ChannelSteps, CapacityInt DEF TypeOK, DropsFirst
    <2>2. WorkerKnown' /\ DownIsQuiet'
      BY DEF TypeOK, WorkerKnown, DownIsQuiet
    <2>3. DropsFirst'
      BY DEF TypeOK, WorkerKnown, DropsFirst, Chan
    <2>4. OwnedOnce'
      BY DEF OwnedOnce, Holds, TypeOK, DropsFirst, Objects
    <2>5. NothingLeft'
      BY DEF NothingLeft, Allocated, WorkerKnown, DownIsQuiet
    <2>6. QED
      BY <2>1, <2>2, <2>3, <2>4, <2>5 DEF IInv
  <1>8. CASE RunFail
    <2> USE <1>8 DEF RunFail, exec, settings, slots, memory, worker
    <2>1. TypeOK'
      BY DEF TypeOK
    <2>2. WorkerKnown' /\ DownIsQuiet'
      BY DEF TypeOK, WorkerKnown, DownIsQuiet
    <2>3. DropsFirst'
      BY DEF TypeOK, WorkerKnown, DropsFirst, Chan
    <2>4. OwnedOnce'
      BY DEF OwnedOnce, Holds
    <2>5. NothingLeft'
      BY DEF NothingLeft, Allocated, WorkerKnown, DownIsQuiet
    <2>6. QED
      BY <2>1, <2>2, <2>3, <2>4, <2>5 DEF IInv
  <1>9. CASE RunReturn
    <2> USE <1>9 DEF RunReturn, Executor!Complete, exec, settings, slots, memory, worker
    <2>1. TypeOK'
      BY ChannelSteps DEF TypeOK
    <2>2. WorkerKnown' /\ DownIsQuiet'
      BY DEF TypeOK, WorkerKnown, DownIsQuiet
    <2>3. DropsFirst'
      BY DEF TypeOK, WorkerKnown, DropsFirst, Chan
    <2>4. OwnedOnce'
      BY DEF OwnedOnce, Holds
    <2>5. NothingLeft'
      BY DEF NothingLeft, Allocated, WorkerKnown, DownIsQuiet
    <2>6. QED
      BY <2>1, <2>2, <2>3, <2>4, <2>5 DEF IInv
  <1>10. CASE SyncResize
    <2> USE <1>10 DEF SyncResize, Submit, Executor!Accept, idle, exec, settings, slots, memory, worker
    <2>1. TypeOK'
      BY DEF TypeOK
    <2>2. WorkerKnown' /\ DownIsQuiet'
      BY DEF TypeOK, WorkerKnown, DownIsQuiet
    <2>3. DropsFirst'
      BY DEF TypeOK, WorkerKnown, DropsFirst, Chan
    <2>4. OwnedOnce'
      BY DEF OwnedOnce, Holds
    <2>5. NothingLeft'
      BY DEF NothingLeft, Allocated, WorkerKnown, DownIsQuiet
    <2>6. QED
      BY <2>1, <2>2, <2>3, <2>4, <2>5 DEF IInv
  <1>11. CASE SyncCollect
    <2> USE <1>11 DEF SyncCollect, Submit, Executor!Accept, idle, Retired, exec, settings, slots, memory, worker
    <2>1. TypeOK'
      BY DEF TypeOK
    <2>2. WorkerKnown' /\ DownIsQuiet'
      BY DEF TypeOK, WorkerKnown, DownIsQuiet
    <2>3. DropsFirst'
      BY DEF TypeOK, WorkerKnown, DropsFirst, Chan
    <2>4. OwnedOnce'
      BY DEF OwnedOnce, Holds, TypeOK, DropsFirst, Objects
    <2>5. NothingLeft'
      BY DEF NothingLeft, Allocated, WorkerKnown, DownIsQuiet
    <2>6. QED
      BY <2>1, <2>2, <2>3, <2>4, <2>5 DEF IInv
  <1>12. CASE SyncCommit
    <2> USE <1>12 DEF SyncCommit, Executor!Reset, completed, Commits, exec, settings, slots, memory, worker
    <2>1. TypeOK'
      BY DEF TypeOK
    <2>2. WorkerKnown' /\ DownIsQuiet'
      BY DEF TypeOK, WorkerKnown, DownIsQuiet
    <2>3. DropsFirst'
      BY DEF TypeOK, WorkerKnown, DropsFirst, Chan
    <2>4. OwnedOnce'
      <3>1. \A i \in Chan :
              /\ pGDelay[i] = NULL
              /\ pPDelay'[i] = NULL
              /\ pCDelay'[i] = IF pPDelay[i] # NULL THEN pPDelay[i] ELSE pCDelay[i]
              /\ pGDelay'[i] = IF pPDelay[i] # NULL THEN pCDelay[i] ELSE NULL
        BY DEF DropsFirst
      <3>2. \A d \in Objects, i \in Chan : Holds(i, d)' <=> Holds(i, d)
        BY <3>1 DEF Holds, Objects
      <3>3. \A d \in Objects : delay'[d] # NULL <=> \E i \in Chan : Holds(i, d)'
        BY <3>2 DEF OwnedOnce
      <3>4. QED
        BY <3>1, <3>3 DEF OwnedOnce
    <2>5. NothingLeft'
      BY DEF NothingLeft, Allocated, WorkerKnown, DownIsQuiet
    <2>6. QED
      BY <2>1, <2>2, <2>3, <2>4, <2>5 DEF IInv
  <1>13. CASE SyncSubmit
    <2> USE <1>13 DEF SyncSubmit, Submit, Executor!Accept, exec, settings, slots, memory, worker
    <2>1. TypeOK'
      BY DEF TypeOK
    <2>2. WorkerKnown' /\ DownIsQuiet'
      BY DEF TypeOK, WorkerKnown, DownIsQuiet
    <2>3. DropsFirst'
      BY DEF TypeOK, WorkerKnown, DropsFirst, Chan
    <2>4. OwnedOnce'
      BY DEF OwnedOnce, Holds
    <2>5. NothingLeft'
      BY DEF NothingLeft, Allocated, WorkerKnown, DownIsQuiet
    <2>6. QED
      BY <2>1, <2>2, <2>3, <2>4, <2>5 DEF IInv
  <1>14. CASE SyncNothing
    <2> USE <1>14 DEF SyncNothing, exec, settings, slots, memory, worker
    <2>1. TypeOK'
      BY DEF TypeOK
    <2>2. WorkerKnown' /\ DownIsQuiet'
      BY DEF TypeOK, WorkerKnown, DownIsQuiet
    <2>3. DropsFirst'
      BY DEF TypeOK, WorkerKnown, DropsFirst, Chan
    <2>4. OwnedOnce'
      BY DEF OwnedOnce, Holds
    <2>5. NothingLeft'
      BY DEF NothingLeft, Allocated, WorkerKnown, DownIsQuiet
    <2>6. QED
      BY <2>1, <2>2, <2>3, <2>4, <2>5 DEF IInv
  <1>15. CASE ProcessEnd
    <2> USE <1>15 DEF ProcessEnd, exec, settings, slots, memory, worker
    <2>1. TypeOK'
      BY DEF TypeOK
    <2>2. WorkerKnown' /\ DownIsQuiet'
      BY DEF TypeOK, WorkerKnown, DownIsQuiet
    <2>3. DropsFirst'
      BY DEF TypeOK, WorkerKnown, DropsFirst, Chan
    <2>4. OwnedOnce'
      BY DEF OwnedOnce, Holds
    <2>5. NothingLeft'
      BY DEF NothingLeft, Allocated, WorkerKnown, DownIsQuiet
    <2>6. QED
      BY <2>1, <2>2, <2>3, <2>4, <2>5 DEF IInv
  <1>16. CASE UpdateSettings
    <2> USE <1>16 DEF UpdateSettings, exec, settings, slots, memory, worker
    <2>1. TypeOK'
      BY DEF TypeOK
    <2>2. WorkerKnown' /\ DownIsQuiet'
      BY DEF TypeOK, WorkerKnown, DownIsQuiet
    <2>3. DropsFirst'
      BY DEF TypeOK, WorkerKnown, DropsFirst, Chan
    <2>4. OwnedOnce'
      BY DEF OwnedOnce, Holds
    <2>5. NothingLeft'
      BY DEF NothingLeft, Allocated, WorkerKnown, DownIsQuiet
    <2>6. QED
      BY <2>1, <2>2, <2>3, <2>4, <2>5 DEF IInv
  <1>17. CASE Shutdown
    <2> USE <1>17 DEF Shutdown, Executor!Close, exec, settings, slots, memory, worker
    <2>1. TypeOK'
      BY DEF TypeOK
    <2>2. WorkerKnown' /\ DownIsQuiet'
      BY DEF TypeOK, WorkerKnown, DownIsQuiet
    <2>3. DropsFirst'
      BY DEF TypeOK, WorkerKnown, DropsFirst, Chan
    <2>4. OwnedOnce'
      BY DEF OwnedOnce, Holds
    <2>5. NothingLeft'
      BY DEF NothingLeft, Allocated, WorkerKnown, DownIsQuiet
    <2>6. QED
      BY <2>1, <2>2, <2>3, <2>4, <2>5 DEF IInv
  <1>18. CASE ShutdownEnd
    <2> USE <1>18 DEF ShutdownEnd, Executor!Down, exec, settings, slots, memory, worker
    <2>1. TypeOK'
      BY DEF TypeOK
    <2>2. WorkerKnown' /\ DownIsQuiet'
      BY DEF TypeOK, WorkerKnown, DownIsQuiet
    <2>3. DropsFirst'
      BY DEF TypeOK, WorkerKnown, DropsFirst, Chan
    <2>4. OwnedOnce'
      BY DEF OwnedOnce, Holds
    <2>5. NothingLeft'
      BY DEF NothingLeft, Allocated, WorkerKnown, DownIsQuiet
    <2>6. QED
      BY <2>1, <2>2, <2>3, <2>4, <2>5 DEF IInv
  <1>19. CASE Destroy
    <2> USE <1>19 DEF Destroy, Held, exec, settings, slots, memory, worker
    <2>1. TypeOK'
      BY DEF TypeOK
    <2>2. WorkerKnown' /\ DownIsQuiet'
      BY DEF TypeOK, WorkerKnown, DownIsQuiet
    <2>3. DropsFirst'
      BY DEF TypeOK, WorkerKnown, DropsFirst, Chan
    <2>4. OwnedOnce'
      BY DEF OwnedOnce, Holds, TypeOK, DropsFirst, Objects
    <2>5. NothingLeft'
      BY DEF NothingLeft, Allocated, OwnedOnce, Holds
    <2>6. QED
      BY <2>1, <2>2, <2>3, <2>4, <2>5 DEF IInv
  <1>20. CASE UNCHANGED vars
    BY <1>20 DEF vars, exec, settings, slots, memory, worker, TypeOK, WorkerKnown,
         DropsFirst, DownIsQuiet, OwnedOnce, Holds, NothingLeft, Allocated
  <1>21. QED
    BY <1>1, <1>2, <1>3, <1>4, <1>5, <1>6, <1>7, <1>8, <1>9, <1>10,
       <1>11, <1>12, <1>13, <1>14, <1>15, <1>16, <1>17, <1>18, <1>19, <1>20
       DEF Next, Run, Process, Destroyed

\* The invariant holds in every reachable state.
LEMMA SpecIInv == Spec => []IInv
  BY InitIInv, NextIInv, PTL DEF Spec

\* Types.
THEOREM TypeCorrect == Spec => []TypeOK
  BY SpecIInv, PTL DEF IInv

\* No object of the line is leaked, freed twice or used after it was freed,
\* whatever the settings, the refused submissions and the failing allocations.
THEOREM MemoryOwnedOnce == Spec => []OwnedOnce
  BY SpecIInv, PTL DEF IInv

\* destroy() after the shutdown of the executor frees all memory of the line.
THEOREM DestroyFreesAll == Spec => []NothingLeft
  BY SpecIInv, PTL DEF IInv

\* Lengths are integers.
LEMMA LengthInt ==
  ASSUME TypeOK
  PROVE  /\ nSize \in Int
         /\ \A d \in Objects : delay[d] # NULL => delay[d] \in Int
  <1>1. nSize \in Sizes \cup {0, -1} /\ \A d \in Objects : delay[d] \in Sizes \cup {0, NULL}
    BY DEF TypeOK
  <1>2. \A n \in Sizes \cup {0, -1} : n \in Int
    BY ArtDelayAssumption
  <1>3. \A n \in Sizes \cup {0, NULL} : n # NULL => n \in Int
    BY ArtDelayAssumption
  <1> QED
    BY <1>1, <1>2, <1>3

\* Memory that a pointer holds is allocated and has an integer size.
LEMMA SizeInt ==
  ASSUME TypeOK, OwnedOnce, NEW i \in Chan
  PROVE  /\ Size(pPDelay[i]) \in Int /\ Size(pCDelay[i]) \in Int /\ Size(pGDelay[i]) \in Int
         /\ MemoryOf(i) \in Int
  <1>1. ASSUME NEW d \in Objects \cup {NULL}, Holds(i, d) PROVE Size(d) \in Int
    <2>1. CASE d = NULL
      BY <2>1 DEF Size
    <2>2. CASE d # NULL
      <3>1. d \in Objects /\ delay[d] # NULL
        BY <1>1, <2>2 DEF OwnedOnce
      <3>2. delay[d] \in Int
        BY <3>1, LengthInt
      <3> QED
        BY <2>2, <3>2, CapacityInt DEF Size
    <2> QED
      BY <2>1, <2>2
  <1>2. /\ pPDelay[i] \in Objects \cup {NULL} /\ pCDelay[i] \in Objects \cup {NULL}
        /\ pGDelay[i] \in Objects \cup {NULL}
    BY DEF TypeOK
  <1>3. Size(pPDelay[i]) \in Int /\ Size(pCDelay[i]) \in Int /\ Size(pGDelay[i]) \in Int
    BY <1>1, <1>2 DEF Holds
  <1> QED
    BY <1>3 DEF MemoryOf

\* the size of an object after a step
After(d) == IF d = NULL THEN 0 ELSE Capacity(delay'[d])

\* The memory of a channel after a step.
LEMMA MemoryAfter ==
  ASSUME NEW i \in Chan
  PROVE  MemoryOf(i)' = After(pPDelay'[i]) + After(pCDelay'[i]) + After(pGDelay'[i])
  BY DEF MemoryOf, Size, After

\* A step that changes the memory of channel c by n, that of no other channel,
\* and what is or will be counted by n, keeps the count.
LEMMA CountStep ==
  ASSUME TypeOK, OwnedOnce, MemoryCounted, NEW c \in Chan, NEW n \in Int,
         \A i \in Chan : MemoryOf(i)' = IF i = c THEN MemoryOf(i) + n ELSE MemoryOf(i),
         nMemUsed' + wadd' = nMemUsed + wadd + n,
         apc' # "destroyed" => apc # "destroyed"
  PROVE  MemoryCounted'
  <1>1. 1 \in Chan /\ (Channels = 2 => 2 \in Chan) /\ (c = 1 \/ (c = 2 /\ Channels = 2))
    BY DEF Chan
  <1>2. MemoryOf(1) \in Int /\ (Channels = 2 => MemoryOf(2) \in Int) /\ nMemUsed \in Int /\ wadd \in Int
    BY <1>1, SizeInt DEF TypeOK
  <1>3. MemoryOf(1)' = IF c = 1 THEN MemoryOf(1) + n ELSE MemoryOf(1)
    BY <1>1
  <1>4. Channels = 2 => MemoryOf(2)' = IF c = 2 THEN MemoryOf(2) + n ELSE MemoryOf(2)
    BY <1>1
  <1>5. ASSUME apc' # "destroyed"
        PROVE  nMemUsed' + wadd' = MemoryOf(1)' + (IF Channels = 2 THEN MemoryOf(2)' ELSE 0)
    <2>1. nMemUsed + wadd = MemoryOf(1) + (IF Channels = 2 THEN MemoryOf(2) ELSE 0)
      BY <1>5 DEF MemoryCounted
    <2> QED
      BY <1>1, <1>2, <1>3, <1>4, <2>1
  <1> QED
    BY <1>5 DEF MemoryCounted

\* The same for a step that changes no memory.
LEMMA CountSame ==
  ASSUME TypeOK, OwnedOnce, MemoryCounted,
         \A i \in Chan : MemoryOf(i)' = MemoryOf(i),
         nMemUsed' + wadd' = nMemUsed + wadd,
         apc' # "destroyed" => apc # "destroyed"
  PROVE  MemoryCounted'
  <1>1. 1 \in Chan /\ nMemUsed \in Int /\ wadd \in Int
    BY DEF Chan, TypeOK
  <1>2. \A i \in Chan : MemoryOf(i)' = IF i = 1 THEN MemoryOf(i) + 0 ELSE MemoryOf(i)
    BY SizeInt
  <1>3. nMemUsed' + wadd' = nMemUsed + wadd + 0
    BY <1>1
  <1> QED
    BY <1>1, <1>2, <1>3, CountStep

\* Every step keeps the count.
LEMMA NextCounted == IInv /\ MemoryCounted /\ [Next]_vars => MemoryCounted'
  <1> SUFFICES ASSUME IInv, MemoryCounted, [Next]_vars PROVE MemoryCounted'
    OBVIOUS
  <1>0. TypeOK /\ OwnedOnce /\ DropsFirst
    BY DEF IInv
  <1>1. CASE RunCount
    <2>1. \A i \in Chan : MemoryOf(i)' = MemoryOf(i)
      BY <1>1 DEF RunCount, slots, MemoryOf, Size
    <2>2. nMemUsed' + wadd' = nMemUsed + wadd /\ apc' = apc
      BY <1>0, <1>1 DEF RunCount, TypeOK
    <2> QED
      BY <1>0, <2>1, <2>2, CountSame
  <1>2. CASE RunDrop
    <2> DEFINE d == IF pGDelay[wch] # NULL THEN pGDelay[wch] ELSE pPDelay[wch]
    <2>1. /\ wch \in Chan /\ wadd = 0 /\ d # NULL /\ wadd' = - Capacity(delay[d])
          /\ nMemUsed' = nMemUsed /\ apc' = apc /\ pCDelay' = pCDelay
          /\ delay' = [delay EXCEPT ![d] = NULL]
          /\ pGDelay' = [pGDelay EXCEPT ![wch] = NULL]
          /\ pPDelay' = [pPDelay EXCEPT ![wch] = IF pGDelay[wch] # NULL THEN @ ELSE NULL]
      BY <1>2 DEF RunDrop, Deleted, Used
    <2>2. d \in Objects /\ Holds(wch, d) /\ delay[d] # NULL
      BY <1>0, <2>1 DEF TypeOK, Holds, OwnedOnce
    <2>3. Capacity(delay[d]) \in Int
      <3>1. delay[d] \in Int
        BY <1>0, <2>2, LengthInt
      <3> QED
        BY <3>1, CapacityInt
    <2>4. \A e \in Objects \cup {NULL} : e # d => After(e) = Size(e)
      BY <1>0, <2>1 DEF Size, After, TypeOK
    <2>5. Size(d) = Capacity(delay[d]) /\ After(NULL) = 0
      BY <2>1 DEF Size, After
    <2>6. ASSUME NEW i \in Chan
          PROVE  MemoryOf(i)' = IF i = wch THEN MemoryOf(i) + (- Capacity(delay[d])) ELSE MemoryOf(i)
      <3>1. /\ pPDelay[i] \in Objects \cup {NULL} /\ pCDelay[i] \in Objects \cup {NULL}
            /\ pGDelay[i] \in Objects \cup {NULL}
            /\ Size(pPDelay[i]) \in Int /\ Size(pCDelay[i]) \in Int /\ Size(pGDelay[i]) \in Int
        BY <1>0, SizeInt DEF TypeOK
      <3>2. pCDelay[i] # d
        BY <1>0, <2>1, <2>2 DEF OwnedOnce
      <3>3. After(pCDelay'[i]) = Size(pCDelay[i])
        BY <2>1, <2>4, <3>1, <3>2
      <3>4. CASE i # wch
        <4>1. pPDelay'[i] = pPDelay[i] /\ pGDelay'[i] = pGDelay[i]
          BY <1>0, <2>1, <3>4 DEF TypeOK
        <4>2. pPDelay[i] # d /\ pGDelay[i] # d
          BY <1>0, <2>1, <3>4 DEF OwnedOnce
        <4>3. After(pPDelay'[i]) = Size(pPDelay[i]) /\ After(pGDelay'[i]) = Size(pGDelay[i])
          BY <2>4, <3>1, <4>1, <4>2
        <4> QED
          BY <3>3, <3>4, <4>3, MemoryAfter DEF MemoryOf
      <3>5. CASE i = wch /\ pGDelay[wch] # NULL
        <4>1. pPDelay'[i] = pPDelay[i] /\ pGDelay'[i] = NULL /\ d = pGDelay[i]
          BY <1>0, <2>1, <3>5 DEF TypeOK
        <4>2. pPDelay[i] # d
          BY <1>0, <2>1, <4>1 DEF OwnedOnce
        <4>3. After(pPDelay'[i]) = Size(pPDelay[i]) /\ After(pGDelay'[i]) = 0
          BY <2>4, <2>5, <3>1, <4>1, <4>2
        <4>4. Size(pGDelay[i]) = Capacity(delay[d])
          BY <2>5, <4>1
        <4> HIDE DEF d
        <4> QED
          BY <2>3, <3>1, <3>3, <3>5, <4>3, <4>4, MemoryAfter DEF MemoryOf
      <3>6. CASE i = wch /\ pGDelay[wch] = NULL
        <4>1. pPDelay'[i] = NULL /\ pGDelay'[i] = NULL /\ d = pPDelay[i] /\ pGDelay[i] = NULL
          BY <1>0, <2>1, <3>6 DEF TypeOK
        <4>2. After(pPDelay'[i]) = 0 /\ After(pGDelay'[i]) = 0 /\ Size(pGDelay[i]) = 0
          BY <2>5, <4>1 DEF Size, After
        <4>3. Size(pPDelay[i]) = Capacity(delay[d])
          BY <2>5, <4>1
        <4> HIDE DEF d
        <4> QED
          BY <2>3, <3>1, <3>3, <3>6, <4>2, <4>3, MemoryAfter DEF MemoryOf
      <3> QED
        BY <3>4, <3>5, <3>6
    <2>7. nMemUsed' + wadd' = nMemUsed + wadd + (- Capacity(delay[d])) /\ - Capacity(delay[d]) \in Int
      BY <1>0, <2>1, <2>3 DEF TypeOK
    <2> HIDE DEF d
    <2> QED
      BY <1>0, <2>1, <2>6, <2>7, CountStep
  <1>3. CASE RunAllocate
    <2>1. PICK d \in Free : /\ delay' = [delay EXCEPT ![d] = nSize]
                            /\ pPDelay' = [pPDelay EXCEPT ![wch] = d]
      BY <1>3 DEF RunAllocate
    <2>2. /\ wch \in Chan /\ wpc = "alloc" /\ wadd = 0 /\ wadd' = Capacity(nSize)
          /\ nMemUsed' = nMemUsed /\ apc' = apc /\ pCDelay' = pCDelay /\ pGDelay' = pGDelay
          /\ d \in Objects /\ d # NULL /\ delay[d] = NULL
      BY <1>3 DEF RunAllocate, Free, Objects
    <2>3. Capacity(nSize) \in Int
      <3>1. nSize \in Int
        BY <1>0, LengthInt
      <3> QED
        BY <3>1, CapacityInt
    <2>4. \A e \in Objects \cup {NULL} : e # d => After(e) = Size(e)
      BY <1>0, <2>1 DEF Size, After, TypeOK
    <2>5. After(d) = Capacity(nSize)
      BY <1>0, <2>1, <2>2 DEF Size, After, TypeOK
    <2>6. pPDelay[wch] = NULL /\ Size(NULL) = 0
      BY <1>0, <2>2 DEF DropsFirst, Chan, Size, After
    <2>7. ASSUME NEW i \in Chan
          PROVE  MemoryOf(i)' = IF i = wch THEN MemoryOf(i) + Capacity(nSize) ELSE MemoryOf(i)
      <3>1. /\ pPDelay[i] \in Objects \cup {NULL} /\ pCDelay[i] \in Objects \cup {NULL}
            /\ pGDelay[i] \in Objects \cup {NULL}
            /\ Size(pPDelay[i]) \in Int /\ Size(pCDelay[i]) \in Int /\ Size(pGDelay[i]) \in Int
        BY <1>0, SizeInt DEF TypeOK
      <3>2. pPDelay[i] # d /\ pCDelay[i] # d /\ pGDelay[i] # d
        BY <1>0, <2>2 DEF OwnedOnce, Holds
      <3>3. After(pCDelay'[i]) = Size(pCDelay[i]) /\ After(pGDelay'[i]) = Size(pGDelay[i])
        BY <2>2, <2>4, <3>1, <3>2
      <3>4. CASE i # wch
        <4>1. pPDelay'[i] = pPDelay[i]
          BY <1>0, <2>1, <3>4 DEF TypeOK
        <4>2. After(pPDelay'[i]) = Size(pPDelay[i])
          BY <2>4, <3>1, <3>2, <4>1
        <4> QED
          BY <3>3, <3>4, <4>2, MemoryAfter DEF MemoryOf
      <3>5. CASE i = wch
        <4>1. pPDelay'[i] = d
          BY <1>0, <2>1, <3>5 DEF TypeOK
        <4>2. After(pPDelay'[i]) = Capacity(nSize) /\ Size(pPDelay[i]) = 0
          BY <2>5, <2>6, <3>5, <4>1
        <4> QED
          BY <2>3, <3>1, <3>3, <3>5, <4>2, MemoryAfter DEF MemoryOf
      <3> QED
        BY <3>4, <3>5
    <2>8. nMemUsed' + wadd' = nMemUsed + wadd + Capacity(nSize)
      BY <1>0, <2>2, <2>3 DEF TypeOK
    <2> QED
      BY <1>0, <2>2, <2>3, <2>7, <2>8, CountStep
  <1>4. CASE SyncCollect
    <2>1. /\ \A i \in Chan : /\ pGDelay'[i] = IF Retired(i) THEN pCDelay[i] ELSE pGDelay[i]
                             /\ pCDelay'[i] = IF Retired(i) THEN NULL ELSE pCDelay[i]
          /\ pPDelay' = pPDelay /\ delay' = delay /\ nMemUsed' = nMemUsed /\ wadd' = wadd /\ apc = "host"
      BY <1>4 DEF SyncCollect, worker
    <2>2. (\A e : After(e) = Size(e)) /\ Size(NULL) = 0
      BY <2>1 DEF Size, After
    <2>3. ASSUME NEW i \in Chan PROVE MemoryOf(i)' = MemoryOf(i)
      <3>1. Size(pPDelay[i]) \in Int /\ Size(pCDelay[i]) \in Int /\ Size(pGDelay[i]) \in Int
        BY <1>0, SizeInt
      <3>2. CASE Retired(i)
        <4>1. pGDelay'[i] = pCDelay[i] /\ pCDelay'[i] = NULL /\ pGDelay[i] = NULL /\ Size(NULL) = 0
          BY <2>1, <3>2 DEF Retired, Size, After
        <4>2. MemoryOf(i)' = Size(pPDelay[i]) + 0 + Size(pCDelay[i])
          BY <2>1, <2>2, <4>1, MemoryAfter DEF MemoryOf
        <4> QED
          BY <3>1, <4>1, <4>2, MemoryAfter DEF MemoryOf
      <3>3. CASE ~ Retired(i)
        BY <2>1, <2>2, <3>3, MemoryAfter DEF MemoryOf
      <3> QED
        BY <3>2, <3>3
    <2> QED
      BY <1>0, <2>1, <2>3, CountSame
  <1>5. CASE SyncCommit
    <2>1. /\ \A i \in Chan :
               /\ pGDelay[i] = NULL /\ pPDelay'[i] = NULL
               /\ pGDelay'[i] = IF pPDelay[i] # NULL THEN pCDelay[i] ELSE NULL
               /\ pCDelay'[i] = IF pPDelay[i] # NULL THEN pPDelay[i] ELSE pCDelay[i]
          /\ delay' = delay /\ nMemUsed' = nMemUsed /\ wadd' = wadd /\ apc = "host"
      BY <1>0, <1>5 DEF SyncCommit, Commits, completed, DropsFirst, worker
    <2>2. (\A e : After(e) = Size(e)) /\ Size(NULL) = 0
      BY <2>1 DEF Size, After
    <2>3. ASSUME NEW i \in Chan PROVE MemoryOf(i)' = MemoryOf(i)
      <3>1. Size(pPDelay[i]) \in Int /\ Size(pCDelay[i]) \in Int /\ Size(pGDelay[i]) \in Int
        BY <1>0, SizeInt
      <3>2. MemoryOf(i) = Size(pPDelay[i]) + Size(pCDelay[i]) + 0
        BY <2>1, <2>2, MemoryAfter DEF MemoryOf
      <3>3. CASE pPDelay[i] # NULL
        <4>1. MemoryOf(i)' = 0 + Size(pPDelay[i]) + Size(pCDelay[i])
          BY <2>1, <2>2, <3>3, MemoryAfter DEF MemoryOf
        <4> QED
          BY <3>1, <3>2, <4>1
      <3>4. CASE pPDelay[i] = NULL
        <4>1. MemoryOf(i)' = 0 + Size(pCDelay[i]) + 0 /\ Size(pPDelay[i]) = 0
          BY <2>1, <2>2, <3>4, MemoryAfter DEF MemoryOf
        <4> QED
          BY <3>1, <3>2, <4>1
      <3> QED
        BY <3>3, <3>4
    <2> QED
      BY <1>0, <2>1, <2>3, CountSame
  <1>6. CASE Destroy
    BY <1>6 DEF Destroy, MemoryCounted
  <1>7. CASE UNCHANGED <<memory, wadd>> /\ (apc' # "destroyed" => apc # "destroyed")
    <2>1. (\A i \in Chan : MemoryOf(i)' = MemoryOf(i)) /\ nMemUsed' = nMemUsed /\ wadd' = wadd
      BY <1>7 DEF memory, slots, MemoryOf, Size
    <2> QED
      BY <1>0, <1>7, <2>1, CountSame
  <1> QED
    BY <1>1, <1>2, <1>3, <1>4, <1>5, <1>6, <1>7
    DEF Next, Run, Process, Destroyed, RunStart, RunDropNext, RunDropEnd, RunKeep, RunFail,
        RunReturn, SyncResize, SyncSubmit, SyncNothing, ProcessEnd, UpdateSettings,
        Shutdown, ShutdownEnd, vars, memory, worker

\* The Memory indicator shows what the line holds: whatever objects are made,
\* exchanged and freed, in any order, nMemUsed and the addition that run() is
\* about to make are the capacities of the objects the pointers hold.
THEOREM MemoryAccounted == Spec => []MemoryCounted
  <1>1. Init => MemoryCounted
    <2> SUFFICES ASSUME Init PROVE MemoryCounted
      OBVIOUS
    <2>1. \A i \in Chan : MemoryOf(i) = 0 + 0 + 0
      BY DEF Init, MemoryOf, Size
    <2>2. 1 \in Chan /\ (Channels = 2 => 2 \in Chan)
      BY DEF Chan
    <2>3. nMemUsed = 0 /\ wadd = 0
      BY DEF Init
    <2> QED
      BY <2>1, <2>2, <2>3 DEF MemoryCounted
  <1> QED
    BY <1>1, SpecIInv, NextCounted, PTL DEF Spec

\* Every step keeps the channels together: of IInv, that no pointer of one
\* channel holds what another one holds.
LEMMA NextTogether == IInv /\ Together /\ [Next]_vars => Together'
  <1> SUFFICES ASSUME IInv, Together, [Next]_vars PROVE Together'
    OBVIOUS
  <1> USE DEF IInv, Together, ChannelsTogether, idle, completed, exec, settings, slots, memory, worker
  <1>1. CASE RunStart
    BY <1>1 DEF RunStart, Executor!Start, RunBegins, TypeOK, WorkerKnown, DropsFirst, LengthOf, Fits, Ready
  <1>2. CASE RunCount
    BY <1>2 DEF RunCount, TypeOK, WorkerKnown, DropsFirst, LengthOf, Fits, Ready
  <1>3. CASE RunDrop
    <2>1. \A i \in Chan : LengthOf(i)' = LengthOf(i)
      <3> SUFFICES ASSUME NEW i \in Chan PROVE LengthOf(i)' = LengthOf(i)
        OBVIOUS
      <3>1. pCDelay' = pCDelay
        BY <1>3 DEF RunDrop
      <3>2. ASSUME pCDelay[i] # NULL PROVE delay'[pCDelay[i]] = delay[pCDelay[i]]
        BY <1>3, <3>2 DEF RunDrop, Deleted, OwnedOnce, TypeOK
      <3> QED
        BY <3>1, <3>2 DEF LengthOf
    <2> QED
      BY <1>3, <2>1 DEF RunDrop, TypeOK, WorkerKnown
  <1>4. CASE RunDropNext
    BY <1>4 DEF RunDropNext, TypeOK, WorkerKnown, DropsFirst, LengthOf, Fits, Ready
  <1>5. CASE RunDropEnd
    <2>1. \A i \in Chan : i < wch
      BY <1>5, ArtDelayAssumption DEF RunDropEnd, TypeOK, Chan
    <2>2. \A i \in Chan : pPDelay[i] = NULL /\ LengthOf(i)' = LengthOf(i)
      BY <1>5, <2>1 DEF RunDropEnd, DropsFirst, LengthOf
    <2> QED
      BY <1>5, <2>2 DEF RunDropEnd, AfterDrop, TypeOK, WorkerKnown, Chan
  <1>6. CASE RunKeep
    BY <1>6 DEF RunKeep, TypeOK, WorkerKnown, DropsFirst, LengthOf, Fits, Ready
  <1>7. CASE RunAllocate
    <2>1. PICK d \in Free : /\ delay' = [delay EXCEPT ![d] = nSize]
                            /\ pPDelay' = [pPDelay EXCEPT ![wch] = d]
      BY <1>7 DEF RunAllocate
    <2>2. /\ wch \in Chan /\ wch' = wch + 1 /\ wpc = "alloc" /\ wpc' = wpc /\ nSize' = nSize
          /\ pCDelay' = pCDelay /\ d \in Objects /\ d # NULL /\ delay[d] = NULL /\ delay'[d] = nSize
      BY <1>7, <2>1 DEF RunAllocate, Free, TypeOK, Objects
    <2>3. ASSUME NEW e \in Objects, e # d PROVE delay'[e] = delay[e]
      BY <2>1, <2>3 DEF TypeOK
    <2>4. \A i \in Chan : LengthOf(i)' = LengthOf(i)
      <3> SUFFICES ASSUME NEW i \in Chan PROVE LengthOf(i)' = LengthOf(i)
        OBVIOUS
      <3>1. pCDelay[i] # NULL => pCDelay[i] \in Objects /\ pCDelay[i] # d
        BY <2>2 DEF OwnedOnce, Holds, TypeOK
      <3> QED
        BY <2>2, <2>3, <3>1 DEF LengthOf
    <2>5. \A i \in Chan : Fits(i)' <=> Fits(i)
      BY <2>2, <2>4 DEF Fits
    <2>6. ASSUME NEW i \in Chan, i < wch', fails = 0
          PROVE  IF Fits(i)' THEN pPDelay'[i] = NULL ELSE Ready(i)'
      <3>1. CASE i = wch
        BY <1>7, <2>1, <2>2, <2>5, <3>1 DEF RunAllocate, Ready, TypeOK
      <3>2. CASE i # wch
        <4>1. i < wch /\ pPDelay'[i] = pPDelay[i]
          BY <2>1, <2>2, <2>6, <3>2 DEF TypeOK, Chan
        <4>2. pPDelay[i] # NULL => pPDelay[i] \in Objects /\ pPDelay[i] # d
          BY <2>2 DEF OwnedOnce, Holds, TypeOK
        <4> QED
          BY <2>2, <2>3, <2>5, <2>6, <4>1, <4>2 DEF Ready
      <3> QED
        BY <3>1, <3>2
    <2> QED
      BY <1>7, <2>4, <2>6 DEF RunAllocate, TypeOK, WorkerKnown
  <1>8. CASE RunFail
    BY <1>8 DEF RunFail, TypeOK, WorkerKnown, DropsFirst, LengthOf, Fits, Ready
  <1>9. CASE RunReturn
    <2>1. /\ \A i \in Chan : LengthOf(i)' = LengthOf(i) /\ (Fits(i)' <=> Fits(i)) /\ (Ready(i)' <=> Ready(i))
          /\ pPDelay' = pPDelay /\ pGDelay' = pGDelay /\ wpc' = "none" /\ fails' = fails
          /\ state[Allocator] = "running" /\ state'[Allocator] = "completed" /\ apc' = apc
      BY <1>9 DEF RunReturn, Executor!Complete, LengthOf, Fits, Ready, TypeOK, WorkerKnown
    <2>2. CASE wpc = "alloc" /\ wch \notin Chan
      <3>1. \A i \in Chan : i < wch
        BY <2>2, ArtDelayAssumption DEF TypeOK, Chan
      <3>2. fails = 0 => (\A i \in Chan : Fits(i)) \/ (\A i \in Chan : ~ Fits(i))
        BY DEF Fits
      <3>3. fails = 0 => (\A i \in Chan : pPDelay[i] = NULL) \/ (\A i \in Chan : Ready(i))
        BY <2>2, <3>1, <3>2
      <3> QED
        BY <2>1, <3>3
    <2>3. CASE wpc # "alloc"
      BY <1>9, <2>1, <2>3 DEF RunReturn
    <2> QED
      BY <1>9, <2>2, <2>3 DEF RunReturn
  <1>10. CASE SyncResize
    BY <1>10 DEF SyncResize, Submit, Executor!Accept, TypeOK, WorkerKnown, DropsFirst, LengthOf, Fits, Ready
  <1>11. CASE SyncCollect
    <2>1. /\ \A i \in Chan : /\ pGDelay'[i] = IF Retired(i) THEN pCDelay[i] ELSE pGDelay[i]
                             /\ pCDelay'[i] = IF Retired(i) THEN NULL ELSE pCDelay[i]
          /\ delay' = delay /\ fails' = fails /\ wpc' = wpc /\ apc' = "process"
          /\ wpc = "none" /\ idle /\ ~ completed'
      BY <1>11 DEF SyncCollect, Submit, Executor!Accept, TypeOK, WorkerKnown
    <2>2. ASSUME NEW i \in Chan PROVE LengthOf(i) = NULL <=> pCDelay[i] = NULL
      BY DEF LengthOf, OwnedOnce, Holds, TypeOK
    <2>3. fails = 0 => \A i, j \in Chan : Retired(i) <=> Retired(j)
      BY <2>1, <2>2 DEF Retired
    <2>4. ASSUME NEW i \in Chan PROVE LengthOf(i)' = IF Retired(i) THEN NULL ELSE LengthOf(i)
      BY <2>1 DEF LengthOf
    <2>5. fails' = 0 => ChannelsTogether'
      BY <2>1, <2>3, <2>4
    <2>6. fails = 0 => \A i, j \in Chan : pGDelay'[i] = NULL <=> pGDelay'[j] = NULL
      BY <2>1, <2>3 DEF Retired
    <2> QED
      BY <2>1, <2>5, <2>6
  <1>12. CASE SyncCommit
    <2>1. /\ \A i \in Chan :
               /\ pGDelay'[i] = IF pPDelay[i] # NULL THEN pCDelay[i] ELSE NULL
               /\ pCDelay'[i] = IF pPDelay[i] # NULL THEN pPDelay[i] ELSE pCDelay[i]
          /\ delay' = delay /\ fails' = fails /\ wpc' = wpc
          /\ wpc = "none" /\ completed /\ idle'
      BY <1>12 DEF SyncCommit, Commits, Executor!Reset, TypeOK, WorkerKnown, DropsFirst
    <2>2. ASSUME NEW i \in Chan PROVE LengthOf(i) = NULL <=> pCDelay[i] = NULL
      BY DEF LengthOf, OwnedOnce, Holds, TypeOK
    <2>3. ASSUME NEW i \in Chan
          PROVE  LengthOf(i)' = IF pPDelay[i] # NULL THEN delay[pPDelay[i]] ELSE LengthOf(i)
      BY <2>1 DEF LengthOf
    <2>4. fails = 0 => \A i, j \in Chan : LengthOf(i)' = LengthOf(j)'
      BY <2>1, <2>3 DEF Ready
    <2>5. fails = 0 => \A i, j \in Chan : pGDelay'[i] = NULL <=> pGDelay'[j] = NULL
      BY <2>1, <2>2 DEF Ready
    <2> QED
      BY <2>1, <2>4, <2>5
  <1>13. CASE SyncSubmit
    BY <1>13 DEF SyncSubmit, Submit, Executor!Accept, TypeOK, WorkerKnown, DropsFirst, LengthOf, Fits, Ready
  <1>14. CASE SyncNothing
    BY <1>14 DEF SyncNothing, TypeOK, WorkerKnown, DropsFirst, LengthOf, Fits, Ready
  <1>15. CASE ProcessEnd
    BY <1>15 DEF ProcessEnd, TypeOK, WorkerKnown, DropsFirst, LengthOf, Fits, Ready
  <1>16. CASE UpdateSettings
    BY <1>16 DEF UpdateSettings, TypeOK, WorkerKnown, DropsFirst, LengthOf, Fits, Ready
  <1>17. CASE Shutdown
    BY <1>17 DEF Shutdown, Executor!Close, TypeOK, WorkerKnown, DropsFirst, LengthOf, Fits, Ready
  <1>18. CASE ShutdownEnd
    BY <1>18 DEF ShutdownEnd, Executor!Down, TypeOK, WorkerKnown, DropsFirst, LengthOf, Fits, Ready
  <1>19. CASE Destroy
    <2>1. /\ \A i \in Chan : pPDelay'[i] = NULL /\ pCDelay'[i] = NULL /\ pGDelay'[i] = NULL
          /\ fails' = fails /\ wpc' = wpc /\ apc' = "destroyed" /\ state' = state
          /\ wpc = "none"
      BY <1>19 DEF Destroy, DownIsQuiet, WorkerKnown
    <2>2. \A i \in Chan : LengthOf(i)' = NULL
      BY <2>1 DEF LengthOf
    <2> QED
      BY <2>1, <2>2
  <1>20. CASE UNCHANGED vars
    BY <1>20 DEF vars, LengthOf, Fits, Ready
  <1>21. QED
    BY <1>1, <1>2, <1>3, <1>4, <1>5, <1>6, <1>7, <1>8, <1>9, <1>10,
       <1>11, <1>12, <1>13, <1>14, <1>15, <1>16, <1>17, <1>18, <1>19, <1>20
       DEF Next, Run, Process, Destroyed

\* Both channels of a line have memory of the same length until an allocation
\* fails: what run() does for one channel it does for the other.
THEOREM ChannelsEqual == Spec => []ChannelsTogether
  <1>1. Init => Together
    BY DEF Init, Executor!Init, Together, ChannelsTogether, LengthOf, idle, completed
  <1>2. Together => ChannelsTogether
    BY DEF Together, ChannelsTogether
  <1>3. QED
    BY <1>1, <1>2, SpecIInv, NextTogether, PTL DEF Spec

\* A channel that plays never loses its memory while the line is on: only a
\* commit changes the pointer then, and it stores memory.
THEOREM KeepsPlaying == Spec => PlaysOn
  <1> DEFINE Kept == bOn => \A i \in Chan :
                       pCDelay[i] # NULL => pCDelay'[i] # NULL \/ apc' = "destroyed"
  <1>1. ASSUME [Next]_vars PROVE [Kept]_vars
    <2> SUFFICES ASSUME Next PROVE Kept
      BY <1>1
    <2>1. CASE SyncCommit
      BY <2>1 DEF SyncCommit, Commits
    <2>2. CASE SyncCollect
      BY <2>2 DEF SyncCollect
    <2>3. CASE Destroy
      BY <2>3 DEF Destroy
    <2>4. CASE UNCHANGED pCDelay
      BY <2>4
    <2>5. QED
      BY <2>1, <2>2, <2>3, <2>4
      DEF Next, Run, Process, Destroyed, RunStart, RunCount, RunDrop, RunDropNext,
          RunDropEnd, RunKeep, RunAllocate, RunFail,
          RunReturn, SyncResize, SyncSubmit, SyncNothing, ProcessEnd, UpdateSettings,
          Shutdown, ShutdownEnd, vars, memory, slots
  <1>2. QED
    BY <1>1, PTL DEF Spec, PlaysOn
=============================================================================
