--------------------------- MODULE RecursiveLock ---------------------------
(***************************************************************************)
(* What a recursive mutex promises: a thread may take it again while it    *)
(* holds it, and no other thread takes it before every lock was undone.    *)
(***************************************************************************)
EXTENDS Naturals

CONSTANT Threads

VARIABLE depth   \* how many locks each thread has not undone

Init == depth = [t \in Threads |-> 0]

Acquire(t) ==
  /\ \A s \in Threads \ {t} : depth[s] = 0
  /\ depth' = [depth EXCEPT ![t] = @ + 1]

Undo(t) ==
  /\ depth[t] > 0
  /\ depth' = [depth EXCEPT ![t] = @ - 1]

Next == \E t \in Threads : Acquire(t) \/ Undo(t)

Spec == Init /\ [][Next]_depth
=============================================================================
