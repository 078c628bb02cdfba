-------------------------- MODULE MCNativeExecutor --------------------------
(* Two audio threads, one owning two tasks and one owning one.             *)
EXTENDS NativeExecutor, TLC
CONSTANTS t1, t2, t3, c1, c2

MCOwner == (t1 :> c1) @@ (t2 :> c1) @@ (t3 :> c2)
MCCodes == {0, 1}
=============================================================================
