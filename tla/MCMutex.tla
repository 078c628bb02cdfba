------------------------------ MODULE MCMutex ------------------------------
(***************************************************************************)
(* Four threads, so that one can take the mutex between the release and    *)
(* the wake-up of another while two more sleep; two levels of recursion.   *)
(***************************************************************************)
EXTENDS Mutex

CONSTANTS t1, t2, t3, t4
=============================================================================
