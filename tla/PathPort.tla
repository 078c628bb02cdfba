------------------------------ MODULE PathPort ------------------------------
(***************************************************************************)
(* The path port between a thread that asks for a file and the audio       *)
(* thread: jack_path_t (container/jack/types.h) and lv2_path_t             *)
(* (container/lv2/types.h). A request is written to sRequest under the     *)
(* try-lock nRequest; pending() takes it over to sPath, from where the     *)
(* task of the plugin reads it until the plugin commits.                   *)
(*                                                                         *)
(* A port is a record: wrapper, state ("empty", "pending", "accepted": the *)
(* flags of JACK, nState of LV2), ahead (nSerial - nCommit in JACK,        *)
(* bRequest as 0 or 1 in LV2), locked (nRequest), and the two paths. The   *)
(* flags that travel with a path are left out.                             *)
(***************************************************************************)
EXTENDS Naturals

CONSTANT Empty      (* the path ""                                         *)

Kinds == {"jack", "lv2"}

NewPort(wrapper) ==
  [wrapper |-> wrapper, state |-> "empty", ahead |-> 0, locked |-> FALSE,
   sPath |-> Empty, sRequest |-> Empty]

\* submit(): the lock is taken, then the request is written and the lock freed
Locked(port) == [port EXCEPT !.locked = TRUE]

Requested(port, path) ==
  [port EXCEPT !.sRequest = path, !.locked = FALSE,
               !.ahead = IF port.wrapper = "jack" THEN @ + 1 ELSE 1]

\* What pending() does to the port; it answers IsPending of the result. Slip:
\* it is not tested that there is a request.
TakesOverAny(port) == port.state = "empty" /\ ~ port.locked
TakesOver(port) == port.state = "empty" /\ port.ahead > 0 /\ ~ port.locked

Polled(port) ==
  IF ~ TakesOver(port) THEN port
  ELSE [port EXCEPT !.state = "pending", !.sPath = port.sRequest,
                    !.ahead = IF port.wrapper = "jack" THEN @ - 1 ELSE 0,
                    !.sRequest = IF port.wrapper = "jack" THEN @ ELSE Empty]

IsPending(port) == port.state = "pending"

Accepted(port) == IF IsPending(port) THEN [port EXCEPT !.state = "accepted"] ELSE port

\* commit(); slip: an accepted path is not tested for
CommittedPending(port) == IF IsPending(port) THEN [port EXCEPT !.state = "empty"] ELSE port
Committed(port) ==
  IF port.state = "accepted" \/ (port.wrapper = "jack" /\ IsPending(port))
    THEN [port EXCEPT !.state = "empty"] ELSE port

Ports(Paths) ==
  [wrapper : Kinds, state : {"empty", "pending", "accepted"}, ahead : Nat,
   locked : BOOLEAN, sPath : Paths, sRequest : Paths]
=============================================================================
