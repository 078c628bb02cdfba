---------------------------- MODULE PacketQueue ----------------------------
(***************************************************************************)
(* What an OSC buffer promises to its two ends: a FIFO of whole packets.   *)
(* A packet is delivered at most once, unchanged, after the ones before    *)
(* it; it disappears undelivered only when the reader drops it after a     *)
(* packet too large for its own memory, or when the whole queue is cleared *)
(* or broken. A broken queue promises nothing until it is cleared.         *)
(***************************************************************************)
EXTENDS Sequences

CONSTANT Packets   (* the packets, each a sequence of words *)

VARIABLES
  queue,   (* packets sent and not taken out, oldest first *)
  got,     (* the last packet delivered                    *)
  broken   (* nothing is promised                          *)

vars == <<queue, got, broken>>

Init == queue = <<>> /\ got = <<>> /\ broken = FALSE

Send(p) == ~ broken /\ queue' = Append(queue, p) /\ UNCHANGED <<got, broken>>

Deliver == ~ broken /\ queue # <<>> /\ got' = Head(queue) /\ queue' = Tail(queue) /\ UNCHANGED broken

Drop == ~ broken /\ queue # <<>> /\ queue' = Tail(queue) /\ UNCHANGED <<got, broken>>

Clear == queue' = <<>> /\ broken' = FALSE /\ UNCHANGED got

Break == queue' = <<>> /\ broken' = TRUE /\ UNCHANGED got

\* what is delivered is anything
Garble == broken /\ UNCHANGED <<queue, broken>>

Next == (\E p \in Packets : Send(p)) \/ Deliver \/ Drop \/ Clear \/ Break \/ Garble

Spec == Init /\ [][Next]_vars
=============================================================================
