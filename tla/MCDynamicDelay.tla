--------------------------- MODULE MCDynamicDelay ---------------------------
(***************************************************************************)
(* Rings of four to six samples, which are exchanged at every position of  *)
(* the head; delays below, between and above their limits.                 *)
(***************************************************************************)
EXTENDS DynamicDelay

MCSizes  == 1..3
MCDelays == {-1, 1, 2, 4}
MCGains  == {0, 1}
=============================================================================
