------------------------- MODULE MCImpulseResponses -------------------------
(***************************************************************************)
(* One file and one channel: a stereo and a mono file and one that cannot  *)
(* be loaded.                                                              *)
(***************************************************************************)
EXTENDS ImpulseResponses

MCPaths  == {"", "stereo", "mono", "bad"}
MCTracks == [p \in MCPaths |-> IF p = "stereo" THEN 2 ELSE IF p = "mono" THEN 1 ELSE 0]
MCCuts   == {"none", "all"}
MCSource == <<1>>
MCWrappers == {"jack", "lv2"}
=============================================================================
