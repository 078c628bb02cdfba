--------------------------- MODULE MCKvtReplicas ----------------------------
(***************************************************************************)
(* Two parameters and rings for one packet; one value does not fit into a  *)
(* packet.                                                                 *)
(***************************************************************************)
EXTENDS KvtReplicas

MCParams == {"a", "b"}
MCValues == {1, 2, 3}
MCHuge   == {3}
=============================================================================
