----------------------------- MODULE MCArtDelay -----------------------------
(***************************************************************************)
(* A stereo line, two lengths with different capacities, four changes of   *)
(* the settings (on, another length, off) and one failing allocation.      *)
(***************************************************************************)
EXTENDS ArtDelay

MCSizes == {2, 4}
=============================================================================
