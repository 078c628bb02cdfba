---------------------------- MODULE MCOscBuffer ----------------------------
(***************************************************************************)
(* A ring of five words with packets of one to three words: packets wrap   *)
(* in the length, in the payload and exactly at the end of the ring, and   *)
(* those of three words are too large for the reader.                      *)
(***************************************************************************)
EXTENDS OscBuffer

MCSizes == 1..3
=============================================================================
