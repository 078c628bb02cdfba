---------------------------- MODULE MCKvtStorage ----------------------------
(***************************************************************************)
(* A parameter that is also a branch, and two below it: the branch is      *)
(* valid for its own sake, for that of one child or of both.               *)
(***************************************************************************)
EXTENDS KvtStorage, TLC

CONSTANTS a, b, c, v1

MCPaths == {<<a>>, <<a, b>>, <<a, c>>}

\* the two siblings play the same part
MCSiblings == Permutations({b, c})
=============================================================================
