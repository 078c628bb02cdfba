------------------------------- MODULE KvtMap -------------------------------
(***************************************************************************)
(* What the KVT storage promises: a map from parameter paths to values in  *)
(* which each parameter remembers the directions (to the DSP, to the UI)   *)
(* its last changes still have to be transferred in. A parameter that is   *)
(* not stored has nothing to transfer.                                     *)
(***************************************************************************)
EXTENDS Naturals, Sequences

CONSTANTS
  Paths,   (* the parameters                                *)
  Values,  (* what a parameter may hold                     *)
  None,    (* the parameter is not stored                   *)
  Flags    (* the directions of transfer                    *)

VARIABLES
  val,     (* val[p]: the value stored for p, or None       *)
  pend     (* pend[p]: directions p has to be transferred in *)

vars == <<val, pend>>

\* p and the parameters of its branch
Below(p) == {x \in Paths : Len(p) <= Len(x) /\ SubSeq(x, 1, Len(p)) = p}

Init ==
  /\ val  = [p \in Paths |-> None]
  /\ pend = [p \in Paths |-> {}]

Put(p, v, f) ==
  /\ val'  = [val EXCEPT ![p] = v]
  /\ pend' = [pend EXCEPT ![p] = @ \cup f]

Remove(S) ==
  /\ val'  = [p \in Paths |-> IF p \in S THEN None ELSE val[p]]
  /\ pend' = [p \in Paths |-> IF p \in S THEN {} ELSE pend[p]]

\* some of the stored parameters
Touch(f) ==
  /\ UNCHANGED val
  /\ pend' \in [Paths -> SUBSET Flags]
  /\ \A p \in Paths : \/ pend'[p] = pend[p]
                      \/ val[p] # None /\ pend'[p] = pend[p] \cup f

Commit(S, f) ==
  /\ UNCHANGED val
  /\ pend' = [p \in Paths |-> IF p \in S THEN pend[p] \ f ELSE pend[p]]

Next ==
  \/ \E p \in Paths : Remove({p}) \/ Remove(Below(p))
  \/ Remove(Paths)
  \/ \E f \in SUBSET Flags :
       \/ \E p \in Paths, v \in Values : Put(p, v, f)
       \/ \E p \in Paths : Commit({p}, f)
       \/ Commit(Paths, f)
       \/ Touch(f)

Spec == Init /\ [][Next]_vars
=============================================================================
