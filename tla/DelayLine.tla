----------------------------- MODULE DelayLine ------------------------------
(***************************************************************************)
(* What the memory of a delay line promises (DynamicDelay.h): a shift      *)
(* register of samples, newest first, from which a sample of any age up to *)
(* the maximum delay is played, and into which it is fed back at any age   *)
(* up to its own. Another length keeps the newest samples and fills the    *)
(* rest with silence. A new register holds anything.                       *)
(***************************************************************************)
EXTENDS Integers

CONSTANTS
  Values, Gains,        (* samples and gains                               *)
  Mix(_, _, _),         (* Mix(a, s, g): a with s fed back at gain g       *)
  Delays,               (* delays asked for, in samples                    *)
  Sizes,                (* maximum delays                                  *)
  Capacity(_)           (* how many samples a register of a size holds     *)

VARIABLES
  line,                 (* line[k]: the sample of age k, 0 is the newest   *)
  max,                  (* the maximum delay                               *)
  out                   (* the last sample played                          *)

vars == <<line, max, out>>

Ages(n) == 0..(Capacity(n) - 1)

Init ==
  /\ max \in Sizes
  /\ line \in [Ages(max) -> Values]
  /\ out \in Values

Between(a, low, high) == IF a < low THEN low ELSE IF a > high THEN high ELSE a

Play(x, d, f, g) ==
  LET age == Between(d, 0, max)
      to  == age - Between(f, 0, age)
      shifted == [k \in Ages(max) |-> IF k = 0 THEN x ELSE line[k - 1]]
  IN
  /\ line' = [shifted EXCEPT ![to] = Mix(@, shifted[age], g)]
  /\ out'  = line'[age]
  /\ UNCHANGED max

Resize(n) ==
  /\ line' = [k \in Ages(n) |-> IF k \in Ages(max) THEN line[k] ELSE 0]
  /\ max'  = n
  /\ UNCHANGED out

Next ==
  \/ \E x \in Values, d, f \in Delays, g \in Gains : Play(x, d, f, g)
  \/ \E n \in Sizes : Resize(n)

Spec == Init /\ [][Next]_vars
=============================================================================
