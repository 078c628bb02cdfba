---------------------------- MODULE DynamicDelay ----------------------------
(***************************************************************************)
(* The ring of samples of a delay line (core/util/DynamicDelay.cpp), with  *)
(* the exchange of one ring for another by the plugin: init() of the new   *)
(* one, copy() from the old one. One step is one sample of process().      *)
(*                                                                         *)
(* A sample is a number modulo Mod, and so is the feedback added to it.    *)
(* init() does not clear the memory: a first ring holds anything. The cell *)
(* nCapacity is the memory behind the ring. clear() and swap() have no     *)
(* caller and are left out.                                                *)
(***************************************************************************)
EXTENDS Integers

CONSTANTS
  BUF_SIZE,    (* BUF_SIZE of the code, scaled down                        *)
  Sizes,       (* values of max_size                                       *)
  Delays,      (* delays and feedback delays that process() is given       *)
  Gains,       (* feedback gains                                           *)
  Mod,         (* bound of a sample                                        *)
  EndFeeds     (* may a feedback fall exactly on the end of the ring       *)

ASSUME DynamicDelayAssumption ==
  /\ BUF_SIZE \in Nat \ {0}
  /\ Sizes \subseteq Nat
  /\ Delays \subseteq Int
  /\ Gains \subseteq Nat
  /\ Mod \in Nat \ {0}
  /\ EndFeeds \in BOOLEAN

VARIABLES
  vDelay, nHead, nCapacity, nMaxDelay,  (* as in the code                  *)
  out,                                  (* the last sample of the output   *)
  feed                                  (* where the last feedback went    *)

vars == <<vDelay, nHead, nCapacity, nMaxDelay, out, feed>>

Values == 0..(Mod - 1)
Mix(a, s, g) == (a + s * g) % Mod

-----------------------------------------------------------------------------
(* init(). A definition marked "slip" is not used: it is what a wrong      *)
(* version of the next one could be.                                       *)

Capacity(max_size) ==
  LET delay == max_size + 1 IN delay - (delay % BUF_SIZE) + BUF_SIZE * 2

Init ==
  /\ nMaxDelay \in Sizes
  /\ nCapacity = Capacity(nMaxDelay)
  /\ vDelay \in [0..nCapacity -> Values]
  /\ nHead = 0 /\ out = 0 /\ feed = 0

-----------------------------------------------------------------------------
(* process()                                                               *)

lsp_limit(a, min, max) == IF a < min THEN min ELSE IF a > max THEN max ELSE a

\* the position of a sample that is shift samples old
TailOf(shift) == IF nHead < shift THEN nHead - shift + nCapacity ELSE nHead - shift

\* the position to which it is fed back, if (feed > nCapacity) feed -= nCapacity
FeedOf(shift, f) ==
  LET pos == TailOf(shift) + lsp_limit(f, 0, shift) IN
  IF pos > nCapacity THEN pos - nCapacity ELSE pos

\* (++nHead) >= nCapacity; slip: the cell behind the ring is used
HeadAfterEnd == IF nHead + 1 > nCapacity THEN 0 ELSE nHead + 1
HeadAfter == IF nHead + 1 >= nCapacity THEN 0 ELSE nHead + 1

Process(x, d, f, g) ==
  LET shift == lsp_limit(d, 0, nMaxDelay)
      tail  == TailOf(shift)
      saved == [vDelay EXCEPT ![nHead] = x]
  IN
  /\ EndFeeds \/ g = 0 \/ FeedOf(shift, f) # nCapacity
  /\ feed'   = FeedOf(shift, f)
  /\ vDelay' = [saved EXCEPT ![feed'] = Mix(@, saved[tail], g)]
  /\ out'    = vDelay'[tail]
  /\ nHead'  = HeadAfter
  /\ UNCHANGED <<nCapacity, nMaxDelay>>

-----------------------------------------------------------------------------
(* copy()                                                                  *)

\* The cell of the k-th sample behind position st, in the second piece when it
\* is not in the first one. Slip: there is one piece.
SourceFlat(st, k) == IF st + k > nCapacity THEN nCapacity ELSE st + k
Source(st, k) == IF k < nCapacity - st THEN st + k ELSE k - (nCapacity - st)

\* the cells of a ring of another capacity after copy() of this one to it: the
\* newest samples at its end, silence before them
Copied(capacity) ==
  LET count == IF capacity < nCapacity THEN capacity ELSE nCapacity
      dt    == capacity - count
      st    == IF nHead < count THEN nHead - count + nCapacity ELSE nHead - count
  IN [c \in 0..(capacity - 1) |-> IF c < dt THEN 0 ELSE vDelay[Source(st, c - dt)]]

\* the plugin commits a new ring: ring.init(n), ring.copy(this)
Exchange(n) ==
  /\ nMaxDelay' = n
  /\ nCapacity' = Capacity(n)
  /\ \E behind \in Values :
       vDelay' = [c \in 0..nCapacity' |->
                    IF c < nCapacity' THEN Copied(nCapacity')[c] ELSE behind]
  /\ nHead' = 0
  /\ feed'  = 0
  /\ UNCHANGED out

Next ==
  \/ \E x \in Values, d, f \in Delays, g \in Gains : Process(x, d, f, g)
  \/ \E n \in Sizes : Exchange(n)

Spec == Init /\ [][Next]_vars

-----------------------------------------------------------------------------
(* Properties                                                              *)

\* Every variable keeps its range, the head never leaves the ring.
TypeOK ==
  /\ nMaxDelay \in Sizes /\ nCapacity = Capacity(nMaxDelay)
  /\ vDelay \in [0..nCapacity -> Values]
  /\ nHead \in 0..(nCapacity - 1)
  /\ feed \in 0..nCapacity
  /\ out \in Values

\* the cells read backwards from the head
Behind(k) == IF k < nHead THEN nHead - 1 - k ELSE nHead - 1 - k + nCapacity
Line == [k \in 0..(nCapacity - 1) |-> vDelay[Behind(k)]]

Register == INSTANCE DelayLine WITH line <- Line, max <- nMaxDelay

\* The ring is a shift register: whatever the delays and the lengths were before,
\* the sample played is the input of that many samples ago with what was fed back
\* into it, also right after the ring was exchanged for a longer or shorter one.
ImplementsDelayLine == Register!Spec

\* "Add feedback to the buffer" (DynamicDelay.cpp:107): what is fed back goes to
\* a cell of the ring. Once per round it goes to the cell behind the ring, as the
\* position is compared with ">" where the head is compared with ">=".
FeedInBuffer == feed < nCapacity
=============================================================================
