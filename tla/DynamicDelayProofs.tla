------------------------- MODULE DynamicDelayProofs -------------------------
(***************************************************************************)
(* The ring of a delay line is a shift register, for rings of any size,    *)
(* any delays, feedback and gains, and any exchanges of one ring for       *)
(* another, as long as no feedback falls exactly on the end of the ring.   *)
(***************************************************************************)
EXTENDS DynamicDelay, TLAPS

USE DynamicDelayAssumption

\* A ring has room for more than the maximum delay.
LEMMA CapacityLarge == ASSUME NEW n \in Nat PROVE Capacity(n) \in Nat /\ Capacity(n) > n + 1
  BY DEF Capacity

\* Feedback without gain changes nothing, and any feedback gives a sample.
LEMMA MixValues ==
  ASSUME NEW a \in Values, NEW s \in Values, NEW g \in Nat
  PROVE  Mix(a, s, g) \in Values /\ Mix(a, s, 0) = a
  <1>1. a + s * 0 = a /\ s * g \in Nat
    BY DEF Values
  <1>2. a % Mod = a
    BY DEF Values
  <1>3. \A m \in Nat : m % Mod \in Values
    BY DEF Values
  <1> QED
    BY <1>1, <1>2, <1>3 DEF Mix, Values

\* Limits are kept.
LEMMA Limits ==
  ASSUME NEW a \in Int, NEW max \in Nat
  PROVE  lsp_limit(a, 0, max) \in 0..max
  BY DEF lsp_limit

\* What the proofs of a step start from.
LEMMA Numbers ==
  ASSUME TypeOK
  PROVE  /\ nMaxDelay \in Nat /\ nCapacity \in Nat /\ nCapacity > nMaxDelay + 1
         /\ nCapacity = Capacity(nMaxDelay)
         /\ nHead \in Nat /\ nHead < nCapacity
         /\ \A n \in Sizes : n \in Nat /\ Capacity(n) \in Nat /\ Capacity(n) > n + 1
  <1>1. /\ nMaxDelay \in Sizes /\ nCapacity = Capacity(nMaxDelay) /\ nHead \in 0..(nCapacity - 1)
    BY DEF TypeOK
  <1>2. \A n \in Sizes : n \in Nat /\ Capacity(n) \in Nat /\ Capacity(n) > n + 1
    BY CapacityLarge
  <1> QED
    BY <1>1, <1>2

\* the cell of the sample of age k while process() has not moved the head
At(k) == IF k <= nHead THEN nHead - k ELSE nHead - k + nCapacity

\* Ages and cells belong together one by one; the tail is the cell of its age, and
\* the feedback goes to the cell of its age or exactly to the end of the ring.
LEMMA Cells ==
  ASSUME TypeOK, NEW age \in 0..nMaxDelay, NEW f \in Int
  PROVE  /\ \A k \in 0..(nCapacity - 1) : At(k) \in 0..(nCapacity - 1)
         /\ \A j, k \in 0..(nCapacity - 1) : At(j) = At(k) => j = k
         /\ At(0) = nHead /\ TailOf(age) = At(age)
         /\ FeedOf(age, f) \in {At(age - lsp_limit(f, 0, age)), nCapacity}
  <1> DEFINE lim == lsp_limit(f, 0, age)
  <1>1. lim \in 0..age
    <2>1. age \in Nat
      BY Numbers
    <2> QED
      BY <2>1, Limits
  <1>2. FeedOf(age, f) = IF TailOf(age) + lim > nCapacity THEN TailOf(age) + lim - nCapacity
                                                          ELSE TailOf(age) + lim
    BY <1>1, Numbers DEF FeedOf, TailOf
  <1> HIDE DEF lim
  <1>3. /\ \A k \in 0..(nCapacity - 1) : At(k) \in 0..(nCapacity - 1)
        /\ \A j, k \in 0..(nCapacity - 1) : At(j) = At(k) => j = k
        /\ At(0) = nHead /\ TailOf(age) = At(age)
    BY Numbers DEF At, TailOf
  <1>4. FeedOf(age, f) \in {At(age - lim), nCapacity}
    BY <1>1, <1>2, Numbers DEF At, TailOf
  <1> QED
    BY <1>3, <1>4 DEF lim

\* process() keeps the types, wherever the feedback goes.
LEMMA ProcessTypes ==
  ASSUME TypeOK, NEW x \in Values, NEW d \in Delays, NEW f \in Delays, NEW g \in Gains,
         Process(x, d, f, g)
  PROVE  TypeOK'
  <1> DEFINE age == lsp_limit(d, 0, nMaxDelay)
             saved == [vDelay EXCEPT ![nHead] = x]
  <1>1. age \in 0..nMaxDelay /\ f \in Int /\ g \in Nat
    BY Numbers, Limits
  <1>2. /\ feed' = FeedOf(age, f)
        /\ vDelay' = [saved EXCEPT ![feed'] = Mix(@, saved[TailOf(age)], g)]
        /\ out' = vDelay'[TailOf(age)]
        /\ nHead' = HeadAfter /\ nCapacity' = nCapacity /\ nMaxDelay' = nMaxDelay
    BY DEF Process
  <1> HIDE DEF age
  <1>3. saved \in [0..nCapacity -> Values] /\ nHead' \in 0..(nCapacity - 1)
    BY <1>2, Numbers DEF TypeOK, HeadAfter
  <1>4. TailOf(age) \in 0..nCapacity /\ feed' \in 0..nCapacity
    <2>1. age - lsp_limit(f, 0, age) \in 0..(nCapacity - 1)
      <3>1. age \in Nat
        BY <1>1, Numbers
      <3>2. lsp_limit(f, 0, age) \in 0..age
        BY <1>1, <3>1, Limits
      <3> QED
        BY <1>1, <3>1, <3>2, Numbers
    <2>2. age \in 0..(nCapacity - 1)
      BY <1>1, Numbers
    <2> QED
      BY <1>1, <1>2, <2>1, <2>2, Cells, Numbers
  <1> HIDE DEF saved
  <1>5. Mix(saved[feed'], saved[TailOf(age)], g) \in Values
    BY <1>1, <1>3, <1>4, MixValues
  <1>6. vDelay' \in [0..nCapacity -> Values] /\ out' \in Values
    BY <1>2, <1>3, <1>4, <1>5
  <1> QED
    BY <1>2, <1>3, <1>4, <1>6 DEF TypeOK

\* process() plays and shifts the register.
LEMMA ProcessPlays ==
  ASSUME TypeOK, EndFeeds = FALSE,
         NEW x \in Values, NEW d \in Delays, NEW f \in Delays, NEW g \in Gains,
         Process(x, d, f, g)
  PROVE  Register!Play(x, d, f, g)
  <1> DEFINE age == lsp_limit(d, 0, nMaxDelay)
             to == age - lsp_limit(f, 0, age)
             saved == [vDelay EXCEPT ![nHead] = x]
             shifted == [k \in 0..(nCapacity - 1) |-> IF k = 0 THEN x ELSE Line[k - 1]]
  <1>1. /\ age \in 0..nMaxDelay /\ to \in 0..age /\ d \in Int /\ f \in Int /\ g \in Nat
    <2>1. d \in Int /\ f \in Int /\ g \in Nat /\ age \in 0..nMaxDelay
      BY Numbers, Limits
    <2>2. age \in Nat
      BY <2>1, Numbers
    <2>3. lsp_limit(f, 0, age) \in 0..age
      BY <2>1, <2>2, Limits
    <2> HIDE DEF age
    <2> QED
      BY <2>1, <2>2, <2>3
  <1>2. /\ feed' = FeedOf(age, f)
        /\ vDelay' = [saved EXCEPT ![feed'] = Mix(@, saved[TailOf(age)], g)]
        /\ out' = vDelay'[TailOf(age)]
        /\ nHead' = HeadAfter /\ nCapacity' = nCapacity /\ nMaxDelay' = nMaxDelay
        /\ g = 0 \/ FeedOf(age, f) # nCapacity
    BY DEF Process
  <1>3. /\ \A k \in 0..(nCapacity - 1) : At(k) \in 0..(nCapacity - 1)
        /\ \A j, k \in 0..(nCapacity - 1) : At(j) = At(k) => j = k
        /\ At(0) = nHead /\ TailOf(age) = At(age)
        /\ feed' \in {At(to), nCapacity}
    BY <1>1, <1>2, Cells
  <1>4. saved \in [0..nCapacity -> Values] /\ \A c \in 0..nCapacity : saved[c] = IF c = nHead THEN x ELSE vDelay[c]
    BY Numbers DEF TypeOK
  <1>5. nHead' \in 0..(nCapacity - 1) /\ \A k \in 0..(nCapacity - 1) : Behind(k)' = At(k)
    BY <1>2, Numbers DEF HeadAfter, Behind, At
  <1>6. \A k \in 0..(nCapacity - 1) : saved[At(k)] = shifted[k] /\ shifted[k] \in Values
    <2> SUFFICES ASSUME NEW k \in 0..(nCapacity - 1)
                 PROVE  saved[At(k)] = shifted[k] /\ shifted[k] \in Values
      OBVIOUS
    <2>1. CASE k = 0
      BY <1>3, <1>4, <2>1, Numbers
    <2>2. CASE k # 0
      <3>1. k - 1 \in 0..(nCapacity - 1) /\ Behind(k - 1) = At(k)
        BY <2>2, Numbers DEF Behind, At
      <3>2. At(k) # nHead /\ At(k) \in 0..nCapacity
        BY <1>3, <2>2, Numbers
      <3> QED
        BY <1>4, <2>2, <3>1, <3>2 DEF Line, TypeOK
    <2> QED
      BY <2>1, <2>2
  <1>7. /\ age \in 0..(nCapacity - 1) /\ to \in 0..(nCapacity - 1)
        /\ feed' \in 0..nCapacity /\ At(to) # nCapacity
    BY <1>1, <1>3, Numbers
  <1> DEFINE fed == Mix(shifted[to], shifted[age], g)
  <1>8. \A k \in 0..(nCapacity - 1) : vDelay'[At(k)] = IF k = to THEN fed ELSE shifted[k]
    <2> SUFFICES ASSUME NEW k \in 0..(nCapacity - 1)
                 PROVE  vDelay'[At(k)] = IF k = to THEN fed ELSE shifted[k]
      OBVIOUS
    <2>1. vDelay'[At(k)] = IF At(k) = feed' THEN Mix(saved[At(k)], saved[At(age)], g) ELSE saved[At(k)]
      BY <1>2, <1>3, <1>4, Numbers
    <2>2. CASE feed' = At(to)
      <3>1. At(k) = feed' <=> k = to
        BY <1>3, <1>7, <2>2
      <3> QED
        BY <1>6, <1>7, <2>1, <3>1
    <2>3. CASE feed' = nCapacity
      <3>1. g = 0 /\ At(k) # feed'
        BY <1>2, <1>3, <2>3, Numbers
      <3>2. fed = shifted[to]
        BY <1>6, <1>7, <3>1, MixValues
      <3> QED
        BY <1>6, <2>1, <3>1, <3>2
    <2> QED
      BY <1>3, <2>2, <2>3
  <1>9. Line' = [shifted EXCEPT ![to] = Mix(@, shifted[age], g)]
    <2>1. Line' = [k \in 0..(nCapacity - 1) |-> vDelay'[At(k)]]
      BY <1>2, <1>5 DEF Line
    <2> QED
      BY <1>8, <2>1
  <1>10. out' = Line'[age]
    BY <1>2, <1>3, <1>5, <1>7 DEF Line
  <1> QED
    BY <1>2, <1>9, <1>10, Numbers DEF Register!Play, Register!Between, Register!Ages, lsp_limit

\* Another ring holds the newest samples of the old one, with silence before them.
LEMMA ExchangeResizes ==
  ASSUME TypeOK, NEW n \in Sizes, Exchange(n)
  PROVE  TypeOK' /\ Register!Resize(n)
  <1> DEFINE cap == Capacity(n)
             count == IF cap < nCapacity THEN cap ELSE nCapacity
             st == IF nHead < count THEN nHead - count + nCapacity ELSE nHead - count
  <1>1. /\ nMaxDelay' = n /\ nCapacity' = cap /\ nHead' = 0 /\ feed' = 0 /\ out' = out
        /\ cap \in Nat /\ cap > 0 /\ count \in Nat /\ st \in Nat
    BY Numbers DEF Exchange
  <1>2. PICK behind \in Values :
          vDelay' = [c \in 0..cap |-> IF c < cap THEN Copied(cap)[c] ELSE behind]
    BY <1>1 DEF Exchange
  <1>3. Copied(cap) = [c \in 0..(cap - 1) |->
                         IF c < cap - count THEN 0 ELSE vDelay[Source(st, c - (cap - count))]]
    BY DEF Copied
  <1>4. ASSUME NEW k \in 0..(cap - 1)
        PROVE  Copied(cap)[cap - 1 - k] = (IF k \in 0..(nCapacity - 1) THEN Line[k] ELSE 0)
    <2>1. cap - 1 - k \in 0..(cap - 1)
      BY <1>1
    <2>2. CASE k < count
      <3>1. k \in 0..(nCapacity - 1) /\ ~ (cap - 1 - k < cap - count)
        BY <1>1, <2>2, Numbers
      <3>2. Source(st, cap - 1 - k - (cap - count)) = Behind(k)
        BY <1>1, <2>2, Numbers DEF Source, Behind
      <3> QED
        BY <1>3, <2>1, <3>1, <3>2 DEF Line
    <2>3. CASE k >= count
      BY <1>1, <1>3, <2>1, <2>3, Numbers
    <2> QED
      BY <1>1, <2>2, <2>3
  <1>5. \A k \in 0..(nCapacity - 1) : Line[k] \in Values
    BY Numbers DEF Line, Behind, TypeOK
  <1>6. \A c \in 0..(cap - 1) : Copied(cap)[c] \in Values
    <2> SUFFICES ASSUME NEW c \in 0..(cap - 1) PROVE Copied(cap)[c] \in Values
      OBVIOUS
    <2>1. cap - 1 - c \in 0..(cap - 1) /\ cap - 1 - (cap - 1 - c) = c
      BY <1>1
    <2>2. 0 \in Values
      BY DEF Values
    <2> QED
      BY <1>4, <1>5, <2>1, <2>2
  <1> HIDE DEF cap, count, st
  <1>7. TypeOK'
    <2>1. vDelay' \in [0..cap -> Values]
      BY <1>1, <1>2, <1>6
    <2> QED
      BY <1>1, <2>1 DEF TypeOK, cap
  <1>8. Line' = [k \in 0..(cap - 1) |-> IF k \in 0..(nCapacity - 1) THEN Line[k] ELSE 0]
    <2>1. Line' = [k \in 0..(cap - 1) |-> vDelay'[Behind(k)']]
      BY <1>1 DEF Line
    <2>2. ASSUME NEW k \in 0..(cap - 1)
          PROVE  vDelay'[Behind(k)'] = (IF k \in 0..(nCapacity - 1) THEN Line[k] ELSE 0)
      <3>1. Behind(k)' = cap - 1 - k /\ cap - 1 - k \in 0..(cap - 1) /\ cap - 1 - k < cap
        BY <1>1 DEF Behind
      <3> QED
        BY <1>1, <1>2, <1>4, <3>1
    <2> QED
      BY <2>1, <2>2
  <1> QED
    BY <1>1, <1>7, <1>8, Numbers DEF Register!Resize, Register!Ages, cap

\* A new ring is a new register.
LEMMA InitRegister == Init => TypeOK /\ Register!Init
  <1> SUFFICES ASSUME Init PROVE TypeOK /\ Register!Init
    OBVIOUS
  <1>1. TypeOK
    <2>1. nMaxDelay \in Sizes /\ nCapacity = Capacity(nMaxDelay) /\ nCapacity \in Nat /\ nCapacity > 0
      BY CapacityLarge DEF Init
    <2>2. 0 \in Values /\ 0 \in 0..(nCapacity - 1) /\ 0 \in 0..nCapacity
      BY <2>1 DEF Values
    <2> QED
      BY <2>1, <2>2 DEF Init, TypeOK
  <1>2. \A k \in 0..(nCapacity - 1) : Line[k] \in Values
    BY <1>1, Numbers DEF Line, Behind, TypeOK
  <1> QED
    BY <1>1, <1>2 DEF Init, Register!Init, Register!Ages, Line, TypeOK

\* Every step keeps the types.
LEMMA NextTypes == TypeOK /\ [Next]_vars => TypeOK'
  BY ProcessTypes, ExchangeResizes DEF Next, vars, TypeOK

\* Every step is one of the register, when no feedback falls on the end.
LEMMA NextRegister ==
  ASSUME EndFeeds = FALSE, TypeOK, [Next]_vars
  PROVE  [Register!Next]_(Register!vars)
  <1>1. CASE Next
    BY <1>1, ProcessPlays, ExchangeResizes DEF Next, Register!Next
  <1>2. CASE UNCHANGED vars
    BY <1>2 DEF vars, Register!vars, Line, Behind
  <1> QED
    BY <1>1, <1>2

\* Types: the head never leaves the ring, and the feedback goes to one of its cells
\* or the one behind it.
THEOREM TypeCorrect == Spec => []TypeOK
  BY InitRegister, NextTypes, PTL DEF Spec

\* The ring of a delay line implements the shift register, unless a feedback falls
\* exactly on its end.
THEOREM RingIsDelayLine == EndFeeds = FALSE => (Spec => ImplementsDelayLine)
  <1>1. Spec => []TypeOK
    BY TypeCorrect
  <1>2. ASSUME EndFeeds = FALSE PROVE Spec => ImplementsDelayLine
    <2>1. TypeOK /\ [Next]_vars => [Register!Next]_(Register!vars)
      BY <1>2, NextRegister
    <2> QED
      BY <1>1, <2>1, InitRegister, PTL DEF Spec, ImplementsDelayLine, Register!Spec
  <1> QED
    BY <1>2
=============================================================================
