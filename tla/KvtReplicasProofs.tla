-------------------------- MODULE KvtReplicasProofs --------------------------
(***************************************************************************)
(* The replicas of the DSP and of the UI agree when the transfer between   *)
(* them has settled, for any parameters and values, rings of any capacity  *)
(* and any number of changes and sessions. First what the two ends do to a *)
(* ring, then one step per action for each part of the invariant.          *)
(***************************************************************************)
EXTENDS KvtReplicas, TLAPS

USE ReplicasAssumption

Packets == Params \X (Values \ Huge)

\* A packet that is submitted becomes the last one for its parameter and
\* changes nothing for the others.
LEMMA AppendRing ==
  ASSUME NEW ring \in Seq(Packets), NEW p \in Params, NEW v \in Values \ Huge
  PROVE  LET new == Append(ring, <<p, v>>) IN
         /\ new \in Seq(Packets) /\ Len(new) = Len(ring) + 1
         /\ In(new) = In(ring) \cup {p}
         /\ Ends(new, p, v)
         /\ \A q \in Params \ {p} : \A w : Ends(ring, q, w) => Ends(new, q, w)
  <1> DEFINE new == Append(ring, <<p, v>>)
  <1>1. /\ new \in Seq(Packets) /\ Len(new) = Len(ring) + 1
        /\ \A k \in 1..Len(ring) : new[k] = ring[k]
        /\ new[Len(ring) + 1] = <<p, v>>
    BY DEF Packets
  <1>2. Len(ring) \in Nat /\ 1..Len(new) = 1..Len(ring) \cup {Len(ring) + 1}
    BY <1>1
  <1>3. In(new) = In(ring) \cup {p}
    BY <1>1, <1>2 DEF In
  <1>4. Ends(new, p, v)
    BY <1>1, <1>2 DEF Ends
  <1>5. ASSUME NEW q \in Params \ {p}, NEW w, Ends(ring, q, w) PROVE Ends(new, q, w)
    <2> SUFFICES ASSUME NEW k \in 1..Len(new), new[k][1] = q,
                        \A j \in 1..Len(new) : j > k => new[j][1] # q
                 PROVE  new[k][2] = w
      BY DEF Ends
    <2>1. k \in 1..Len(ring)
      BY <1>1, <1>2
    <2>2. \A j \in 1..Len(ring) : j > k => ring[j][1] # q
      BY <1>1, <1>2
    <2> QED
      BY <1>1, <1>5, <2>1, <2>2 DEF Ends
  <1> QED
    BY <1>1, <1>3, <1>4, <1>5

\* The packet that is fetched: what is left of a ring, and what was last in it.
LEMMA TailRing ==
  ASSUME NEW ring \in Seq(Packets), ring # <<>>
  PROVE  /\ Tail(ring) \in Seq(Packets) /\ Len(Tail(ring)) = Len(ring) - 1
         /\ Head(ring) \in Packets
         /\ In(ring) = In(Tail(ring)) \cup {Head(ring)[1]}
         /\ \A q \in Params : \A w : Ends(ring, q, w) => Ends(Tail(ring), q, w)
         /\ \A w : Ends(ring, Head(ring)[1], w) /\ Head(ring)[1] \notin In(Tail(ring))
                     => Head(ring)[2] = w
  <1>1. /\ Tail(ring) \in Seq(Packets) /\ Len(Tail(ring)) = Len(ring) - 1
        /\ Head(ring) \in Packets /\ Head(ring) = ring[1]
        /\ Len(ring) \in Nat \ {0}
        /\ \A k \in 1..Len(Tail(ring)) : Tail(ring)[k] = ring[k + 1]
    OBVIOUS
  <1>2. \A k \in 1..Len(ring) : k = 1 \/ (k - 1) \in 1..Len(Tail(ring))
    BY <1>1
  <1>3. In(ring) = In(Tail(ring)) \cup {Head(ring)[1]}
    <2>1. ASSUME NEW k \in 1..Len(ring) PROVE ring[k][1] \in In(Tail(ring)) \cup {Head(ring)[1]}
      <3>1. CASE k = 1
        BY <1>1, <3>1
      <3>2. CASE k # 1
        <4>1. (k - 1) \in 1..Len(Tail(ring))
          BY <1>2, <3>2
        <4>2. Tail(ring)[k - 1] = ring[k]
          BY <1>1, <4>1
        <4> QED
          BY <4>1, <4>2 DEF In
      <3> QED
        BY <3>1, <3>2
    <2>2. ASSUME NEW k \in 1..Len(Tail(ring)) PROVE Tail(ring)[k][1] \in In(ring)
      <3>1. k + 1 \in 1..Len(ring) /\ Tail(ring)[k] = ring[k + 1]
        BY <1>1
      <3> QED
        BY <3>1 DEF In
    <2>3. Head(ring)[1] \in In(ring)
      BY <1>1 DEF In
    <2> QED
      BY <2>1, <2>2, <2>3 DEF In
  <1>4. ASSUME NEW q \in Params, NEW w, Ends(ring, q, w) PROVE Ends(Tail(ring), q, w)
    <2> SUFFICES ASSUME NEW k \in 1..Len(Tail(ring)), Tail(ring)[k][1] = q,
                        \A j \in 1..Len(Tail(ring)) : j > k => Tail(ring)[j][1] # q
                 PROVE  Tail(ring)[k][2] = w
      BY DEF Ends
    <2>1. k + 1 \in 1..Len(ring) /\ ring[k + 1] = Tail(ring)[k]
      BY <1>1
    <2>2. ASSUME NEW j \in 1..Len(ring), j > k + 1 PROVE ring[j][1] # q
      <3>1. (j - 1) \in 1..Len(Tail(ring)) /\ j - 1 > k
        BY <1>1, <2>2
      <3>2. Tail(ring)[j - 1] = ring[j]
        BY <1>1, <3>1
      <3> QED
        BY <3>1, <3>2
    <2> QED
      BY <1>4, <2>1, <2>2 DEF Ends
  <1>5. ASSUME NEW w, Ends(ring, Head(ring)[1], w), Head(ring)[1] \notin In(Tail(ring))
        PROVE  Head(ring)[2] = w
    <2>1. ASSUME NEW j \in 1..Len(ring), j > 1 PROVE ring[j][1] # Head(ring)[1]
      <3>1. (j - 1) \in 1..Len(Tail(ring))
        BY <1>1, <2>1
      <3>2. Tail(ring)[j - 1] = ring[j]
        BY <1>1, <3>1
      <3> QED
        BY <1>5, <3>1, <3>2 DEF In
    <2> QED
      BY <1>1, <1>5, <2>1 DEF Ends
  <1> QED
    BY <1>1, <1>3, <1>4, <1>5

\* An empty ring holds no packet.
LEMMA EmptyRing ==
  /\ In(<<>>) = {} /\ <<>> \in Seq(Packets) /\ Len(<<>>) = 0
  BY DEF In

\* What a change that nobody is told of leaves apart, and what not.
LEMMA SilentChange ==
  ASSUME NEW P, NEW d, NEW u, NEW q \in Params, q \notin Silently(P, d, u)
  PROVE  /\ q \in P => q \notin In(pRx) /\ q \notin In(pTx) /\ d[q] = u[q]
         /\ q \notin P => q \notin apart
  BY DEF Silently

\* At the beginning nothing is stored, and nobody is connected.
LEMMA InitInv == Init => IInv
  <1> SUFFICES ASSUME Init PROVE IInv
    OBVIOUS
  <1>1. TypeOK
    <2>1. \A ring \in {pRx, pTx} : ring \in Seq(Params \X (Values \ Huge)) /\ Len(ring) <= Capacity
      <3>1. pRx = <<>> /\ pTx = <<>> /\ 0 <= Capacity
        BY DEF Init
      <3>2. <<>> \in Seq(Params \X (Values \ Huge)) /\ Len(<<>>) = 0
        OBVIOUS
      <3> QED
        BY <3>1, <3>2
    <2>2. dval \in [Params -> Values \cup {None}] /\ uval \in [Params -> Values \cup {None}]
      BY DEF Init
    <2>3. dtx \subseteq Stored /\ urx \cup utx \subseteq {p \in Params : uval[p] # None}
      BY DEF Init
    <2>4. nClients = 0 /\ nTxRequest = 0 /\ sessions = 0 /\ puts = 0 /\ upc = "closed" /\ dpc = "sleep"
          /\ mutex = "none" /\ torn = FALSE /\ apart = {} /\ pRx = <<>>
      BY DEF Init
    <2>5. mutex = "dispatcher" <=> dpc # "sleep"
      BY <2>4
    <2>6. mutex = "ui" <=> upc = "fetch"
      BY <2>4
    <2>7. torn \in BOOLEAN /\ (torn => pRx = <<>>)
      BY <2>4, Zenon
    <2>8. nClients = (IF upc = "closed" THEN 0 ELSE 1) /\ nTxRequest \in 0..sessions
      BY <2>4
    <2>9. apart \subseteq Params /\ puts \in Nat /\ sessions \in Nat
      BY <2>4
    <2> QED
      BY <2>1, <2>2, <2>3, <2>4, <2>5, <2>6, <2>7, <2>8, <2>9, Zenon DEF TypeOK
  <1>2. RequestsCounted /\ ClearedAreResent /\ Converging
    BY DEF Init, RequestsCounted, ClearedAreResent, Converging
  <1> QED
    BY <1>1, <1>2 DEF IInv

-----------------------------------------------------------------------------
\* Every step preserves the types, once the requests are counted.
LEMMA NextType == IInv /\ [Next]_vars => TypeOK'
  <1> SUFFICES ASSUME IInv, [Next]_vars PROVE TypeOK'
    OBVIOUS
  <1> USE DEF IInv, dsp, ui, rings, client, bounds
  <1>1. CASE RoundBegin
    BY <1>1 DEF RoundBegin, Answered, TypeOK, Stored, Packets, RequestsCounted
  <1>2. CASE Clear
    <2>1. \A ring \in {pRx', pTx'} : ring \in Seq(Params \X (Values \ Huge)) /\ Len(ring) <= Capacity
      <3>1. pRx' = <<>> /\ pTx' = <<>> /\ 0 <= Capacity
        BY <1>2 DEF Clear
      <3>2. <<>> \in Seq(Params \X (Values \ Huge)) /\ Len(<<>>) = 0
        OBVIOUS
      <3> QED
        BY <3>1, <3>2
    <2>2. In(pRx) \subseteq Params
      BY DEF TypeOK, In
    <2>3. torn' \in BOOLEAN
      BY <1>2 DEF Clear
    <2> QED
      BY <1>2, <2>1, <2>2, <2>3 DEF Clear, TypeOK, Stored, RequestsCounted
  <1>3. CASE Receive
    <2>1. /\ pRx \in Seq(Packets) /\ Len(pRx) <= Capacity /\ Len(pRx) \in Nat
      BY <1>3 DEF TypeOK, Packets
    <2>2. pRx' \in Seq(Packets) /\ Len(pRx') <= Capacity /\ Head(pRx) \in Packets
      BY <1>3, <2>1, TailRing DEF Receive
    <2>3. \A ring \in {pRx', pTx'} : ring \in Seq(Params \X (Values \ Huge)) /\ Len(ring) <= Capacity
      BY <1>3, <2>2 DEF Receive, TypeOK, Packets
    <2>4. ~ torn
      BY <1>3 DEF Receive, TypeOK
    <2> QED
      BY <1>3, <2>2, <2>3, <2>4 DEF Receive, TypeOK, Stored, Packets, RequestsCounted
  <1>4. CASE ReceiveEnd
    BY <1>4 DEF ReceiveEnd, TypeOK, Stored, Packets, RequestsCounted
  <1>5. ASSUME NEW p \in Params, TransmitNot(p) PROVE TypeOK'
    BY <1>5 DEF TransmitNot, TypeOK, Stored, Packets, RequestsCounted
  <1>6. ASSUME NEW p \in Params, Transmit(p) PROVE TypeOK'
    <2>1. /\ pTx \in Seq(Packets) /\ Len(pTx) < Capacity /\ Len(pTx) \in Nat
          /\ dval[p] \in Values \ Huge
      BY <1>6 DEF Transmit, Full, TypeOK, Packets, Stored
    <2>2. pTx' \in Seq(Packets) /\ Len(pTx') <= Capacity
      <3>1. pTx' = Append(pTx, <<p, dval[p]>>) /\ <<p, dval[p]>> \in Packets
        BY <1>6, <2>1 DEF Transmit, Packets
      <3> QED
        BY <2>1, <3>1
    <2>3. \A ring \in {pRx', pTx'} : ring \in Seq(Params \X (Values \ Huge)) /\ Len(ring) <= Capacity
      BY <1>6, <2>2 DEF Transmit, TypeOK, Packets
    <2> QED
      BY <1>6, <2>3 DEF Transmit, TypeOK, Stored, RequestsCounted, AfterSending
  <1>7. ASSUME NEW p \in Params, TransmitFull(p) PROVE TypeOK'
    BY <1>7 DEF TransmitFull, Full, LeftPending, TypeOK, Stored, Packets, RequestsCounted
  <1>8. CASE TransmitEnd
    BY <1>8 DEF TransmitEnd, TypeOK, Stored, Packets, RequestsCounted
  <1>9. CASE Open
    <2>1. In(pRx) \subseteq Params /\ In(pTx) \subseteq Params
      BY DEF TypeOK, In
    <2> QED
      BY <1>9, <2>1 DEF Open, TypeOK, Stored, RequestsCounted
  <1>10. CASE Connect
    BY <1>10 DEF Connect, TypeOK, Stored, Packets, RequestsCounted
  <1>11. CASE Disconnect
    BY <1>11 DEF Disconnect, TypeOK, Stored, Packets, RequestsCounted
  <1>12. ASSUME NEW p \in Params, UiPut(p) PROVE TypeOK'
    BY <1>12 DEF UiPut, TypeOK, Stored, Packets, RequestsCounted
  <1>13. CASE FetchBegin
    BY <1>13 DEF FetchBegin, TypeOK, Stored, Packets, RequestsCounted
  <1>14. CASE FetchNot
    BY <1>14 DEF FetchNot, TypeOK, Stored, Packets, RequestsCounted
  <1>15. CASE Fetch
    <2>1. /\ pTx \in Seq(Packets) /\ Len(pTx) <= Capacity /\ Len(pTx) \in Nat
      BY <1>15 DEF TypeOK, Packets
    <2>2. pTx' \in Seq(Packets) /\ Len(pTx') <= Capacity /\ Head(pTx) \in Packets
      BY <1>15, <2>1, TailRing DEF Fetch
    <2>3. \A ring \in {pRx', pTx'} : ring \in Seq(Params \X (Values \ Huge)) /\ Len(ring) <= Capacity
      BY <1>15, <2>2 DEF Fetch, TypeOK, Packets
    <2> QED
      BY <1>15, <2>2, <2>3 DEF Fetch, TypeOK, Stored, Packets, RequestsCounted
  <1>16. CASE FetchEnd
    BY <1>16 DEF FetchEnd, TypeOK, Stored, Packets, RequestsCounted
  <1>17. ASSUME NEW p \in Params, Send(p) PROVE TypeOK'
    <2>1. \A ring \in {pRx', pTx'} : ring \in Seq(Params \X (Values \ Huge)) /\ Len(ring) <= Capacity
      <3>1. CASE uval[p] \in Huge \/ Full(pRx) \/ torn
        BY <1>17, <3>1 DEF Send, TypeOK
      <3>2. CASE ~ (uval[p] \in Huge \/ Full(pRx) \/ torn)
        <4>1. /\ pRx \in Seq(Packets) /\ Len(pRx) < Capacity /\ Len(pRx) \in Nat
              /\ uval[p] \in Values \ Huge
          BY <1>17, <3>2 DEF Send, Full, TypeOK, Packets
        <4>2. pRx' \in Seq(Packets) /\ Len(pRx') <= Capacity
          <5>1. pRx' = Append(pRx, <<p, uval[p]>>) /\ <<p, uval[p]>> \in Packets
            BY <1>17, <3>2, <4>1 DEF Send, Packets
          <5> QED
            BY <4>1, <5>1
        <4> QED
          BY <1>17, <4>2 DEF Send, TypeOK, Packets
      <3> QED
        BY <3>1, <3>2
    <2> QED
      BY <1>17, <2>1 DEF Send, TypeOK, Stored, RequestsCounted, AfterSending
  <1>18. CASE SendEnd
    BY <1>18 DEF SendEnd, TypeOK, Stored, Packets, RequestsCounted
  <1>19. CASE LoadScene
    <2>1. PICK S \in (SUBSET Params) \ {{}} : \E R \in SUBSET (Stored \ S), v \in [S -> Values] :
            /\ dval' = [p \in Params |-> IF p \in S THEN v[p] ELSE IF p \in R THEN None ELSE dval[p]]
            /\ dtx' = (dtx \ R) \cup S
            /\ apart' = Silently(R, dval', uval)
      BY <1>19 DEF LoadScene
    <2>2. PICK R \in SUBSET (Stored \ S), v \in [S -> Values] :
            /\ dval' = [p \in Params |-> IF p \in S THEN v[p] ELSE IF p \in R THEN None ELSE dval[p]]
            /\ dtx' = (dtx \ R) \cup S
            /\ apart' = Silently(R, dval', uval)
      BY <2>1
    <2>3. R \subseteq Params /\ S \subseteq Params
      BY <2>2 DEF Stored
    <2>4. dval' \in [Params -> Values \cup {None}] /\ dtx' \subseteq Stored' /\ apart' \subseteq Params
      BY <2>2, <2>3 DEF TypeOK, Stored, Silently
    <2> QED
      BY <1>19, <2>4 DEF LoadScene, TypeOK, Stored
  <1>20. CASE RestoreState
    <2>0. PICK S \in SUBSET Params : \E v \in [S -> Values] :
            /\ dval' = [p \in Params |-> IF p \in S THEN v[p] ELSE None]
            /\ dtx' = S
            /\ apart' = Silently(Params \ S, dval', uval)
      BY <1>20 DEF RestoreState
    <2>1. PICK v \in [S -> Values] :
            /\ dval' = [p \in Params |-> IF p \in S THEN v[p] ELSE None]
            /\ dtx' = S
            /\ apart' = Silently(Params \ S, dval', uval)
      BY <2>0
    <2>2. dval' \in [Params -> Values \cup {None}] /\ dtx' \subseteq Stored' /\ apart' \subseteq Params
      BY <2>1 DEF TypeOK, Stored, Silently
    <2>3. UNCHANGED <<ui, rings, client, mutex, dpc, upc, sessions>> /\ puts' = puts + 1
      BY <1>20 DEF RestoreState
    <2> QED
      BY <2>2, <2>3 DEF TypeOK
  <1>22. CASE ReceiveTorn
    <2>1. PICK p \in Params, v \in Values \ Huge :
            dval' = [dval EXCEPT ![p] = v] /\ apart' = Silently({p}, dval', uval)
      BY <1>22 DEF ReceiveTorn
    <2>2. dval' \in [Params -> Values \cup {None}] /\ dtx \subseteq Stored' /\ apart' \subseteq Params
      BY <2>1 DEF TypeOK, Stored, Silently
    <2>3. UNCHANGED <<dtx, ui, rings, client, mutex, dpc, upc, sessions>> /\ puts' = puts + 1
      BY <1>22 DEF ReceiveTorn
    <2> QED
      BY <2>2, <2>3 DEF TypeOK
  <1>23. ASSUME NEW p \in Params, Sync(p) PROVE TypeOK'
    BY <1>23 DEF Sync, TypeOK, Stored
  <1>24. ASSUME NEW p \in Params, SyncPut(p) PROVE TypeOK'
    <2>0. PICK Q \in SUBSET Params : \E R \in SUBSET (Params \ Q), v \in [Q -> Values] :
            /\ uval' = [x \in Params |-> IF x \in Q THEN v[x] ELSE IF x \in R THEN None ELSE uval[x]]
            /\ urx' = (urx \cup Q) \ R /\ utx' = utx \ ({p} \cup R)
            /\ apart' = Silently(Q \cup R, dval, uval')
      BY <1>24 DEF SyncPut
    <2>1. PICK R \in SUBSET (Params \ Q), v \in [Q -> Values] :
            /\ uval' = [x \in Params |-> IF x \in Q THEN v[x] ELSE IF x \in R THEN None ELSE uval[x]]
            /\ urx' = (urx \cup Q) \ R /\ utx' = utx \ ({p} \cup R)
            /\ apart' = Silently(Q \cup R, dval, uval')
      BY <2>0
    <2>2. uval' \in [Params -> Values \cup {None}] /\ apart' \subseteq Params
      BY <2>1 DEF TypeOK, Silently
    <2>3. urx' \cup utx' \subseteq {x \in Params : uval'[x] # None}
      BY <2>1 DEF TypeOK
    <2>4. UNCHANGED <<dsp, rings, client, mutex, dpc, upc, sessions>> /\ puts' = puts + 1
      BY <1>24 DEF SyncPut
    <2> QED
      BY <2>2, <2>3, <2>4 DEF TypeOK, Stored
  <1>25. CASE SyncEnd
    BY <1>25 DEF SyncEnd, TypeOK, Stored
  <1>21. CASE UNCHANGED vars
    BY <1>21 DEF vars, TypeOK, Stored, Packets, RequestsCounted
  <1> QED
    BY <1>1, <1>2, <1>3, <1>4, <1>5, <1>6, <1>7, <1>8, <1>9, <1>10, <1>11,
       <1>12, <1>13, <1>14, <1>15, <1>16, <1>17, <1>18, <1>19, <1>20, <1>21,
       <1>22, <1>23, <1>24, <1>25
    DEF Next, Dispatcher, Round, Ui, Iteration

\* Every step preserves the count of requests, and keeps the request of a UI
\* whose packets are about to be cleared.
LEMMA NextRequests == IInv /\ [Next]_vars => RequestsCounted' /\ ClearedAreResent'
  <1> SUFFICES ASSUME IInv, [Next]_vars PROVE RequestsCounted' /\ ClearedAreResent'
    OBVIOUS
  <1> USE DEF IInv, dsp, ui, rings, client, bounds
  <1>1. CASE RoundBegin
    BY <1>1 DEF RoundBegin, Answered, TypeOK, RequestsCounted, ClearedAreResent
  <1>2. CASE Clear
    BY <1>2 DEF Clear, TypeOK, RequestsCounted, ClearedAreResent
  <1>3. CASE Receive
    BY <1>3 DEF Receive, TypeOK, RequestsCounted, ClearedAreResent
  <1>4. CASE ReceiveEnd
    BY <1>4 DEF ReceiveEnd, TypeOK, RequestsCounted, ClearedAreResent
  <1>5. ASSUME NEW p \in Params, TransmitNot(p) PROVE RequestsCounted' /\ ClearedAreResent'
    BY <1>5 DEF TransmitNot, TypeOK, RequestsCounted, ClearedAreResent
  <1>6. ASSUME NEW p \in Params, Transmit(p) PROVE RequestsCounted' /\ ClearedAreResent'
    BY <1>6 DEF Transmit, Full, TypeOK, RequestsCounted, ClearedAreResent
  <1>7. ASSUME NEW p \in Params, TransmitFull(p) PROVE RequestsCounted' /\ ClearedAreResent'
    BY <1>7 DEF TransmitFull, Full, LeftPending, TypeOK, RequestsCounted, ClearedAreResent
  <1>8. CASE TransmitEnd
    BY <1>8 DEF TransmitEnd, TypeOK, RequestsCounted, ClearedAreResent
  <1>9. CASE Open
    BY <1>9 DEF Open, TypeOK, RequestsCounted, ClearedAreResent
  <1>10. CASE Connect
    BY <1>10 DEF Connect, TypeOK, RequestsCounted, ClearedAreResent
  <1>11. CASE Disconnect
    BY <1>11 DEF Disconnect, TypeOK, RequestsCounted, ClearedAreResent
  <1>12. ASSUME NEW p \in Params, UiPut(p) PROVE RequestsCounted' /\ ClearedAreResent'
    BY <1>12 DEF UiPut, TypeOK, RequestsCounted, ClearedAreResent
  <1>13. CASE FetchBegin
    BY <1>13 DEF FetchBegin, TypeOK, RequestsCounted, ClearedAreResent
  <1>14. CASE FetchNot
    BY <1>14 DEF FetchNot, TypeOK, RequestsCounted, ClearedAreResent
  <1>15. CASE Fetch
    BY <1>15 DEF Fetch, TypeOK, RequestsCounted, ClearedAreResent
  <1>16. CASE FetchEnd
    BY <1>16 DEF FetchEnd, TypeOK, RequestsCounted, ClearedAreResent
  <1>17. ASSUME NEW p \in Params, Send(p) PROVE RequestsCounted' /\ ClearedAreResent'
    BY <1>17 DEF Send, Full, TypeOK, RequestsCounted, ClearedAreResent
  <1>18. CASE SendEnd
    BY <1>18 DEF SendEnd, TypeOK, RequestsCounted, ClearedAreResent
  <1>19. CASE LoadScene
    BY <1>19 DEF LoadScene, TypeOK, RequestsCounted, ClearedAreResent
  <1>20. CASE RestoreState
    BY <1>20 DEF RestoreState, TypeOK, RequestsCounted, ClearedAreResent
  <1>22. CASE ReceiveTorn
    BY <1>22 DEF ReceiveTorn, TypeOK, RequestsCounted, ClearedAreResent
  <1>23. ASSUME NEW p \in Params, Sync(p) PROVE RequestsCounted' /\ ClearedAreResent'
    BY <1>23 DEF Sync, TypeOK, RequestsCounted, ClearedAreResent
  <1>24. ASSUME NEW p \in Params, SyncPut(p) PROVE RequestsCounted' /\ ClearedAreResent'
    BY <1>24 DEF SyncPut, TypeOK, RequestsCounted, ClearedAreResent
  <1>25. CASE SyncEnd
    BY <1>25 DEF SyncEnd, TypeOK, RequestsCounted, ClearedAreResent
  <1>21. CASE UNCHANGED vars
    BY <1>21 DEF vars, TypeOK, RequestsCounted, ClearedAreResent
  <1> QED
    BY <1>1, <1>2, <1>3, <1>4, <1>5, <1>6, <1>7, <1>8, <1>9, <1>10, <1>11,
       <1>12, <1>13, <1>14, <1>15, <1>16, <1>17, <1>18, <1>19, <1>20, <1>21,
       <1>22, <1>23, <1>24, <1>25
    DEF Next, Dispatcher, Round, Ui, Iteration

\* Every step keeps what is said of each parameter that is not apart.
LEMMA NextConverging == IInv /\ [Next]_vars => Converging'
  <1> SUFFICES ASSUME IInv, [Next]_vars, upc' # "closed", NEW q \in Params, q \notin apart'
               PROVE  Converges(q)'
    BY DEF Converging
  <1> USE DEF IInv, dsp, ui, rings, client, bounds
  <1>0. upc # "closed" /\ q \notin apart => Converges(q)
    BY DEF Converging
  <1>1. CASE RoundBegin
    BY <1>1, <1>0 DEF RoundBegin, Answered, TypeOK, Stored, Converges, ToSend
  <1>2. CASE Clear
    <2>1. /\ upc # "closed" /\ q \notin In(pRx) /\ Converges(q)
          /\ upc = "connecting" \/ nTxRequest > 0
      BY <1>2, <1>0 DEF Clear, ClearedAreResent
    <2>2. In(pTx)' = {} /\ In(pRx)' = {}
      BY <1>2, EmptyRing DEF Clear, In
    <2> QED
      BY <1>2, <2>1, <2>2 DEF Clear, Converges, ToSend, Stored
  <1>3. CASE Receive
    <2>1. /\ pRx \in Seq(Packets) /\ pRx # <<>> /\ pRx' = Tail(pRx)
          /\ upc # "closed" /\ q \notin apart /\ dval \in [Params -> Values \cup {None}]
      BY <1>3 DEF Receive, TypeOK, Packets
    <2>2. /\ Head(pRx) \in Packets
          /\ In(pRx) = In(pRx') \cup {Head(pRx)[1]}
          /\ Ends(pRx, q, uval[q]) => Ends(pRx', q, uval[q])
          /\ Ends(pRx, q, uval[q]) /\ q = Head(pRx)[1] /\ q \notin In(pRx') => Head(pRx)[2] = uval[q]
      <3>1. /\ Head(pRx) \in Packets
            /\ In(pRx) = In(pRx') \cup {Head(pRx)[1]}
            /\ \A w : Ends(pRx, q, w) => Ends(pRx', q, w)
        BY <2>1, TailRing
      <3>2. \A w : Ends(pRx, Head(pRx)[1], w) /\ Head(pRx)[1] \notin In(pRx') => Head(pRx)[2] = w
        BY <2>1, TailRing
      <3> QED
        BY <3>1, <3>2
    <2>3. /\ dval'[q] = IF q = Head(pRx)[1] THEN Head(pRx)[2] ELSE dval[q]
          /\ q \in Stored => q \in Stored'
          /\ In(pTx)' = In(pTx) /\ (Ends(pTx, q, dval[q]) => Ends(pTx', q, dval[q]))
      BY <1>3, <2>1, <2>2 DEF Receive, Stored, Packets, In
    <2>4. CASE ToSend(q)
      BY <1>3, <2>3, <2>4 DEF Receive, Converges, ToSend
    <2>5. CASE q \in In(pTx) /\ q \notin In(pRx) /\ q \in Stored /\ Ends(pTx, q, dval[q])
      BY <1>3, <2>2, <2>3, <2>5 DEF Receive, Converges, Ends, In
    <2>6. CASE q \in In(pRx) /\ q \notin In(pTx) /\ Ends(pRx, q, uval[q])
      BY <1>3, <2>2, <2>3, <2>6 DEF Receive, Converges, Ends, In
    <2>7. CASE q \notin In(pTx) /\ q \notin In(pRx) /\ dval[q] = uval[q]
      BY <1>3, <2>2, <2>3, <2>7 DEF Receive, Converges, In
    <2> QED
      BY <1>0, <2>1, <2>4, <2>5, <2>6, <2>7 DEF Converges
  <1>4. CASE ReceiveEnd
    BY <1>4, <1>0 DEF ReceiveEnd, TypeOK, Stored, Converges, ToSend
  <1>5. ASSUME NEW p \in Params, TransmitNot(p) PROVE Converges(q)'
    BY <1>5, <1>0 DEF TransmitNot, TypeOK, Stored, Converges, ToSend
  <1>6. ASSUME NEW p \in Params, Transmit(p) PROVE Converges(q)'
    <2>1. /\ pTx \in Seq(Packets) /\ dval[p] \in Values \ Huge /\ p \in Stored
          /\ upc # "closed" /\ pTx' = Append(pTx, <<p, dval[p]>>)
      BY <1>6 DEF Transmit, TypeOK, Packets, Stored
    <2>2. /\ In(pTx') = In(pTx) \cup {p} /\ Ends(pTx', p, dval[p])
          /\ q # p /\ Ends(pTx, q, dval[q]) => Ends(pTx', q, dval[q])
      BY <2>1, AppendRing
    <2>3. CASE q = p
      <3>1. q \notin In(pRx)
        BY <1>6, <2>3 DEF Transmit, AfterSending
      <3> QED
        BY <1>6, <2>1, <2>2, <2>3, <3>1 DEF Transmit, Converges, In, Ends, Stored
    <2>4. CASE q # p
      <3>1. Converges(q)
        BY <1>6, <1>0, <2>1, <2>4 DEF Transmit, AfterSending
      <3>2. CASE ToSend(q)
        BY <1>6, <2>4, <3>2 DEF Transmit, Converges, ToSend, Stored
      <3>3. CASE q \in In(pTx) /\ q \notin In(pRx) /\ q \in Stored /\ Ends(pTx, q, dval[q])
        BY <1>6, <2>2, <2>4, <3>3 DEF Transmit, Converges, Ends, In, Stored
      <3>4. CASE q \notin In(pTx)
        BY <1>6, <2>2, <2>4, <3>1, <3>4 DEF Transmit, Converges, Ends, In, Stored, ToSend
      <3> QED
        BY <3>1, <3>2, <3>3, <3>4 DEF Converges
    <2> QED
      BY <2>3, <2>4
  <1>7. ASSUME NEW p \in Params, TransmitFull(p) PROVE Converges(q)'
    BY <1>7, <1>0 DEF TransmitFull, Full, LeftPending, TypeOK, Stored, Converges, ToSend
  <1>8. CASE TransmitEnd
    BY <1>8, <1>0 DEF TransmitEnd, TypeOK, Stored, Converges, ToSend
  <1>9. CASE Open
    <2>1. q \notin In(pTx) /\ q \notin In(pRx)
      BY <1>9 DEF Open
    <2>2. upc' = "connecting" /\ dval' = dval /\ uval'[q] = None /\ pTx' = pTx /\ pRx' = pRx
      BY <1>9 DEF Open
    <2> QED
      BY <2>1, <2>2 DEF Converges, ToSend, Stored, In
  <1>10. CASE Connect
    BY <1>10, <1>0 DEF Connect, TypeOK, Stored, Converges, ToSend
  <1>11. CASE Disconnect
    BY <1>11, <1>0 DEF Disconnect, TypeOK, Stored, Converges, ToSend
  <1>12. ASSUME NEW p \in Params, UiPut(p) PROVE Converges(q)'
    BY <1>12, <1>0 DEF UiPut, TypeOK, Stored, Converges, ToSend
  <1>13. CASE FetchBegin
    BY <1>13, <1>0 DEF FetchBegin, TypeOK, Stored, Converges, ToSend
  <1>14. CASE FetchNot
    BY <1>14, <1>0 DEF FetchNot, TypeOK, Stored, Converges, ToSend
  <1>15. CASE Fetch
    <2>1. /\ pTx \in Seq(Packets) /\ pTx # <<>> /\ pTx' = Tail(pTx)
          /\ upc # "closed" /\ q \notin apart /\ uval \in [Params -> Values \cup {None}]
      BY <1>15 DEF Fetch, TypeOK, Packets
    <2>2. /\ Head(pTx) \in Packets
          /\ In(pTx) = In(pTx') \cup {Head(pTx)[1]}
          /\ Ends(pTx, q, dval[q]) => Ends(pTx', q, dval[q])
          /\ Ends(pTx, q, dval[q]) /\ q = Head(pTx)[1] /\ q \notin In(pTx') => Head(pTx)[2] = dval[q]
      <3>1. /\ Head(pTx) \in Packets
            /\ In(pTx) = In(pTx') \cup {Head(pTx)[1]}
            /\ \A w : Ends(pTx, q, w) => Ends(pTx', q, w)
        BY <2>1, TailRing
      <3>2. \A w : Ends(pTx, Head(pTx)[1], w) /\ Head(pTx)[1] \notin In(pTx') => Head(pTx)[2] = w
        BY <2>1, TailRing
      <3> QED
        BY <3>1, <3>2
    <2>3. uval'[q] = IF q = Head(pTx)[1] THEN Head(pTx)[2] ELSE uval[q]
      BY <1>15, <2>1, <2>2 DEF Fetch, Packets
    <2>4. CASE ToSend(q)
      BY <1>15, <2>4 DEF Fetch, Converges, ToSend, Stored
    <2>5. CASE q \in In(pTx) /\ q \notin In(pRx) /\ q \in Stored /\ Ends(pTx, q, dval[q])
      BY <1>15, <2>2, <2>3, <2>5 DEF Fetch, Converges, Ends, In, Stored
    <2>6. CASE q \in In(pRx) /\ q \notin In(pTx) /\ Ends(pRx, q, uval[q])
      BY <1>15, <2>2, <2>3, <2>6 DEF Fetch, Converges, Ends, In
    <2>7. CASE q \notin In(pTx) /\ q \notin In(pRx) /\ dval[q] = uval[q]
      BY <1>15, <2>2, <2>3, <2>7 DEF Fetch, Converges, In
    <2> QED
      BY <1>0, <2>1, <2>4, <2>5, <2>6, <2>7 DEF Converges
  <1>16. CASE FetchEnd
    BY <1>16, <1>0 DEF FetchEnd, TypeOK, Stored, Converges, ToSend
  <1>17. ASSUME NEW p \in Params, Send(p) PROVE Converges(q)'
    <2>1. upc # "closed"
      BY <1>17 DEF Send
    <2>2. CASE uval[p] \in Huge \/ Full(pRx) \/ torn
      <3>1. q # p /\ Converges(q)
        BY <1>17, <1>0, <2>1, <2>2 DEF Send
      <3> QED
        BY <1>17, <2>2, <3>1 DEF Send, Converges, ToSend, Stored
    <2>3. CASE ~ (uval[p] \in Huge \/ Full(pRx) \/ torn)
      <3>1. /\ pRx \in Seq(Packets) /\ uval[p] \in Values \ Huge
            /\ pRx' = Append(pRx, <<p, uval[p]>>)
        BY <1>17, <2>3 DEF Send, TypeOK, Packets
      <3>2. /\ In(pRx') = In(pRx) \cup {p} /\ Ends(pRx', p, uval[p])
            /\ q # p /\ Ends(pRx, q, uval[q]) => Ends(pRx', q, uval[q])
        BY <3>1, AppendRing
      <3>3. CASE q = p
        <4>1. q \notin In(pTx)
          BY <1>17, <2>3, <3>3 DEF Send, AfterSending
        <4> QED
          BY <1>17, <3>2, <3>3, <4>1 DEF Send, Converges, In, Ends
      <3>4. CASE q # p
        <4>1. Converges(q)
          BY <1>17, <1>0, <2>1, <2>3, <3>4 DEF Send, AfterSending
        <4>2. CASE ToSend(q)
          BY <1>17, <3>4, <4>2 DEF Send, Converges, ToSend, Stored
        <4>3. CASE q \in In(pRx) /\ q \notin In(pTx) /\ Ends(pRx, q, uval[q])
          BY <1>17, <3>2, <3>4, <4>3 DEF Send, Converges, Ends, In
        <4>4. CASE q \notin In(pRx)
          BY <1>17, <3>2, <3>4, <4>1, <4>4 DEF Send, Converges, Ends, In, Stored, ToSend
        <4> QED
          BY <4>1, <4>2, <4>3, <4>4 DEF Converges
      <3> QED
        BY <3>3, <3>4
    <2> QED
      BY <2>2, <2>3
  <1>18. CASE SendEnd
    BY <1>18, <1>0 DEF SendEnd, TypeOK, Stored, Converges, ToSend
  <1>19. CASE LoadScene
    <2>1. PICK S \in (SUBSET Params) \ {{}} : \E R \in SUBSET (Stored \ S), v \in [S -> Values] :
            /\ dval' = [p \in Params |-> IF p \in S THEN v[p] ELSE IF p \in R THEN None ELSE dval[p]]
            /\ dtx' = (dtx \ R) \cup S
            /\ apart' = Silently(R, dval', uval)
      BY <1>19 DEF LoadScene
    <2>2. PICK R \in SUBSET (Stored \ S), v \in [S -> Values] :
            /\ dval' = [p \in Params |-> IF p \in S THEN v[p] ELSE IF p \in R THEN None ELSE dval[p]]
            /\ dtx' = (dtx \ R) \cup S
            /\ apart' = Silently(R, dval', uval)
      BY <2>1
    <2>3. UNCHANGED <<ui, rings, client, upc>> /\ upc # "closed"
      BY <1>19 DEF LoadScene
    <2>4. CASE q \in S
      BY <2>2, <2>4 DEF Converges, ToSend
    <2>5. CASE q \in R
      <3>1. q \notin In(pRx) /\ q \notin In(pTx) /\ dval'[q] = uval[q]
        BY <2>2, <2>5, SilentChange
      <3> QED
        BY <2>3, <3>1 DEF Converges, In
    <2>6. CASE q \notin S /\ q \notin R
      <3>1. Converges(q) /\ dval'[q] = dval[q] /\ (q \in dtx => q \in dtx')
        BY <1>0, <2>2, <2>3, <2>6, SilentChange
      <3> QED
        BY <2>3, <3>1 DEF Converges, ToSend, Stored, Ends, In
    <2> QED
      BY <2>4, <2>5, <2>6
  <1>20. CASE RestoreState
    <2>1. PICK S \in SUBSET Params :
            dtx' = S /\ apart' = Silently(Params \ S, dval', uval)
      BY <1>20 DEF RestoreState
    <2>2. CASE q \in S
      BY <2>1, <2>2 DEF Converges, ToSend
    <2>3. CASE q \notin S
      <3>1. q \notin In(pRx) /\ q \notin In(pTx) /\ dval'[q] = uval[q]
        BY <2>1, <2>3 DEF Silently
      <3> QED
        BY <1>20, <3>1 DEF RestoreState, Converges, In
    <2> QED
      BY <2>2, <2>3
  <1>22. CASE ReceiveTorn
    <2>1. PICK p \in Params, v \in Values \ Huge :
            dval' = [dval EXCEPT ![p] = v] /\ apart' = Silently({p}, dval', uval)
      BY <1>22 DEF ReceiveTorn
    <2>2. UNCHANGED <<dtx, ui, rings, client, upc>> /\ upc # "closed"
      BY <1>22 DEF ReceiveTorn
    <2>3. CASE q = p
      <3>1. q \notin In(pRx) /\ q \notin In(pTx) /\ dval'[q] = uval[q]
        BY <2>1, <2>3 DEF Silently
      <3> QED
        BY <2>2, <3>1 DEF Converges, In
    <2>4. CASE q # p
      <3>1. Converges(q) /\ dval'[q] = dval[q]
        BY <1>0, <2>1, <2>2, <2>4, SilentChange
      <3> QED
        BY <2>2, <3>1 DEF Converges, ToSend, Stored, Ends, In
    <2> QED
      BY <2>3, <2>4
  <1>23. ASSUME NEW p \in Params, Sync(p) PROVE Converges(q)'
    BY <1>23, <1>0 DEF Sync, Stored, Converges, ToSend
  <1>24. ASSUME NEW p \in Params, SyncPut(p) PROVE Converges(q)'
    <2>0. PICK Q \in SUBSET Params : \E R \in SUBSET (Params \ Q), v \in [Q -> Values] :
            /\ uval' = [x \in Params |-> IF x \in Q THEN v[x] ELSE IF x \in R THEN None ELSE uval[x]]
            /\ urx' = (urx \cup Q) \ R /\ utx' = utx \ ({p} \cup R)
            /\ apart' = Silently(Q \cup R, dval, uval')
      BY <1>24 DEF SyncPut
    <2>1. PICK R \in SUBSET (Params \ Q), v \in [Q -> Values] :
            /\ uval' = [x \in Params |-> IF x \in Q THEN v[x] ELSE IF x \in R THEN None ELSE uval[x]]
            /\ urx' = (urx \cup Q) \ R /\ utx' = utx \ ({p} \cup R)
            /\ apart' = Silently(Q \cup R, dval, uval')
      BY <2>0
    <2>2. UNCHANGED <<dsp, rings, client, upc>> /\ upc = "sync"
      BY <1>24 DEF SyncPut
    <2>3. CASE q \in Q \cup R
      <3>1. q \notin In(pRx) /\ q \notin In(pTx) /\ dval[q] = uval'[q]
        BY <2>1, <2>3 DEF Silently
      <3> QED
        BY <2>2, <3>1 DEF Converges, In
    <2>4. CASE q \notin Q \cup R
      <3>1. Converges(q) /\ uval'[q] = uval[q]
        BY <1>0, <2>1, <2>2, <2>4, SilentChange
      <3> QED
        BY <2>2, <3>1 DEF Converges, ToSend, Stored, Ends, In
    <2> QED
      BY <2>3, <2>4
  <1>25. CASE SyncEnd
    BY <1>25, <1>0 DEF SyncEnd, Stored, Converges, ToSend
  <1>21. CASE UNCHANGED vars
    BY <1>21, <1>0 DEF vars, TypeOK, Stored, Converges, ToSend
  <1> QED
    BY <1>1, <1>2, <1>3, <1>4, <1>5, <1>6, <1>7, <1>8, <1>9, <1>10, <1>11,
       <1>12, <1>13, <1>14, <1>15, <1>16, <1>17, <1>18, <1>19, <1>20, <1>21,
       <1>22, <1>23, <1>24, <1>25
    DEF Next, Dispatcher, Round, Ui, Iteration

\* The invariant holds in every reachable state.
LEMMA SpecInv == Spec => []IInv
  <1>1. IInv /\ [Next]_vars => IInv'
    BY NextType, NextRequests, NextConverging DEF IInv
  <1> QED
    BY <1>1, InitInv, PTL DEF Spec

\* Types: the rings hold no more than fits, and the mutex has the holder that
\* its threads think it has.
THEOREM TypeCorrect == Spec => []TypeOK
  BY SpecInv, PTL DEF IInv

\* When the transfer has settled the replicas agree on every parameter that is
\* not apart.
THEOREM ReplicasAgree == Spec => []Agreement
  <1>1. IInv => Agreement
    BY EmptyRing DEF IInv, TypeOK, Converging, Converges, ToSend, Agreement, Settled
  <1> QED
    BY <1>1, SpecInv, PTL
=============================================================================
