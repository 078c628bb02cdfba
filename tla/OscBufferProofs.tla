--------------------------- MODULE OscBufferProofs ---------------------------
(***************************************************************************)
(* The ring is a FIFO of whole packets, for any capacity and any sizes of  *)
(* the packets, as long as the two errors of the code it is known for are  *)
(* kept out: Overlap and WrapSkips are FALSE. First where cells are on the *)
(* circle, then what a packet stored or taken out makes of the ring.       *)
(***************************************************************************)
EXTENDS OscBuffer, SequenceTheorems, TLAPS

USE OscBufferAssumption

Circle == 0..(Cap - 1)

\* Every position is on the circle.
LEMMA OnCircle == \A pos \in 0..Cap : Class(pos) \in Circle /\ Class(pos) \in 0..(Cap - 1)
  BY DEF Class, Circle

\* Positions in the ring, and where they are on the circle.
LEMMA Positions ==
  ASSUME NEW pos \in 0..Cap, NEW n \in 0..(Cap - 1)
  PROVE  /\ Class(pos) \in Circle
         /\ After(pos, n) \in 0..Cap
         /\ Class(After(pos, n)) = Class(Class(pos) + n + 1)
         /\ \A k \in 1..n : /\ Place(Wrap(pos + 1), k) \in Circle
                            /\ Place(Wrap(pos + 1), k) = Class(Class(pos) + k)
                            /\ Class(Place(Wrap(pos + 1), k)) = Place(Wrap(pos + 1), k)
  BY DEF Class, After, Wrap, Place, Circle

\* Distances on the circle add up, and different ones lead to different cells.
LEMMA Distances ==
  ASSUME NEW h \in Circle, NEW a \in Nat, NEW b \in Nat
  PROVE  /\ a + b <= Cap => Class(Class(h + a) + b) = Class(h + a + b)
         /\ a < b /\ b < Cap => Class(h + a) # Class(h + b)
         /\ Class(h + 0) = h
  BY DEF Class, Circle

\* A packet is a sequence of words, not empty and not larger than the ring.
LEMMA PacketWords ==
  ASSUME NEW p \in Packets
  PROVE  /\ Len(p) \in 1..Cap
         /\ p = [k \in 1..Len(p) |-> p[k]]
         /\ \A k \in 1..Len(p) : p[k] \in Words /\ p[k].id # 0
  <1>1. PICK id \in 1..MaxId, n \in Sizes : p = Packet(id, n)
    BY DEF Packets
  <1>2. n \in 1..Cap /\ p = [k \in 1..n |-> [id |-> id, n |-> k]]
    BY <1>1 DEF Packet
  <1>3. \A k \in 1..n : p[k] = [id |-> id, n |-> k] /\ p[k] \in Words
    BY <1>2 DEF Words
  <1>4. p \in [1..n -> Words]
    BY <1>2, <1>3
  <1>5. p \in Seq(Words) /\ Len(p) = n
    BY <1>2, <1>4
  <1> QED
    BY <1>2, <1>3, <1>5

\* submit() writes its packet and its length, and nothing else.
LEMMA StoredCells ==
  ASSUME TypeOK, NEW pos \in 0..Cap, NEW p \in Packets, Len(p) + 1 <= Cap
  PROVE  LET cell(k) == Place(Wrap(pos + 1), k)
             new     == Stored(pos, p) IN
         /\ new \in [0..Cap -> Words]
         /\ new[pos] = LengthWord(Len(p))
         /\ \A k \in 1..Len(p) : new[cell(k)] = p[k]
         /\ \A c \in 0..Cap : c # pos /\ (\A k \in 1..Len(p) : c # cell(k)) => new[c] = pBuffer[c]
  <1> DEFINE n == Len(p)
             cell(k) == Place(Wrap(pos + 1), k)
             new == Stored(pos, p)
  <1>1. n \in 1..(Cap - 1) /\ \A k \in 1..n : p[k] \in Words
    BY PacketWords
  <1> HIDE DEF n
  <1>h. n \in 0..(Cap - 1) /\ Class(pos) \in Circle
    BY <1>1, Positions
  <1>2. \A k \in 1..n : cell(k) \in Circle /\ cell(k) = Class(Class(pos) + k)
    BY <1>h, Positions
  <1>3. \A j, k \in 1..n : cell(j) = cell(k) => j = k
    <2>1. \A j, k \in 1..n : j < k => Class(Class(pos) + j) # Class(Class(pos) + k)
      BY <1>h, Distances
    <2> QED
      BY <1>1, <1>2, <2>1
  <1>4. \A k \in 1..n : cell(k) # pos
    <2>1. \A k \in 1..n : Class(Class(pos) + 0) # Class(Class(pos) + k)
      BY <1>h, Distances
    <2>2. pos \in Circle => Class(Class(pos) + 0) = pos
      BY DEF Class, Circle
    <2> QED
      BY <1>2, <2>1, <2>2
  <1>5. LengthWord(n) \in Words
    BY <1>1 DEF LengthWord, Words
  <1> HIDE DEF cell
  <1>6. new = [c \in 0..Cap |-> IF \E k \in 1..n : cell(k) = c
                                  THEN p[CHOOSE k \in 1..n : cell(k) = c]
                                  ELSE IF c = pos THEN LengthWord(n) ELSE pBuffer[c]]
    BY DEF Stored, n, cell
  <1>7. \A k \in 1..n : (CHOOSE j \in 1..n : cell(j) = cell(k)) = k
    BY <1>3
  <1>8. \A k \in 1..n : new[cell(k)] = p[k]
    <2> SUFFICES ASSUME NEW k \in 1..n
                 PROVE  new[cell(k)] = p[k]
      OBVIOUS
    <2>1. cell(k) \in 0..Cap
      BY <1>2 DEF Circle
    <2>2. new[cell(k)] = p[CHOOSE j \in 1..n : cell(j) = cell(k)]
      <3>1. \E j \in 1..n : cell(j) = cell(k)
        OBVIOUS
      <3> QED
        BY <1>6, <2>1, <3>1
    <2> QED
      BY <1>7, <2>2
  <1>9. new[pos] = LengthWord(n)
    BY <1>4, <1>6
  <1>10. \A c \in 0..Cap : c # pos /\ (\A k \in 1..n : c # cell(k)) => new[c] = pBuffer[c]
    BY <1>6
  <1>11. new \in [0..Cap -> Words]
    <2>1. \A c \in 0..Cap : new[c] \in Words
      BY <1>1, <1>5, <1>8, <1>9, <1>10 DEF TypeOK
    <2> QED
      BY <1>6, <2>1
  <1> QED
    BY <1>8, <1>9, <1>10, <1>11 DEF n, cell

\* A packet of n words, whose length is w words from the head, ends n + 1 words on.
LEMMA FarEnd ==
  ASSUME NEW h \in 0..(Cap - 1), NEW e \in 0..Cap, NEW w \in Nat, NEW n \in 0..(Cap - 1),
         w + n + 1 <= Cap, Class(e) = Class(h + w)
  PROVE  Class(After(e, n)) = Class(h + (w + n + 1))
  BY DEF Class, After, Wrap

-----------------------------------------------------------------------------
\* There is a route with one packet more, of n words, where w words were before.
Longer(L, len2, at, n, w) ==
  \E at2, words2 \in [1..(L + 2) -> 0..Cap] :
    /\ Route(L + 1, len2, at2, words2)
    /\ \A i \in 1..(L + 1) : at2[i] = at[i]
    /\ at2[L + 2] = After(at[L + 1], n)
    /\ words2[L + 2] = w + n + 1

\* A packet more makes a route longer.
LEMMA LongerRoute ==
  ASSUME NEW L \in Nat, NEW len, NEW len2, \A i \in 1..L : len2[i] = len[i],
         NEW at \in [1..(L + 1) -> 0..Cap], NEW words \in [1..(L + 1) -> 0..Cap],
         Route(L, len, at, words),
         NEW n \in 0..(Cap - 1), len2[L + 1] = n,
         NEW w \in Nat, w = words[L + 1], w + n + 1 <= Cap
  PROVE  Longer(L, len2, at, n, w)
  <1>3. PICK e \in 0..Cap : e = at[L + 1]
    OBVIOUS
  <1>4. PICK c \in 0..Cap : c = After(e, n)
    BY Positions
  <1>5. PICK h \in 0..(Cap - 1) : h = Class(at[1])
    <2>1. at[1] \in 0..Cap
      OBVIOUS
    <2> QED
      BY <2>1, OnCircle
  <1> DEFINE at2 == [i \in 1..(L + 2) |-> IF i = L + 2 THEN c ELSE at[i]]
             words2 == [i \in 1..(L + 2) |-> IF i = L + 2 THEN w + n + 1 ELSE words[i]]
  <1>6. /\ at2 \in [1..(L + 2) -> 0..Cap] /\ words2 \in [1..(L + 2) -> 0..Cap]
        /\ \A i \in 1..(L + 1) : at2[i] = at[i] /\ words2[i] = words[i]
        /\ at2[L + 2] = c /\ words2[L + 2] = w + n + 1
    OBVIOUS
  <1> HIDE DEF at2, words2
  <1>8. /\ words[1] = 0
        /\ \A i \in 1..L : at[i + 1] = After(at[i], len[i]) /\ words[i + 1] = words[i] + len[i] + 1
        /\ \A i \in 1..(L + 1) : Class(at[i]) = Class(h + words[i])
        /\ \A i, j \in 1..(L + 1) : i < j => words[i + 1] <= words[j]
    BY <1>5 DEF Route
  <1>9. ASSUME NEW i \in 1..(L + 1)
        PROVE  at2[i + 1] = After(at2[i], len2[i]) /\ words2[i + 1] = words2[i] + len2[i] + 1
    <2>1. CASE i = L + 1
      BY <1>3, <1>4, <1>6, <2>1
    <2>2. CASE i # L + 1
      <3>1. i \in 1..L /\ i + 1 \in 1..(L + 1)
        BY <2>2
      <3> QED
        BY <1>6, <1>8, <3>1
    <2> QED
      BY <2>1, <2>2
  <1>10. ASSUME NEW i \in 1..(L + 2) PROVE Class(at2[i]) = Class(h + words2[i])
    <2>1. CASE i = L + 2
      <3>1. Class(e) = Class(h + w)
        BY <1>3, <1>8
      <3>2. Class(After(e, n)) = Class(h + (w + n + 1))
        BY <3>1, FarEnd, Zenon
      <3> QED
        BY <1>4, <1>6, <2>1, <3>2
    <2>2. CASE i # L + 2
      <3>1. i \in 1..(L + 1)
        BY <2>2
      <3> QED
        BY <1>6, <1>8, <3>1
    <2> QED
      BY <2>1, <2>2
  <1>11. ASSUME NEW i \in 1..(L + 2), NEW j \in 1..(L + 2), i < j PROVE words2[i + 1] <= words2[j]
    <2>1. CASE i = L + 1
      <3>1. j = i + 1
        BY <1>11, <2>1
      <3>2. words2[i + 1] \in Nat
        BY <1>6, <2>1
      <3> QED
        BY <3>1, <3>2
    <2>2. CASE i # L + 1 /\ j = L + 2
      <3>1. i \in 1..L /\ i + 1 \in 1..(L + 1) /\ L + 1 \in 1..(L + 1) /\ i < L + 1
        BY <1>11, <2>2
      <3>2. words[i + 1] <= words[L + 1]
        <4>1. \A k, l \in 1..(L + 1) : k < l => words[k + 1] <= words[l]
          BY <1>8
        <4>2. i \in 1..(L + 1)
          BY <3>1
        <4> QED
          BY <3>1, <4>1, <4>2, Zenon
      <3>3. words[i + 1] \in Nat
        BY <3>1
      <3>4. words2[i + 1] = words[i + 1] /\ words2[j] = w + n + 1
        BY <1>6, <2>2, <3>1
      <3> QED
        BY <3>2, <3>3, <3>4
    <2>3. CASE i # L + 1 /\ j # L + 2
      <3>1. i \in 1..(L + 1) /\ i + 1 \in 1..(L + 1) /\ j \in 1..(L + 1)
        BY <1>11, <2>3
      <3> QED
        BY <1>6, <1>8, <1>11, <3>1
    <2> QED
      BY <2>1, <2>2, <2>3
  <1>12. at2[1] = at[1] /\ words2[1] = 0
    BY <1>6, <1>8
  <1>13. Route(L + 1, len2, at2, words2)
    <2>1. (L + 1) + 1 = L + 2
      OBVIOUS
    <2> QED
      BY <1>5, <1>6, <1>9, <1>10, <1>11, <1>12, <2>1 DEF Route
  <1> QED
    BY <1>3, <1>4, <1>6, <1>13 DEF Longer

\* What b words behind the a-th word is, is the (a + b)-th word.
LEMMA Further ==
  ASSUME NEW h \in 0..(Cap - 1), NEW a \in 0..Cap, NEW c \in 0..Cap, a <= c
  PROVE  Class(Class(h + a) + (c - a)) = Class(h + c)
  BY DEF Class

\* There is a route without the first packet, of n words.
Shorter(L, len2, at, words, n) ==
  \E at2, words2 \in [1..(L + 1) -> 0..Cap] :
    /\ Route(L, len2, at2, words2)
    /\ \A i \in 1..(L + 1) : at2[i] = at[i + 1]
    /\ at[2] = After(at[1], n)
    /\ words[L + 2] = words2[L + 1] + n + 1

\* What is left of y words of the ring once a packet of m words has gone.
LEMMA FewerWords ==
  ASSUME NEW y \in 0..Cap, NEW m \in Nat, m + 1 <= y
  PROVE  y - (m + 1) \in 0..Cap
  OBVIOUS

\* A packet less makes a route shorter.
LEMMA ShorterRoute ==
  ASSUME NEW L \in Nat, NEW len \in [1..(L + 1) -> Nat], NEW len2, \A i \in 1..L : len2[i] = len[i + 1],
         NEW at \in [1..(L + 2) -> 0..Cap], NEW words \in [1..(L + 2) -> 0..Cap],
         Route(L + 1, len, at, words), NEW n \in Nat, len[1] = n
  PROVE  Shorter(L, len2, at, words, n)
  <1>1. /\ words[1] = 0
        /\ \A i \in 1..(L + 1) : at[i + 1] = After(at[i], len[i]) /\ words[i + 1] = words[i] + len[i] + 1
        /\ \A i \in 1..(L + 2) : Class(at[i]) = Class(Class(at[1]) + words[i])
        /\ \A i, j \in 1..(L + 2) : i < j => words[i + 1] <= words[j]
    <2>1. (L + 1) + 1 = L + 2
      OBVIOUS
    <2> QED
      BY <2>1 DEF Route
  <1>2. PICK h \in 0..(Cap - 1) : h = Class(at[1])
    <2>1. at[1] \in 0..Cap
      OBVIOUS
    <2> QED
      BY <2>1, OnCircle
  <1>3. 1 \in 1..(L + 1) /\ 1 + 1 = 2 /\ at[2] = After(at[1], n) /\ words[2] = n + 1
    BY <1>1
  <1> DEFINE at2 == [i \in 1..(L + 1) |-> at[i + 1]]
             words2 == [i \in 1..(L + 1) |-> words[i + 1] - (n + 1)]
  <1>4. \A i \in 1..(L + 1) : i + 1 \in 1..(L + 2) /\ words[i + 1] \in 0..Cap /\ n + 1 <= words[i + 1]
    <2> SUFFICES ASSUME NEW i \in 1..(L + 1)
                 PROVE  i + 1 \in 1..(L + 2) /\ words[i + 1] \in 0..Cap /\ n + 1 <= words[i + 1]
      OBVIOUS
    <2>1. PICK j \in 1..(L + 2) : j = i + 1 /\ 1 < j
      OBVIOUS
    <2>2. 1 \in 1..(L + 2)
      OBVIOUS
    <2>3. words[1 + 1] <= words[j]
      BY <1>1, <2>1, <2>2, Zenon
    <2> QED
      BY <1>3, <2>1, <2>3
  <1>5. /\ at2 \in [1..(L + 1) -> 0..Cap] /\ words2 \in [1..(L + 1) -> 0..Cap]
        /\ \A i \in 1..(L + 1) : at2[i] = at[i + 1] /\ words2[i] = words[i + 1] - (n + 1)
    <2>1. ASSUME NEW i \in 1..(L + 1)
          PROVE  at[i + 1] \in 0..Cap /\ words[i + 1] - (n + 1) \in 0..Cap
      <3>1. PICK j \in 1..(L + 2) : j = i + 1
        BY <1>4
      <3>2. at[j] \in 0..Cap
        OBVIOUS
      <3>3. PICK x \in 0..Cap : x = words[i + 1] /\ n + 1 <= x
        BY <1>4
      <3>4. x - (n + 1) \in 0..Cap
        BY <3>3, FewerWords, Zenon
      <3> QED
        BY <3>1, <3>2, <3>3, <3>4
    <2> QED
      BY <2>1
  <1> HIDE DEF at2, words2
  <1>6. words2[1] = 0
    BY <1>3, <1>5
  <1>7. ASSUME NEW i \in 1..L
        PROVE  at2[i + 1] = After(at2[i], len2[i]) /\ words2[i + 1] = words2[i] + len2[i] + 1
    <2>1. PICK j \in 1..(L + 1) : j = i + 1
      OBVIOUS
    <2>2. at[j + 1] = After(at[j], len[j]) /\ words[j + 1] = words[j] + len[j] + 1
      BY <1>1
    <2>3. i \in 1..(L + 1) /\ len2[i] = len[j]
      BY <2>1
    <2>4. at2[i + 1] = at[j + 1] /\ words2[i + 1] = words[j + 1] - (n + 1)
          /\ at2[i] = at[j] /\ words2[i] = words[j] - (n + 1)
      BY <1>5, <2>1, <2>3
    <2>5. words[j] \in Int /\ words[j + 1] \in Int /\ len[j] \in Nat
      BY <2>1, <2>3
    <2>6. words[j + 1] - (n + 1) = (words[j] - (n + 1)) + len[j] + 1
      <3>1. \A x, y, z \in Int : x = y + z + 1 => x - (n + 1) = (y - (n + 1)) + z + 1
        OBVIOUS
      <3>2. words[j + 1] = words[j] + len[j] + 1 /\ len[j] \in Int
        BY <2>2, <2>5
      <3> QED
        BY <2>5, <3>1, <3>2, Zenon
    <2> QED
      BY <2>2, <2>3, <2>4, <2>6
  <1>8. ASSUME NEW i \in 1..(L + 1) PROVE Class(at2[i]) = Class(Class(at2[1]) + words2[i])
    <2>1. PICK c \in 0..Cap : c = words[i + 1] /\ n + 1 <= c
      BY <1>4
    <2>2. Class(at2[i]) = Class(h + c)
      BY <1>1, <1>2, <1>4, <1>5, <2>1
    <2>3. n + 1 \in 0..Cap /\ Class(at2[1]) = Class(h + (n + 1))
      BY <1>1, <1>2, <1>3, <1>5, <2>1
    <2>4. Class(Class(h + (n + 1)) + (c - (n + 1))) = Class(h + c)
      BY <2>1, <2>3, Further
    <2> QED
      BY <1>5, <2>1, <2>2, <2>3, <2>4
  <1>9. ASSUME NEW i \in 1..(L + 1), NEW j \in 1..(L + 1), i < j PROVE words2[i + 1] <= words2[j]
    <2>1. PICK k \in 1..(L + 2), l \in 1..(L + 2) : k = i + 1 /\ l = j + 1 /\ k < l
      BY <1>9
    <2>2. words[k + 1] <= words[l]
      BY <1>1, <2>1, Zenon
    <2>3. k \in 1..(L + 1) /\ words2[k] = words[k + 1] - (n + 1) /\ words2[j] = words[l] - (n + 1)
      <3>1. i + 1 \in 1..(L + 1)
        BY <1>9
      <3>2. words2[i + 1] = words[(i + 1) + 1] - (n + 1) /\ words2[j] = words[j + 1] - (n + 1)
        BY <1>5, <3>1
      <3> QED
        BY <2>1, <3>1, <3>2
    <2>4. words[k + 1] \in Int /\ words[l] \in Int
      BY <1>4, <2>3
    <2>5. words[k + 1] - (n + 1) <= words[l] - (n + 1)
      <3>1. \A x, y \in Int : x <= y => x - (n + 1) <= y - (n + 1)
        OBVIOUS
      <3> QED
        BY <2>2, <2>4, <3>1, Zenon
    <2> QED
      BY <2>1, <2>3, <2>5
  <1>10. Route(L, len2, at2, words2)
    BY <1>5, <1>6, <1>7, <1>8, <1>9 DEF Route
  <1>11. words[L + 2] = words2[L + 1] + n + 1
    <2>1. L + 1 \in 1..(L + 1) /\ (L + 1) + 1 = L + 2
      OBVIOUS
    <2>2. words2[L + 1] = words[L + 2] - (n + 1) /\ words[L + 2] \in Int
      BY <1>5, <2>1
    <2> QED
      <3>1. \A y \in Int : y = (y - (n + 1)) + n + 1
        OBVIOUS
      <3>2. words[L + 2] = (words[L + 2] - (n + 1)) + n + 1
        BY <2>2, <3>1, Zenon
      <3> QED
        BY <2>2, <3>2, Zenon
  <1> QED
    BY <1>3, <1>5, <1>10, <1>11 DEF Shorter

\* Two packets that are apart on the circle share no cell.
LEMMA Apart ==
  ASSUME NEW h \in 0..(Cap - 1), NEW p \in 0..Cap, NEW q \in 0..Cap,
         NEW v \in Nat, NEW m \in Nat, NEW w \in Nat, NEW n \in Nat,
         v + m + 1 <= w, w + n + 1 <= Cap, Class(p) = Class(h + v), Class(q) = Class(h + w)
  PROVE  LET mine(k) == Place(Wrap(p + 1), k)
             its(j)  == Place(Wrap(q + 1), j) IN
         /\ p # q
         /\ \A j \in 1..n : p # its(j)
         /\ \A k \in 1..m : mine(k) \in 0..Cap /\ mine(k) # q
         /\ \A k \in 1..m, j \in 1..n : mine(k) # its(j)
  <1> DEFINE mine(k) == Place(Wrap(p + 1), k)
             its(j)  == Place(Wrap(q + 1), j)
  <1>1. ASSUME NEW a \in Nat, NEW b \in Nat, a < b, b < Cap PROVE Class(h + a) # Class(h + b)
    BY <1>1 DEF Class
  <1>2. p # q
    <2>1. v < w /\ w < Cap
      OBVIOUS
    <2> QED
      BY <1>1, <2>1
  <1>3. ASSUME NEW j \in 1..n PROVE p # its(j)
    <2>1. v \in Nat /\ w + j \in Nat /\ v < w + j /\ w + j < Cap /\ w \in Nat /\ j \in Nat \ {0}
      OBVIOUS
    <2>2. Class(its(j)) = Class(h + (w + j))
      BY <2>1 DEF Place, Wrap, Class
    <2>3. Class(h + v) # Class(h + (w + j))
      BY <1>1, <2>1
    <2> QED
      BY <2>2, <2>3
  <1>4. ASSUME NEW k \in 1..m PROVE mine(k) \in 0..Cap /\ mine(k) # q
    <2>1. v + k \in Nat /\ w \in Nat /\ v + k < w /\ w < Cap /\ v + k < Cap /\ k \in Nat \ {0}
      OBVIOUS
    <2>2. mine(k) \in 0..Cap /\ Class(mine(k)) = Class(h + (v + k))
      BY <2>1 DEF Place, Wrap, Class
    <2>3. Class(h + (v + k)) # Class(h + w)
      BY <1>1, <2>1
    <2> QED
      BY <2>2, <2>3
  <1>5. ASSUME NEW k \in 1..m, NEW j \in 1..n PROVE mine(k) # its(j)
    <2>1. /\ v + k \in Nat /\ w + j \in Nat /\ v + k < w + j /\ w + j < Cap /\ v + k < Cap
          /\ k \in Nat \ {0} /\ j \in Nat \ {0}
      OBVIOUS
    <2>2. Class(mine(k)) = Class(h + (v + k))
      BY <2>1 DEF Place, Wrap, Class
    <2>3. Class(its(j)) = Class(h + (w + j))
      BY <2>1 DEF Place, Wrap, Class
    <2>4. Class(h + (v + k)) # Class(h + (w + j))
      BY <1>1, <2>1
    <2> QED
      BY <2>2, <2>3, <2>4
  <1> QED
    BY <1>2, <1>3, <1>4, <1>5

\* Where there is room for n words and their length behind a route, no packet on

\* it has a cell.
LEMMA FreeSpace ==
  ASSUME NEW L \in Nat, NEW len \in [1..L -> Nat],
         NEW at \in [1..(L + 1) -> 0..Cap], NEW words \in [1..(L + 1) -> 0..Cap],
         Route(L, len, at, words), NEW i \in 1..L,
         NEW n \in Nat, words[L + 1] + n + 1 <= Cap
  PROVE  LET mine(k) == Place(Wrap(at[i] + 1), k)
             its(j)  == Place(Wrap(at[L + 1] + 1), j) IN
         /\ at[i] # at[L + 1]
         /\ \A j \in 1..n : at[i] # its(j)
         /\ \A k \in 1..len[i] : mine(k) \in 0..Cap /\ mine(k) # at[L + 1]
         /\ \A k \in 1..len[i], j \in 1..n : mine(k) # its(j)
  <1>1. Class(at[1]) \in 0..(Cap - 1)
    <2>1. at[1] \in 0..Cap
      OBVIOUS
    <2> QED
      BY <2>1, OnCircle
  <1>2. /\ len[i] \in Nat /\ words[i] \in Nat /\ words[L + 1] \in Nat
        /\ at[i] \in 0..Cap /\ at[L + 1] \in 0..Cap
    OBVIOUS
  <1>3. words[i] + len[i] + 1 <= words[L + 1]
    <2>1. i \in 1..(L + 1) /\ L + 1 \in 1..(L + 1) /\ i < L + 1
      OBVIOUS
    <2>2. \A k, l \in 1..(L + 1) : k < l => words[k + 1] <= words[l]
      BY DEF Route
    <2>3. words[i + 1] <= words[L + 1]
      BY <2>1, <2>2, Zenon
    <2>4. words[i + 1] = words[i] + len[i] + 1
      BY DEF Route
    <2> QED
      BY <2>3, <2>4
  <1>4. /\ Class(at[i]) = Class(Class(at[1]) + words[i])
        /\ Class(at[L + 1]) = Class(Class(at[1]) + words[L + 1])
    BY DEF Route
  <1> QED
    BY <1>1, <1>2, <1>3, <1>4, Apart
-----------------------------------------------------------------------------
\* What is held is a sequence of packets, and of lengths.
LEMMA HeldPackets ==
  ASSUME TypeOK, WriterKnown
  PROVE  /\ Held \in Seq(Packets) /\ Len(Held) \in Nat
         /\ \A i \in 1..Len(Held) : Held[i] \in Packets /\ Len(Held[i]) \in 1..Cap
         /\ LengthsOf(Held) \in [1..Len(Held) -> Nat]
         /\ \A i \in 1..Len(Held) : LengthsOf(Held)[i] = Len(Held[i])
  <1>1. Held \in Seq(Packets)
    BY DEF TypeOK, WriterKnown, Held
  <1> HIDE DEF Held
  <1>2. Len(Held) \in Nat /\ \A i \in 1..Len(Held) : Held[i] \in Packets
    BY <1>1
  <1>3. \A i \in 1..Len(Held) : Len(Held[i]) \in 1..Cap
    BY <1>2, PacketWords
  <1> QED
    BY <1>1, <1>2, <1>3 DEF LengthsOf

\* The frames stay what they are when cells, positions and packets do, and what one

\* end has not counted yet makes up for a change of the size.
LEMMA FramesStay ==
  ASSUME TypeOK, WriterKnown, Framing, UNCHANGED <<nHead, nTail, pBuffer, Held>>,
         \A w \in 0..Cap : nSize + Unpublished = w + Unreleased => nSize' + Unpublished' = w + Unreleased'
  PROVE  Framing'
  <1>1. PICK at, words \in [1..(Len(Held) + 1) -> 0..Cap] : Framed(at, words)
    BY DEF Framing
  <1>2. \A i \in 1..Len(Held) : SpelledAt(at[i], Held[i])'
    <2>1. \A i \in 1..Len(Held) : SpelledAt(at[i], Held[i])
      BY <1>1 DEF Framed
    <2> QED
      BY <2>1 DEF SpelledAt, Loaded
  <1>3. nSize' + Unpublished' = words[Len(Held) + 1] + Unreleased'
    <2>1. words[Len(Held) + 1] \in 0..Cap
      BY HeldPackets
    <2> QED
      BY <1>1, <2>1 DEF Framed
  <1>4. Framed(at, words)'
    BY <1>1, <1>2, <1>3 DEF Framed, LengthsOf
  <1> QED
    BY <1>4 DEF Framing

\* The packet of submit() joins those that are spelled, and they stay as they are.
LEMMA FramesStored ==
  ASSUME TypeOK, WriterKnown, Framing, SubmitStore
  PROVE  Framing'
  <1>1. PICK L \in Nat : L = Len(Held)
    BY HeldPackets
  <1>2. PICK at, words \in [1..(L + 1) -> 0..Cap] : Framed(at, words)
    BY <1>1 DEF Framing
  <1>3. PICK n \in 1..(Cap - 1) : n = Len(wpacket) /\ wpacket \in Packets /\ nSize + n + 1 <= Cap
    <2>1. wpacket \in Packets /\ nSize + Len(wpacket) + 1 <= Cap /\ nSize \in 0..Cap
      BY DEF SubmitStore, WriterKnown, TypeOK
    <2>2. Len(wpacket) \in 1..Cap
      BY <2>1, PacketWords
    <2> QED
      BY <2>1, <2>2
  <1>4. /\ Held \in Seq(Packets) /\ Held' = Append(Held, wpacket) /\ Len(Held') = L + 1
        /\ \A i \in 1..L : Held'[i] = Held[i]
        /\ Held'[L + 1] = wpacket
    <2>1. Held \in Seq(Packets)
      BY HeldPackets
    <2>2. Held' = Append(Held, wpacket)
      BY DEF SubmitStore, Held, writer, reader
    <2> QED
      BY <1>1, <1>3, <2>1, <2>2
  <1>5. /\ nHead' = nHead /\ nTail' = After(nTail, n) /\ pBuffer' = Stored(nTail, wpacket)
        /\ nSize' = nSize /\ Unpublished = 0 /\ Unpublished' = n + 1 /\ Unreleased' = Unreleased
    BY <1>3 DEF SubmitStore, Unpublished, Unreleased, reader
  <1>6. PICK w \in Nat : w = words[L + 1] /\ nSize = w + Unreleased /\ w + n + 1 <= Cap
    <2>1. words[L + 1] \in Nat
      OBVIOUS
    <2>2. nSize + 0 = words[L + 1] + Unreleased
      BY <1>1, <1>2, <1>5 DEF Framed
    <2>3. Unreleased \in Nat /\ nSize \in Nat
      BY DEF Unreleased, TypeOK
    <2>4. PICK w \in Nat : w = words[L + 1]
      BY <2>1
    <2>5. nSize = w + Unreleased /\ w + n + 1 <= Cap
      <3>1. nSize = w + Unreleased
        BY <2>2, <2>3, <2>4
      <3>2. \A x, y, z \in Nat : x = y + z /\ x + n + 1 <= Cap => y + n + 1 <= Cap
        OBVIOUS
      <3> QED
        BY <1>3, <2>3, <3>1, <3>2, Zenon
    <2> QED
      BY <2>4, <2>5
  <1>7. at[1] = nHead /\ at[L + 1] = nTail /\ \A i \in 1..L : SpelledAt(at[i], Held[i])
    BY <1>1, <1>2 DEF Framed
  <1>8. PICK len \in [1..L -> Nat] : len = LengthsOf(Held) /\ \A i \in 1..L : len[i] = Len(Held[i])
    BY <1>1, HeldPackets
  <1>r. Route(L, len, at, words)
    BY <1>1, <1>2, <1>8 DEF Framed
  <1>9. /\ pBuffer'[nTail] = LengthWord(n)
        /\ \A k \in 1..n : pBuffer'[Place(Wrap(nTail + 1), k)] = wpacket[k]
        /\ \A c \in 0..Cap : c # nTail /\ (\A k \in 1..n : c # Place(Wrap(nTail + 1), k))
                                => pBuffer'[c] = pBuffer[c]
    <2>1. Len(wpacket) + 1 <= Cap /\ nTail \in 0..Cap
      BY <1>3 DEF TypeOK
    <2>2. LET new == Stored(nTail, wpacket) IN
          /\ new[nTail] = LengthWord(Len(wpacket))
          /\ \A k \in 1..Len(wpacket) : new[Place(Wrap(nTail + 1), k)] = wpacket[k]
          /\ \A c \in 0..Cap : c # nTail /\ (\A k \in 1..Len(wpacket) : c # Place(Wrap(nTail + 1), k))
                                  => new[c] = pBuffer[c]
      BY <1>3, <2>1, StoredCells
    <2> QED
      BY <1>3, <1>5, <2>2
  <1>10. ASSUME NEW i \in 1..L PROVE SpelledAt(at[i], Held[i])'
    <2>1. SpelledAt(at[i], Held[i])
      BY <1>7
    <2> DEFINE mine(k) == Place(Wrap(at[i] + 1), k)
               its(j)  == Place(Wrap(nTail + 1), j)
    <2>2. /\ at[i] # nTail
          /\ \A j \in 1..n : at[i] # its(j)
          /\ \A k \in 1..Len(Held[i]) : mine(k) \in 0..Cap /\ mine(k) # nTail
          /\ \A k \in 1..Len(Held[i]), j \in 1..n : mine(k) # its(j)
      <3>1. n \in Nat /\ words[L + 1] + n + 1 <= Cap
        BY <1>6
      <3>2. LET my(k) == Place(Wrap(at[i] + 1), k)
                new(j) == Place(Wrap(at[L + 1] + 1), j) IN
            /\ at[i] # at[L + 1]
            /\ \A j \in 1..n : at[i] # new(j)
            /\ \A k \in 1..len[i] : my(k) \in 0..Cap /\ my(k) # at[L + 1]
            /\ \A k \in 1..len[i], j \in 1..n : my(k) # new(j)
        BY <1>r, <3>1, FreeSpace
      <3> QED
        BY <1>7, <1>8, <3>2
    <2>3. at[i] \in 0..Cap
      OBVIOUS
    <2>4. pBuffer'[at[i]] = pBuffer[at[i]]
      BY <1>9, <2>2, <2>3
    <2>5. \A k \in 1..Len(Held[i]) : pBuffer'[mine(k)] = pBuffer[mine(k)]
      BY <1>9, <2>2
    <2> QED
      BY <1>4, <2>1, <2>4, <2>5 DEF SpelledAt, Loaded
  <1>11. SpelledAt(at[L + 1], Held[L + 1])'
    <2>1. wpacket = [k \in 1..n |-> wpacket[k]]
      BY <1>3, PacketWords
    <2>2. pBuffer'[at[L + 1]] = LengthWord(n)
      BY <1>7, <1>9
    <2>3. [k \in 1..n |-> pBuffer'[Place(Wrap(at[L + 1] + 1), k)]] = wpacket
      BY <1>7, <1>9, <2>1
    <2> QED
      BY <1>3, <1>4, <2>2, <2>3 DEF SpelledAt, Loaded
  <1>12. PICK at2, words2 \in [1..(L + 2) -> 0..Cap] :
            /\ Route(L + 1, LengthsOf(Held)', at2, words2)
            /\ \A i \in 1..(L + 1) : at2[i] = at[i]
            /\ at2[L + 2] = After(at[L + 1], n)
            /\ words2[L + 2] = w + n + 1
    <2>1. PICK len2 : len2 = LengthsOf(Held)'
      OBVIOUS
    <2>2. (\A i \in 1..L : len2[i] = len[i]) /\ len2[L + 1] = n
      <3>1. len2 = [i \in 1..(L + 1) |-> Len(Held'[i])]
        BY <1>4, <2>1 DEF LengthsOf
      <3> QED
        BY <1>3, <1>4, <1>8, <3>1
    <2>3. n \in 0..(Cap - 1)
      OBVIOUS
    <2>4. Longer(L, len2, at, n, w)
      <3>1. w = words[L + 1] /\ w + n + 1 <= Cap
        BY <1>6
      <3> QED
        BY <1>r, <2>2, <2>3, <3>1, LongerRoute
    <2> QED
      BY <2>1, <2>4 DEF Longer
  <1>13. Framed(at2, words2)'
    <2>1. Route(Len(Held'), LengthsOf(Held)', at2, words2)
      BY <1>4, <1>12
    <2>2. at2[1] = nHead' /\ at2[Len(Held') + 1] = nTail'
      BY <1>4, <1>5, <1>7, <1>12
    <2>3. nSize' + Unpublished' = words2[Len(Held') + 1] + Unreleased'
      <3>1. Unreleased \in Nat
        BY DEF Unreleased, TypeOK
      <3>2. (L + 1) + 1 = L + 2 /\ w + Unreleased + (n + 1) = w + n + 1 + Unreleased
        BY <3>1
      <3> QED
        BY <1>4, <1>5, <1>6, <1>12, <3>2
    <2>4. \A i \in 1..Len(Held') : SpelledAt(at2[i], Held[i])'
      <3>1. \A i \in 1..(L + 1) : i \in 1..L \/ i = L + 1
        OBVIOUS
      <3>2. \A i \in 1..(L + 1) : SpelledAt(at[i], Held[i])'
        BY <1>10, <1>11, <3>1
      <3> QED
        BY <1>4, <1>12, <3>2
    <2> QED
      BY <2>1, <2>2, <2>3, <2>4 DEF Framed
  <1>14. at2 \in [1..(Len(Held') + 1) -> 0..Cap] /\ words2 \in [1..(Len(Held') + 1) -> 0..Cap]
    BY <1>4
  <1> QED
    BY <1>13, <1>14 DEF Framing

\* The oldest packet is the one that fetch() and skip() find at the head, and the

\* size counts it.
LEMMA Oldest ==
  ASSUME TypeOK, WriterKnown, Framing, rpc # "release", nSize >= 1
  PROVE  /\ unread # <<>> /\ Head(unread) \in Packets
         /\ SpelledAt(nHead, Head(unread))
         /\ Len(Head(unread)) \in 1..(Cap - 1) /\ Len(Head(unread)) + 1 <= nSize
  <1>1. PICK L \in Nat : L = Len(Held)
    BY HeldPackets
  <1>2. PICK at, words \in [1..(L + 1) -> 0..Cap] : Framed(at, words)
    BY <1>1 DEF Framing
  <1>3. PICK len \in [1..L -> Nat] : len = LengthsOf(Held) /\ \A i \in 1..L : len[i] = Len(Held[i])
    BY <1>1, HeldPackets
  <1>4. /\ Route(L, len, at, words) /\ at[1] = nHead
        /\ nSize + Unpublished = words[L + 1]
        /\ \A i \in 1..L : SpelledAt(at[i], Held[i])
    <2>1. Unreleased = 0 /\ words[L + 1] \in Nat
      BY DEF Unreleased
    <2>2. nSize + Unpublished = words[L + 1] + Unreleased
      BY <1>1, <1>2 DEF Framed
    <2> QED
      BY <1>1, <1>2, <1>3, <2>1, <2>2 DEF Framed
  <1>5. words[1] = 0 /\ (L >= 1 => words[2] = Len(Held[1]) + 1)
    <2>1. words[1] = 0 /\ \A i \in 1..L : words[i + 1] = words[i] + len[i] + 1
      BY <1>4 DEF Route
    <2>2. ASSUME L >= 1 PROVE words[2] = Len(Held[1]) + 1
      <3>1. 1 \in 1..L /\ 1 + 1 = 2
        BY <2>2
      <3>2. words[1 + 1] = words[1] + len[1] + 1 /\ len[1] = Len(Held[1]) /\ len[1] \in Nat
        BY <1>3, <2>1, <3>1
      <3> QED
        BY <2>1, <3>1, <3>2
    <2> QED
      BY <2>1, <2>2
  <1>6. unread \in Seq(Packets) /\ nSize \in Nat
    BY DEF TypeOK
  <1>7. unread # <<>>
    <2> SUFFICES ASSUME unread = <<>> PROVE FALSE
      OBVIOUS
    <2>1. CASE wpc = "publish"
      <3>1. Held = <<wpacket>> /\ Unpublished = Len(wpacket) + 1 /\ wpacket \in Packets
        BY <2>1 DEF Held, Unpublished, WriterKnown
      <3>2. L = 1 /\ Held[1] = wpacket
        BY <1>1, <3>1
      <3>3. Len(wpacket) \in Nat
        BY <3>1, PacketWords
      <3> QED
        BY <1>4, <1>5, <1>6, <3>1, <3>2, <3>3
    <2>2. CASE wpc # "publish"
      <3>1. L = 0 /\ Unpublished = 0
        BY <1>1, <2>2 DEF Held, Unpublished
      <3> QED
        BY <1>4, <1>5, <1>6, <3>1
    <2> QED
      BY <2>1, <2>2
  <1>8. L >= 1 /\ Held[1] = Head(unread) /\ Head(unread) \in Packets
    BY <1>1, <1>6, <1>7 DEF Held
  <1>9. SpelledAt(nHead, Head(unread))
    BY <1>4, <1>8
  <1>10. PICK n \in 1..Cap : n = Len(Head(unread))
    BY <1>8, PacketWords
  <1>11. n + 1 <= nSize
    <2>1. words[2] = n + 1
      BY <1>5, <1>8, <1>10
    <2>2. CASE wpc = "publish"
      <3>1. PICK m \in Nat : m = Len(wpacket) /\ Unpublished = m + 1
        <4>1. wpacket \in Packets /\ Unpublished = Len(wpacket) + 1
          BY <2>2 DEF Unpublished, WriterKnown
        <4>2. Len(wpacket) \in Nat
          BY <4>1, PacketWords
        <4> QED
          BY <4>1, <4>2
      <3>2. Held = Append(unread, wpacket) /\ wpacket \in Packets
        BY <2>2 DEF Held, WriterKnown
      <3>3. L = Len(unread) + 1 /\ Len(unread) >= 1 /\ Held[L] = wpacket
        BY <1>1, <1>6, <1>7, <3>2
      <3>4. L \in 1..L /\ 2 \in 1..(L + 1) /\ L >= 2
        BY <1>6, <3>3
      <3>5. words[L + 1] = words[L] + m + 1
        BY <1>3, <1>4, <3>1, <3>3, <3>4 DEF Route
      <3>6. words[2] <= words[L]
        <4>1. \A i, j \in 1..(L + 1) : i < j => words[i + 1] <= words[j]
          BY <1>4 DEF Route
        <4>2. 1 \in 1..(L + 1) /\ L \in 1..(L + 1) /\ 1 < L /\ 1 + 1 = 2
          BY <3>4
        <4> QED
          BY <4>1, <4>2
      <3>7. words[L] \in Nat /\ nSize + (m + 1) = words[L] + m + 1
        BY <1>4, <3>1, <3>4, <3>5
      <3> QED
        <4>1. \A x, y \in Nat : x + (m + 1) = y + m + 1 => x = y
          OBVIOUS
        <4>2. nSize = words[L]
          BY <1>6, <3>7, <4>1, Zenon
        <4> QED
          BY <2>1, <3>6, <4>2
    <2>3. CASE wpc # "publish"
      <3>1. nSize = words[L + 1]
        BY <1>4, <1>6, <2>3 DEF Unpublished
      <3>2. \A i, j \in 1..(L + 1) : i < j => words[i + 1] <= words[j]
        BY <1>4 DEF Route
      <3>3. 1 \in 1..(L + 1) /\ L + 1 \in 1..(L + 1) /\ 1 < L + 1 /\ 1 + 1 = 2
        BY <1>8
      <3>4. words[2] <= words[L + 1]
        BY <3>2, <3>3
      <3> QED
        BY <2>1, <3>1, <3>4
    <2> QED
      BY <2>2, <2>3
  <1>12. n + 1 <= Cap
    <2>1. nSize <= Cap
      BY DEF TypeOK
    <2> QED
      BY <1>6, <1>11, <2>1
  <1> QED
    BY <1>7, <1>8, <1>9, <1>10, <1>11, <1>12

\* When the oldest packet is taken out, the others are spelled from the new head on.
LEMMA FramesTaken ==
  ASSUME TypeOK, WriterKnown, Framing, unread # <<>>, rpc # "release", rpc' = "release",
         rlen' = Len(Head(unread)), nHead' = After(nHead, rlen'), unread' = Tail(unread),
         UNCHANGED <<nSize, nTail, pBuffer, writer>>
  PROVE  Framing'
  <1>1. PICK L \in Nat : L + 1 = Len(Held) /\ Len(Held') = L
                         /\ Held[1] = Head(unread) /\ \A i \in 1..L : Held'[i] = Held[i + 1]
    <2>1. unread \in Seq(Packets) /\ Held \in Seq(Packets) /\ (wpc = "publish" => wpacket \in Packets)
      BY HeldPackets DEF TypeOK, WriterKnown
    <2>2. PICK m \in Nat : Len(unread) = m + 1
      BY <2>1
    <2>3. /\ Len(Tail(unread)) = m /\ Tail(unread) \in Seq(Packets) /\ Head(unread) = unread[1]
          /\ \A i \in 1..m : Tail(unread)[i] = unread[i + 1]
      BY <2>1, <2>2
    <2>4. CASE wpc = "publish"
      <3>1. wpacket \in Packets /\ Held = Append(unread, wpacket) /\ Held' = Append(Tail(unread), wpacket)
        BY <2>1, <2>4 DEF Held, writer
      <3>2. Len(Held) = m + 2 /\ (\A i \in 1..(m + 1) : Held[i] = unread[i]) /\ Held[m + 2] = wpacket
        BY <2>1, <2>2, <3>1
      <3>3. Len(Held') = m + 1 /\ (\A i \in 1..m : Held'[i] = Tail(unread)[i]) /\ Held'[m + 1] = wpacket
        BY <2>3, <3>1
      <3>4. Held[1] = Head(unread)
        BY <2>3, <3>2
      <3>5. ASSUME NEW i \in 1..(m + 1) PROVE Held'[i] = Held[i + 1]
        <4>1. CASE i = m + 1
          BY <3>2, <3>3, <4>1
        <4>2. CASE i # m + 1
          <5>1. i \in 1..m /\ i + 1 \in 1..(m + 1)
            BY <4>2
          <5> QED
            BY <2>3, <3>2, <3>3, <5>1
        <4> QED
          BY <4>1, <4>2
      <3> QED
        BY <3>2, <3>3, <3>4, <3>5
    <2>5. CASE wpc # "publish"
      <3>1. Held = unread /\ Held' = Tail(unread)
        BY <2>5 DEF Held, writer
      <3> QED
        BY <2>2, <2>3, <3>1
    <2> QED
      BY <2>4, <2>5
  <1>2. PICK at, words \in [1..(L + 2) -> 0..Cap] : Framed(at, words)
    <2>1. Len(Held) + 1 = L + 2
      BY <1>1
    <2> QED
      BY <2>1 DEF Framing
  <1>3. PICK len \in [1..(L + 1) -> Nat] : len = LengthsOf(Held) /\ \A i \in 1..(L + 1) : len[i] = Len(Held[i])
    BY <1>1, HeldPackets
  <1>4. PICK n \in Nat : n = Len(Head(unread)) /\ n = len[1] /\ rlen' = n
    <2>1. 1 \in 1..(L + 1)
      OBVIOUS
    <2> QED
      BY <1>1, <1>3, <2>1
  <1>5. /\ Route(L + 1, len, at, words) /\ at[1] = nHead /\ at[L + 2] = nTail
        /\ nSize + Unpublished = words[L + 2] + Unreleased
        /\ \A i \in 1..(L + 1) : SpelledAt(at[i], Held[i])
    <2>1. Len(Held) + 1 = L + 2
      BY <1>1
    <2> QED
      BY <1>1, <1>2, <1>3, <2>1 DEF Framed
  <1>6. PICK len2 : len2 = LengthsOf(Held)'
    OBVIOUS
  <1>7. Shorter(L, len2, at, words, n)
    <2>1. \A i \in 1..L : len2[i] = len[i + 1]
      <3>1. len2 = [i \in 1..L |-> Len(Held'[i])]
        BY <1>1, <1>6 DEF LengthsOf
      <3>2. \A i \in 1..L : i + 1 \in 1..(L + 1)
        OBVIOUS
      <3> QED
        BY <1>1, <1>3, <3>1, <3>2
    <2> QED
      BY <1>4, <1>5, <2>1, ShorterRoute
  <1>8. PICK at2, words2 \in [1..(L + 1) -> 0..Cap] :
           /\ Route(L, len2, at2, words2)
           /\ \A i \in 1..(L + 1) : at2[i] = at[i + 1]
           /\ at[2] = After(at[1], n)
           /\ words[L + 2] = words2[L + 1] + n + 1
    BY <1>7 DEF Shorter
  <1>9. Framed(at2, words2)'
    <2>1. Route(Len(Held'), LengthsOf(Held)', at2, words2)
      BY <1>1, <1>6, <1>8
    <2>2. at2[1] = nHead' /\ at2[Len(Held') + 1] = nTail'
      <3>1. 1 \in 1..(L + 1) /\ L + 1 \in 1..(L + 1) /\ 1 + 1 = 2 /\ (L + 1) + 1 = L + 2
        OBVIOUS
      <3>2. at2[1] = at[2] /\ at2[L + 1] = at[L + 2]
        BY <1>8, <3>1
      <3> QED
        BY <1>1, <1>4, <1>5, <1>8, <3>2
    <2>3. nSize' + Unpublished' = words2[Len(Held') + 1] + Unreleased'
      <3>1. Unreleased = 0 /\ Unreleased' = n + 1
        BY <1>4 DEF Unreleased
      <3>2. Unpublished' = Unpublished
        BY DEF Unpublished, writer
      <3>3. words[L + 2] \in Nat /\ words2[L + 1] \in Nat
        OBVIOUS
      <3>4. nSize + Unpublished = words2[L + 1] + (n + 1)
        BY <1>5, <1>8, <3>1, <3>3
      <3> QED
        BY <1>1, <3>1, <3>2, <3>4
    <2>4. \A i \in 1..Len(Held') : SpelledAt(at2[i], Held[i])'
      <3> SUFFICES ASSUME NEW i \in 1..L PROVE SpelledAt(at2[i], Held[i])'
        BY <1>1
      <3>1. i + 1 \in 1..(L + 1) /\ i \in 1..(L + 1)
        OBVIOUS
      <3>2. SpelledAt(at[i + 1], Held[i + 1])
        BY <1>5, <3>1
      <3>3. at2[i] = at[i + 1] /\ Held'[i] = Held[i + 1]
        BY <1>1, <1>8, <3>1
      <3> QED
        BY <3>2, <3>3 DEF SpelledAt, Loaded
    <2> QED
      BY <2>1, <2>2, <2>3, <2>4 DEF Framed
  <1>10. at2 \in [1..(Len(Held') + 1) -> 0..Cap] /\ words2 \in [1..(Len(Held') + 1) -> 0..Cap]
    BY <1>1
  <1> QED
    BY <1>9, <1>10 DEF Framing

-----------------------------------------------------------------------------
\* An empty ring is framed.
LEMMA InitInv == Init => IInv
  <1> SUFFICES ASSUME Init PROVE IInv
    OBVIOUS
  <1>1. TypeOK /\ ClearKnown /\ rres # "corrupted"
    <2>1. LeftOver \in [0..Cap -> Words]
      BY DEF LeftOver, Words
    <2>2. TypeOK
      BY <2>1 DEF Init, TypeOK
    <2> QED
      BY <2>2 DEF Init, ClearKnown, BothIdle
  <1>2. WriterKnown /\ ReaderKnown
    BY DEF Init, WriterKnown, ReaderKnown
  <1>3. Held = <<>> /\ Unpublished = 0 /\ Unreleased = 0
    BY DEF Init, Held, Unpublished, Unreleased
  <1>4. Framing
    <2> DEFINE zero == [i \in 1..1 |-> 0]
    <2>1. Len(Held) = 0 /\ zero \in [1..(Len(Held) + 1) -> 0..Cap] /\ zero[1] = 0
      BY <1>3
    <2>2. Class(0) = Class(Class(0) + 0)
      BY DEF Class
    <2>3. Route(0, LengthsOf(Held), zero, zero)
      BY <2>1, <2>2 DEF Route
    <2>4. Framed(zero, zero)
      BY <1>3, <2>1, <2>3 DEF Framed, Init
    <2> QED
      BY <2>1, <2>4 DEF Framing
  <1> QED
    BY <1>1, <1>2, <1>4 DEF IInv

\* What the assumptions of a step that reads the head give.
LEMMA HeadRead ==
  ASSUME IInv, ~ torn, rpc # "release", nSize >= 1
  PROVE  /\ unread # <<>> /\ Head(unread) \in Packets
         /\ Lengths(nHead) = {Len(Head(unread))}
         /\ Len(Head(unread)) \in 1..(Cap - 1) /\ Len(Head(unread)) + 1 <= nSize
         /\ Loaded(nHead, Len(Head(unread))) = Head(unread)
  <1>1. /\ unread # <<>> /\ Head(unread) \in Packets
        /\ SpelledAt(nHead, Head(unread))
        /\ Len(Head(unread)) \in 1..(Cap - 1) /\ Len(Head(unread)) + 1 <= nSize
    BY Oldest DEF IInv
  <1>2. pBuffer[nHead] = LengthWord(Len(Head(unread)))
        /\ Loaded(nHead, Len(Head(unread))) = Head(unread)
    BY <1>1 DEF SpelledAt
  <1>3. Lengths(nHead) = {Len(Head(unread))}
    BY <1>2 DEF Lengths, LengthWord
  <1> QED
    BY <1>1, <1>2, <1>3

\* skip() moves the head to where submit() put the next packet, unless the packet it

\* skips ends at the end of the ring.
LEMMA SkipLands ==
  ASSUME NEW h \in 0..Cap, NEW n \in 1..(Cap - 1), After(h, n) # Cap
  PROVE  (h + n + 1) % Cap = After(h, n)
  <1>1. CASE h + n + 1 < Cap
    <2>1. (h + n + 1) % Cap = h + n + 1
      BY <1>1
    <2> QED
      BY <1>1, <2>1 DEF After, Wrap
  <1>2. CASE h + n + 1 >= Cap
    <2>1. h + n + 1 # Cap /\ h + n + 1 < 2 * Cap
      BY <1>2 DEF After, Wrap
    <2>2. PICK r \in 0..(Cap - 1) : h + n + 1 = Cap + r
      BY <1>2, <2>1
    <2>3. (Cap + r) % Cap = r
      OBVIOUS
    <2> QED
      BY <2>1, <2>2, <2>3 DEF After, Wrap
  <1> QED
    BY <1>1, <1>2

-----------------------------------------------------------------------------
(* One lemma per action.                                                   *)

\* The packet fits, and its size is known.
LEMMA SubmitCheckInv == ASSUME IInv, NEW n \in Sizes, SubmitCheck(n) PROVE IInv'
  <1>1. Packet(wid, n) \in Packets /\ Len(Packet(wid, n)) = n
    <2>1. Packet(wid, n) \in Packets /\ n \in Nat
      BY DEF IInv, TypeOK, Packets
    <2>2. Packet(wid, n) \in [1..n -> Words]
      BY DEF Packet, Words, IInv, TypeOK
    <2>3. Packet(wid, n) \in Seq(Words) /\ Len(Packet(wid, n)) = n
      BY <2>1, <2>2 DEF Packet
    <2> QED
      BY <2>1, <2>3
  <1>2. (wid % MaxId) + 1 \in 1..MaxId
    <2>1. wid % MaxId \in 0..(MaxId - 1)
      BY DEF IInv, TypeOK
    <2> QED
      BY <2>1
  <1>3. TypeOK'
    BY <1>1, <1>2 DEF SubmitCheck, IInv, TypeOK, reader, clear
  <1>4. WriterKnown'
    BY <1>1 DEF SubmitCheck, WriterKnown, Full, IInv, TypeOK
  <1>5. ReaderKnown' /\ ClearKnown' /\ rres' # "corrupted" /\ ~ torn
    BY DEF SubmitCheck, Undisturbed, IInv, ReaderKnown, ClearKnown, reader, clear
  <1>6. Framing'
    <2>1. Held' = Held /\ Unpublished' = Unpublished /\ Unreleased' = Unreleased
      BY DEF SubmitCheck, Held, Unpublished, Unreleased, reader
    <2> QED
      BY <1>5, <2>1, FramesStay DEF SubmitCheck, IInv
  <1> QED
    BY <1>3, <1>4, <1>5, <1>6 DEF IInv

\* The packet is stored.
LEMMA SubmitStoreInv == ASSUME IInv, SubmitStore PROVE IInv'
  <1>1. wpacket \in Packets /\ Len(wpacket) \in 0..(Cap - 1) /\ nTail \in 0..Cap /\ Len(wpacket) + 1 <= Cap
    <2>1. wpacket \in Packets /\ nSize + Len(wpacket) + 1 <= Cap /\ nSize \in Nat /\ nTail \in 0..Cap
      BY DEF SubmitStore, IInv, WriterKnown, TypeOK
    <2>2. Len(wpacket) \in 1..Cap
      BY <2>1, PacketWords
    <2> QED
      BY <2>1, <2>2
  <1>2. After(nTail, Len(wpacket)) \in 0..Cap
    BY <1>1, Positions
  <1>3. Stored(nTail, wpacket) \in [0..Cap -> Words]
    BY <1>1, StoredCells DEF IInv
  <1>4. TypeOK'
    BY <1>2, <1>3 DEF SubmitStore, IInv, TypeOK, reader, clear
  <1>5. WriterKnown' /\ ReaderKnown' /\ ClearKnown' /\ rres' # "corrupted" /\ ~ torn
    BY DEF SubmitStore, IInv, WriterKnown, ReaderKnown, ClearKnown, BothIdle, reader, clear
  <1>6. Framing'
    BY <1>5, FramesStored DEF IInv
  <1> QED
    BY <1>4, <1>5, <1>6 DEF IInv

\* What was stored counts.
LEMMA SubmitPublishInv == ASSUME IInv, SubmitPublish PROVE IInv'
  <1>1. /\ wpacket \in Packets /\ wsize = nSize /\ nSize + Len(wpacket) + 1 <= Cap
        /\ nSize \in Nat /\ unread \in Seq(Packets)
    BY DEF SubmitPublish, IInv, WriterKnown, TypeOK
  <1>2. Len(wpacket) \in Nat
    BY <1>1, PacketWords
  <1>3. nSize' = nSize + Len(wpacket) + 1 /\ nSize' \in 0..Cap /\ nSize' >= nSize
    BY <1>1, <1>2 DEF SubmitPublish, Published
  <1>4. TypeOK'
    BY <1>1, <1>3 DEF SubmitPublish, IInv, TypeOK, reader, clear
  <1>5. WriterKnown' /\ ClearKnown' /\ rres' # "corrupted" /\ ~ torn
    BY DEF SubmitPublish, IInv, WriterKnown, ClearKnown, BothIdle, reader, clear
  <1>6. ReaderKnown'
    <2>1. unread # <<>> => unread' # <<>> /\ Head(unread') = Head(unread)
      BY <1>1 DEF SubmitPublish
    <2>2. rpc = "copy" => rlen + 1 <= nSize'
      BY <1>1, <1>3, <1>5 DEF IInv, ReaderKnown, TypeOK
    <2> QED
      BY <1>5, <2>1, <2>2 DEF SubmitPublish, IInv, ReaderKnown, reader
  <1>7. Framing'
    <2>1. Held' = Held /\ Unpublished = Len(wpacket) + 1 /\ Unpublished' = 0 /\ Unreleased' = Unreleased
      BY DEF SubmitPublish, Held, Unpublished, Unreleased, reader
    <2>2. nSize' + Unpublished' = nSize + Unpublished
      BY <1>1, <1>2, <1>3, <2>1
    <2> QED
      BY <1>5, <2>1, <2>2, FramesStay DEF SubmitPublish, IInv
  <1> QED
    BY <1>4, <1>5, <1>6, <1>7 DEF IInv

\* The record at the head is never found broken.
LEMMA FetchCheckInv == ASSUME IInv, FetchCheck PROVE IInv'
  <1>1. rpc = "idle" /\ nSize >= 1 /\ ~ torn
    BY DEF FetchCheck, Undisturbed
  <1>2. PICK n \in 1..(Cap - 1) : /\ n = Len(Head(unread)) /\ Lengths(nHead) = {n}
                                   /\ unread # <<>> /\ n + 1 <= nSize
    BY <1>1, HeadRead
  <1>3. nSize \in 0..Cap
    BY DEF IInv, TypeOK
  <1>4. IF n > Limit THEN rres' = "overflow" /\ UNCHANGED <<rpc, rlen>>
                     ELSE rres' = "ok" /\ rlen' = n /\ rpc' = "copy"
    <2>1. ~ (n + 1 > nSize)
      BY <1>2, <1>3
    <2> QED
      BY <1>2, <2>1 DEF FetchCheck
  <1>5. TypeOK'
    BY <1>2, <1>4 DEF FetchCheck, IInv, TypeOK, writer, clear
  <1>6. WriterKnown' /\ ClearKnown' /\ rres' # "corrupted"
    BY <1>1, <1>4 DEF FetchCheck, Undisturbed, IInv, WriterKnown, ClearKnown, writer, clear
  <1>7. ReaderKnown'
    BY <1>1, <1>2, <1>4 DEF FetchCheck, ReaderKnown
  <1>8. Framing'
    <2>1. Held' = Held /\ Unpublished' = Unpublished /\ Unreleased' = Unreleased
      BY <1>1, <1>4 DEF FetchCheck, Held, Unpublished, Unreleased, writer
    <2> QED
      BY <1>1, <2>1, FramesStay DEF FetchCheck, IInv
  <1> QED
    BY <1>5, <1>6, <1>7, <1>8 DEF IInv

\* The oldest packet is handed out.
LEMMA FetchCopyInv == ASSUME IInv, FetchCopy PROVE IInv' /\ got' = Head(unread) /\ unread # <<>>
  <1>1. rpc = "copy" /\ unread # <<>> /\ rlen = Len(Head(unread)) /\ nSize >= 1 /\ ~ torn
    BY DEF FetchCopy, IInv, ReaderKnown, TypeOK
  <1>2. /\ Head(unread) \in Packets /\ rlen \in 0..(Cap - 1)
        /\ Loaded(nHead, rlen) = Head(unread)
    BY <1>1, HeadRead
  <1>3. After(nHead, rlen) \in 0..Cap
    BY <1>2, Positions DEF IInv, TypeOK
  <1>4. Tail(unread) \in Seq(Packets) /\ unread' = Tail(unread)
    BY <1>1 DEF IInv, TypeOK, FetchCopy, TailOf
  <1>5. TypeOK'
    BY <1>2, <1>3, <1>4 DEF FetchCopy, IInv, TypeOK, writer, clear
  <1>6. WriterKnown' /\ ReaderKnown' /\ ClearKnown' /\ rres' # "corrupted"
    BY <1>1 DEF FetchCopy, IInv, WriterKnown, ReaderKnown, ClearKnown, BothIdle, writer, clear
  <1>7. Framing'
    BY <1>1, <1>4, FramesTaken DEF FetchCopy, IInv
  <1> QED
    BY <1>1, <1>2, <1>5, <1>6, <1>7 DEF IInv, FetchCopy

\* The oldest packet is dropped.
LEMMA SkipInv ==
  ASSUME IInv, WrapSkips = FALSE, Skip
  PROVE  IInv' /\ unread # <<>> /\ unread' = Tail(unread)
  <1>1. rpc = "idle" /\ nSize >= 1 /\ ~ torn
    BY DEF Skip, Undisturbed, IInv, TypeOK
  <1>2. PICK n \in 1..(Cap - 1) : /\ n = Len(Head(unread)) /\ Lengths(nHead) = {n}
                                   /\ unread # <<>> /\ n + 1 <= nSize
    BY <1>1, HeadRead
  <1>3. nHead' = (nHead + n + 1) % Cap /\ rlen' = n /\ After(nHead, n) # Cap
    BY <1>2 DEF Skip
  <1>4. nHead' = After(nHead, n) /\ nHead' \in 0..Cap
    <2>1. nHead \in 0..Cap /\ n \in 0..(Cap - 1)
      BY DEF IInv, TypeOK
    <2>2. After(nHead, n) \in 0..Cap
      BY <2>1, Positions
    <2> QED
      BY <1>3, <2>1, <2>2, SkipLands
  <1>5. Tail(unread) \in Seq(Packets) /\ unread' = Tail(unread)
    BY <1>2 DEF IInv, TypeOK, Skip, TailOf
  <1>6. TypeOK'
    BY <1>3, <1>4, <1>5 DEF Skip, IInv, TypeOK, writer, clear
  <1>7. WriterKnown' /\ ReaderKnown' /\ ClearKnown' /\ rres' # "corrupted"
    BY <1>1 DEF Skip, Undisturbed, IInv, WriterKnown, ReaderKnown, ClearKnown, writer, clear
  <1>8. Framing'
    BY <1>1, <1>2, <1>3, <1>4, <1>5, FramesTaken DEF Skip, IInv
  <1> QED
    BY <1>2, <1>5, <1>6, <1>7, <1>8 DEF IInv

\* What was taken out counts no more.
LEMMA ReleaseInv == ASSUME IInv, Overlap = FALSE, Release PROVE IInv'
  <1>1. wpc = "idle" /\ rpc = "release" /\ nSize' = nSize - (rlen + 1) /\ ~ torn
    BY DEF Release, Released
  <1>2. nSize \in 0..Cap /\ rlen \in Nat
    BY DEF IInv, TypeOK
  <1>3. Unpublished = 0 /\ Unpublished' = 0 /\ Unreleased = rlen + 1 /\ Unreleased' = 0 /\ Held' = Held
    BY <1>1 DEF Unpublished, Unreleased, Release, Held, writer
  <1>4. nSize' \in 0..Cap
    <2>1. PICK at, words \in [1..(Len(Held) + 1) -> 0..Cap] : Framed(at, words)
      BY <1>1 DEF IInv, Framing
    <2>2. PICK w \in 0..Cap : nSize + 0 = w + (rlen + 1)
      <3>1. words[Len(Held) + 1] \in 0..Cap
        BY <1>1, HeldPackets DEF IInv
      <3> QED
        BY <1>3, <2>1, <3>1 DEF Framed
    <2> QED
      BY <1>1, <1>2, <2>2
  <1>5. TypeOK'
    BY <1>4 DEF Release, IInv, TypeOK, writer, clear
  <1>6. WriterKnown' /\ ReaderKnown' /\ ClearKnown' /\ rres' # "corrupted"
    BY <1>1 DEF Release, IInv, WriterKnown, ReaderKnown, ClearKnown, BothIdle, writer, clear
  <1>7. Framing'
    <2>1. \A w \in 0..Cap : nSize + Unpublished = w + Unreleased => nSize' + Unpublished' = w + Unreleased'
      BY <1>1, <1>2, <1>3
    <2> QED
      BY <1>1, <1>3, <2>1, FramesStay DEF Release, IInv
  <1> QED
    BY <1>5, <1>6, <1>7 DEF IInv

\* clear() begins, alone.
LEMMA ClearBeginInv == ASSUME IInv, ClearBegin PROVE IInv'
  <1>1. TypeOK' /\ ClearKnown' /\ rres' # "corrupted"
    BY DEF ClearBegin, IInv, TypeOK, ClearKnown, BothIdle, writer, reader
  <1>2. WriterKnown' = WriterKnown /\ ReaderKnown' = ReaderKnown /\ torn' = torn
    BY DEF ClearBegin, WriterKnown, ReaderKnown, writer, reader
  <1>3. ASSUME ~ torn PROVE Framing'
    <2>1. Held' = Held /\ Unpublished' = Unpublished /\ Unreleased' = Unreleased
      BY DEF ClearBegin, Held, Unpublished, Unreleased, writer, reader
    <2> QED
      BY <1>3, <2>1, FramesStay DEF ClearBegin, IInv
  <1> QED
    BY <1>1, <1>2, <1>3 DEF IInv

\* Of a torn ring nothing is claimed but its types.
LEMMA TearInv ==
  ASSUME IInv, Tear, wpc' \in {"idle", "store", "publish"}, rpc' \in {"idle", "copy", "release"}
  PROVE  IInv'
  <1>1. LeftOver \in [0..Cap -> Words]
    BY DEF LeftOver, Words
  <1>2. TypeOK'
    BY <1>1 DEF Tear, IInv, TypeOK
  <1> QED
    BY <1>2 DEF Tear, IInv, ClearKnown

\* clear() and a call meet, whichever began first.
LEMMA MeetInv == ASSUME IInv, ClearMeets \/ SubmitMeets \/ FetchMeets PROVE IInv'
  <1>1. Tear /\ wpc' \in {"idle", "store", "publish"} /\ rpc' \in {"idle", "copy", "release"}
    BY DEF ClearMeets, SubmitMeets, FetchMeets, IInv, TypeOK
  <1> QED
    BY <1>1, TearInv

\* clear() ends without having met a call: nothing is held any more, whatever the
\* cells hold.
LEMMA ClearEndInv == ASSUME IInv, ClearEnd PROVE IInv'
  <1>1. TypeOK' /\ ClearKnown' /\ rres' # "corrupted"
    BY DEF ClearEnd, IInv, TypeOK, ClearKnown, writer, reader
  <1>2. wpc' = "idle" /\ rpc' = "idle"
    BY DEF ClearEnd, IInv, ClearKnown, BothIdle, writer, reader
  <1>3. WriterKnown' /\ ReaderKnown'
    BY <1>2 DEF WriterKnown, ReaderKnown
  <1>4. Held' = <<>> /\ Unpublished' = 0 /\ Unreleased' = 0
    BY <1>2 DEF ClearEnd, Held, Unpublished, Unreleased
  <1>5. Framing'
    <2> DEFINE zero == [i \in 1..1 |-> 0]
    <2>1. Len(Held') = 0 /\ zero \in [1..(Len(Held') + 1) -> 0..Cap] /\ zero[1] = 0
      BY <1>4
    <2>2. Class(0) = Class(Class(0) + 0)
      BY DEF Class
    <2>3. Route(0, LengthsOf(Held)', zero, zero)
      BY <2>1, <2>2 DEF Route
    <2>4. Framed(zero, zero)'
      BY <1>4, <2>1, <2>3 DEF Framed, ClearEnd
    <2> QED
      BY <2>1, <2>4 DEF Framing
  <1> QED
    BY <1>1, <1>3, <1>5 DEF IInv

\* What happens on a torn ring leaves it torn.
LEMMA TornInv == ASSUME IInv, ClearEndMet \/ TornSubmit \/ TornFetch PROVE IInv'
  <1>1. CASE ClearEndMet
    BY <1>1 DEF ClearEndMet, IInv, TypeOK, ClearKnown, writer, reader
  <1>2. CASE TornSubmit
    BY <1>2 DEF TornSubmit, IInv, TypeOK, ClearKnown, reader, clear
  <1>3. CASE TornFetch
    BY <1>3 DEF TornFetch, IInv, TypeOK, ClearKnown, writer, clear
  <1> QED
    BY <1>1, <1>2, <1>3

\* No step disturbs the invariant.
LEMMA NextInv ==
  ASSUME Overlap = FALSE, WrapSkips = FALSE, IInv, [Next]_vars
  PROVE  IInv'
  <1>1. CASE Next
    BY <1>1, SubmitCheckInv, SubmitStoreInv, SubmitPublishInv, FetchCheckInv, FetchCopyInv, SkipInv,
       ReleaseInv, ClearBeginInv, MeetInv, ClearEndInv, TornInv DEF Next
  <1>2. CASE UNCHANGED vars
    <2>1. TypeOK' /\ ClearKnown' /\ rres' # "corrupted" /\ torn' = torn
      BY <1>2 DEF vars, writer, reader, clear, IInv, TypeOK, ClearKnown, BothIdle
    <2>2. WriterKnown' = WriterKnown /\ ReaderKnown' = ReaderKnown
      BY <1>2 DEF vars, writer, reader, WriterKnown, ReaderKnown
    <2>3. ASSUME ~ torn PROVE Framing'
      BY <1>2, <2>3, FramesStay DEF vars, writer, reader, IInv, Held, Unpublished, Unreleased
    <2> QED
      BY <2>1, <2>2, <2>3 DEF IInv
  <1> QED
    BY <1>1, <1>2

\* The properties that the runs check follow from the invariant.
LEMMA InvProperties == IInv => FramesSpelled /\ SizeAccounted
  <1> SUFFICES ASSUME IInv, ~ torn PROVE FramesSpelled /\ SizeAccounted
    BY DEF FramesSpelled, SizeAccounted
  <1>1. PICK at, words \in [1..(Len(Held) + 1) -> 0..Cap] : Framed(at, words)
    BY DEF IInv, Framing
  <1>2. \A i \in 1..Len(Held) : LengthsOf(Held)[i] = Len(Held[i])
    BY HeldPackets DEF IInv
  <1>3. Route(Len(Held), LengthsOf(Held), at, words)
    BY <1>1 DEF Framed
  <1>4. /\ words[1] = 0
        /\ \A i \in 1..Len(Held) : /\ at[i + 1] = After(at[i], Len(Held[i]))
                                   /\ words[i + 1] = words[i] + Len(Held[i]) + 1
    BY <1>2, <1>3 DEF Route
  <1>5. FramesSpelled
    BY <1>1, <1>4 DEF FramesSpelled, Framed, IInv
  <1>6. SizeAccounted
    BY <1>1, <1>4 DEF SizeAccounted, Framed
  <1> QED
    BY <1>5, <1>6

\* Every step is one of the queue, or changes nothing of it.
LEMMA NextQueue ==
  ASSUME Overlap = FALSE, WrapSkips = FALSE, IInv, [Next]_vars
  PROVE  [Queue!Next]_(Queue!vars)
  <1>1. CASE SubmitPublish
    <2>1. wpacket \in Packets
      BY <1>1 DEF SubmitPublish, IInv, WriterKnown
    <2> QED
      BY <1>1, <2>1 DEF SubmitPublish, Queue!Next, Queue!Send, reader, clear
  <1>2. CASE FetchCopy
    BY <1>2, FetchCopyInv DEF FetchCopy, TailOf, Queue!Next, Queue!Deliver, clear
  <1>3. CASE Skip
    BY <1>3, SkipInv DEF Skip, Undisturbed, Queue!Next, Queue!Drop, clear
  <1>4. CASE ClearEnd
    BY <1>4 DEF ClearEnd, Queue!Next, Queue!Clear, reader
  <1>5. CASE ClearMeets \/ SubmitMeets \/ FetchMeets
    BY <1>5 DEF ClearMeets, SubmitMeets, FetchMeets, Tear, Queue!Next, Queue!Break
  <1>6. CASE TornFetch
    BY <1>6 DEF TornFetch, Queue!Next, Queue!Garble, clear
  <1>7. ASSUME \/ \E n \in Sizes : SubmitCheck(n)
               \/ SubmitStore \/ FetchCheck \/ Release
               \/ ClearBegin \/ ClearEndMet \/ TornSubmit \/ UNCHANGED vars
        PROVE  UNCHANGED Queue!vars
    BY <1>7 DEF SubmitCheck, SubmitStore, FetchCheck, Release, ClearBegin, ClearEndMet, TornSubmit,
       vars, reader, clear, Queue!vars
  <1> QED
    BY <1>1, <1>2, <1>3, <1>4, <1>5, <1>6, <1>7 DEF Next

\* The invariant holds in every reachable state.
LEMMA SpecInv == Overlap = FALSE /\ WrapSkips = FALSE => (Spec => []IInv)
  <1>1. ASSUME Overlap = FALSE /\ WrapSkips = FALSE PROVE Spec => []IInv
    <2>1. IInv /\ [Next]_vars => IInv'
      BY <1>1, NextInv
    <2> QED
      BY <2>1, InitInv, PTL DEF Spec
  <1> QED
    BY <1>1

\* Types: positions stay in the ring and its padding, and what is held, written and

\* handed out are packets, never parts of them.
THEOREM TypeCorrect == Overlap = FALSE /\ WrapSkips = FALSE => (Spec => []TypeOK)
  <1>1. ASSUME Overlap = FALSE /\ WrapSkips = FALSE PROVE Spec => []TypeOK
    <2>1. Spec => []IInv
      BY <1>1, SpecInv
    <2>2. IInv => TypeOK
      BY DEF IInv
    <2> QED
      BY <2>1, <2>2, PTL
  <1> QED
    BY <1>1

\* The cells spell the packets held, from the head to the tail: submit() overwrites
\* nothing that fetch() still has to copy.
THEOREM FramesKept == Overlap = FALSE /\ WrapSkips = FALSE => (Spec => []FramesSpelled)
  <1>1. ASSUME Overlap = FALSE /\ WrapSkips = FALSE PROVE Spec => []FramesSpelled
    <2>1. Spec => []IInv
      BY <1>1, SpecInv
    <2> QED
      BY <2>1, InvProperties, PTL
  <1> QED
    BY <1>1

\* The size counts the words of the packets held, no more and no less.
THEOREM SizeKept == Overlap = FALSE /\ WrapSkips = FALSE => (Spec => []SizeAccounted)
  <1>1. ASSUME Overlap = FALSE /\ WrapSkips = FALSE PROVE Spec => []SizeAccounted
    <2>1. Spec => []IInv
      BY <1>1, SpecInv
    <2> QED
      BY <2>1, InvProperties, PTL
  <1> QED
    BY <1>1

\* The ring is a FIFO of whole packets.
THEOREM RingIsQueue == Overlap = FALSE /\ WrapSkips = FALSE => (Spec => ImplementsPacketQueue)
  <1>1. ASSUME Overlap = FALSE /\ WrapSkips = FALSE PROVE Spec => ImplementsPacketQueue
    <2>1. Spec => []IInv
      BY <1>1, SpecInv
    <2>2. IInv /\ [Next]_vars => [Queue!Next]_(Queue!vars)
      BY <1>1, NextQueue
    <2>3. Init => Queue!Init
      BY DEF Init, Queue!Init
    <2> QED
      BY <2>1, <2>2, <2>3, PTL DEF Spec, ImplementsPacketQueue, Queue!Spec
  <1> QED
    BY <1>1
=============================================================================
