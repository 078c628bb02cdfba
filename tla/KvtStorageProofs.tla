-------------------------- MODULE KvtStorageProofs --------------------------
EXTENDS KvtStorage, SequenceTheorems, FiniteSetTheorems, WellFoundedInduction, TLAPS

USE KvtAssumption

-----------------------------------------------------------------------------
(* Induction by the least counterexample                                   *)

Less == OpToRel(<, Nat)

\* A set of natural numbers that is not empty has a least one.
LEMMA Least ==
  ASSUME NEW T \in SUBSET Nat, T # {}
  PROVE  \E x \in T : \A y \in T : x <= y
  <1>1. IsWellFoundedOn(Less, Nat)
    BY NatLessThanWellFounded, Zenon DEF Less
  <1>2. PICK x \in T : \A y \in T : ~ (<<y, x>> \in Less)
    BY <1>1, WFMin
  <1>3. \A y \in T : ~ (y < x)
    BY <1>2, Zenon DEF Less, OpToRel
  <1> QED
    BY <1>3

-----------------------------------------------------------------------------
(* Paths                                                                   *)

\* A path is a sequence of names, and so is each of its prefixes.
LEMMA PathSeq ==
  /\ \A p \in Nodes : p \in Seq(Names) /\ Len(p) \in Nat /\ (Len(p) = 0 <=> p = Root)
  /\ \A p \in Nodes : \A i \in 0..Len(p) : SubSeq(p, 1, i) \in Nodes
  <1>1. ASSUME NEW p \in Nodes
        PROVE  p \in Seq(Names) /\ Len(p) \in Nat /\ (Len(p) = 0 <=> p = Root)
    <2>1. Root \in Seq(Names) /\ Len(Root) = 0
      BY DEF Root
    <2>2. CASE p = Root
      BY <2>1, <2>2
    <2>3. CASE p # Root
      <3>1. p \in Paths
        BY <2>3 DEF Nodes
      <3>2. p \in Seq(Names) /\ Len(p) > 0
        BY <3>1, KvtAssumption
      <3>3. Len(p) \in Nat
        BY <3>2
      <3> QED
        BY <2>3, <3>2, <3>3
    <2> QED
      BY <2>2, <2>3
  <1>2. ASSUME NEW p \in Nodes, NEW i \in 0..Len(p) PROVE SubSeq(p, 1, i) \in Nodes
    <2>1. CASE i = 0
      BY <2>1, <1>1, SubSeqEmpty DEF Nodes, Root
    <2>2. CASE i # 0
      BY <2>2, <1>1 DEF Nodes, Root
    <2> QED
      BY <2>1, <2>2
  <1> QED
    BY <1>1, <1>2

\* Prefixes of prefixes.
LEMMA Prefix ==
  ASSUME NEW p \in Nodes, NEW i \in 0..Len(p)
  PROVE  /\ Len(SubSeq(p, 1, i)) = i
         /\ SubSeq(p, 1, Len(p)) = p
         /\ \A j \in 0..i : SubSeq(SubSeq(p, 1, i), 1, j) = SubSeq(p, 1, j)
  <1>1. p \in Seq(Names) /\ Len(p) \in Nat
    BY PathSeq
  <1>2. \A k \in 1..Len(p) : p[k] \in Names
    BY <1>1
  <1>3. Len(SubSeq(p, 1, i)) = i /\ SubSeq(p, 1, i) \in Seq(Names)
    BY <1>1, <1>2
  <1>4. SubSeq(p, 1, Len(p)) = p
    BY <1>1, SubSeqFull
  <1>5. ASSUME NEW j \in 0..i PROVE SubSeq(SubSeq(p, 1, i), 1, j) = SubSeq(p, 1, j)
    <2>1. CASE j = 0
      <3>1. SubSeq(SubSeq(p, 1, i), 1, 0) = <<>> /\ SubSeq(p, 1, 0) = <<>>
        BY SubSeqEmpty
      <3> QED
        BY <2>1, <3>1
    <2>2. CASE j # 0
      <3>1. i \in 1..Len(p) /\ 1 \in 1..Len(p) /\ 1 \in 1..(i - 1 + 1) /\ j \in 1..(i - 1 + 1)
        BY <2>2, <1>1
      <3>2. SubSeq(SubSeq(p, 1, i), 1, j) = SubSeq(p, 1 + 1 - 1, 1 + j - 1)
        BY <1>1, <3>1, SubSeqOfSubSeq
      <3> QED
        BY <3>1, <3>2
    <2> QED
      BY <2>1, <2>2
  <1> QED
    BY <1>3, <1>4, <1>5

\* The nodes above a node, and the order among them.
LEMMA UpFacts ==
  ASSUME NEW p \in Nodes
  PROVE  /\ Up(p) \subseteq Nodes /\ p \in Up(p) /\ Root \in Up(p)
         /\ \A x \in Up(p) : Len(x) \in 0..Len(p) /\ x = SubSeq(p, 1, Len(x))
         /\ \A x \in Up(p) : Up(x) \subseteq Up(p)
         /\ \A x, y \in Up(p) : Len(x) <= Len(y) => x \in Up(y)
         /\ \A x, y \in Up(p) : Len(x) = Len(y) => x = y
         /\ \A x \in Up(p) : Len(x) = Len(p) => x = p
  <1>1. Len(p) \in Nat /\ \A i \in 0..Len(p) : SubSeq(p, 1, i) \in Nodes
    BY PathSeq
  <1>2. \A i \in 0..Len(p) : Len(SubSeq(p, 1, i)) = i
    BY Prefix
  <1>3. \A i \in 0..Len(p) : \A j \in 0..i : SubSeq(SubSeq(p, 1, i), 1, j) = SubSeq(p, 1, j)
    BY Prefix
  <1>4. SubSeq(p, 1, Len(p)) = p
    BY <1>1, Prefix
  <1>5. SubSeq(p, 1, 0) = Root
    BY SubSeqEmpty DEF Root
  <1>6. Up(p) \subseteq Nodes /\ p \in Up(p) /\ Root \in Up(p)
    <2>1. 0 \in 0..Len(p) /\ Len(p) \in 0..Len(p)
      BY <1>1
    <2>2. Up(p) \subseteq Nodes
      BY <1>1, Zenon DEF Up
    <2>3. SubSeq(p, 1, Len(p)) \in Up(p) /\ SubSeq(p, 1, 0) \in Up(p)
      BY <2>1, Zenon DEF Up
    <2> QED
      BY <1>4, <1>5, <2>2, <2>3
  <1>7. \A x \in Up(p) : Len(x) \in 0..Len(p) /\ x = SubSeq(p, 1, Len(x))
    BY <1>2, Zenon DEF Up
  <1>8. ASSUME NEW x \in Up(p), NEW y \in Up(x) PROVE y \in Up(p)
    <2>1. PICK i \in 0..Len(p) : x = SubSeq(p, 1, i)
      BY DEF Up
    <2>2. PICK j \in 0..Len(x) : y = SubSeq(x, 1, j)
      BY DEF Up
    <2>3. y = SubSeq(p, 1, j) /\ j \in 0..Len(p)
      BY <1>1, <1>2, <1>3, <2>1, <2>2
    <2> QED
      BY <2>3 DEF Up
  <1>9. ASSUME NEW x \in Up(p), NEW y \in Up(p), Len(x) <= Len(y) PROVE x \in Up(y)
    <2>1. PICK i \in 0..Len(p) : x = SubSeq(p, 1, i)
      BY DEF Up
    <2>2. PICK j \in 0..Len(p) : y = SubSeq(p, 1, j)
      BY DEF Up
    <2>3. Len(x) = i /\ Len(y) = j
      BY <1>2, <2>1, <2>2
    <2>5. i \in 0..j
      BY <1>9, <2>3
    <2>4. x = SubSeq(y, 1, i)
      BY <1>3, <2>1, <2>2, <2>5
    <2> QED
      BY <2>3, <2>4, <2>5 DEF Up
  <1>10. \A x, y \in Up(p) : Len(x) = Len(y) => x = y
    BY <1>7
  <1>11. \A x \in Up(p) : Len(x) = Len(p) => x = p
    BY <1>6, <1>10
  <1> QED
    BY <1>6, <1>7, <1>8, <1>9, <1>10, <1>11

\* The parent of a node, and the child on the way to a node below.
LEMMA ParentFacts ==
  ASSUME NEW p \in Paths
  PROVE  /\ p \in Nodes /\ p # Root /\ Parent(p) \in Nodes /\ Len(Parent(p)) = Len(p) - 1
         /\ Parent(p) \in Up(p)
         /\ Up(p) = Up(Parent(p)) \cup {p}
  <1>1. p \in Nodes /\ p # Root /\ Len(p) \in Nat /\ Len(p) # 0
    BY PathSeq DEF Nodes, Root
  <1>2. Parent(p) \in Nodes /\ Len(Parent(p)) = Len(p) - 1 /\ Parent(p) \in Up(p)
    <2>1. Len(p) - 1 \in 0..Len(p)
      BY <1>1
    <2>2. SubSeq(p, 1, Len(p) - 1) \in Nodes
      BY <1>1, <2>1, PathSeq
    <2>3. Len(SubSeq(p, 1, Len(p) - 1)) = Len(p) - 1
      BY <1>1, <2>1, Prefix
    <2>4. SubSeq(p, 1, Len(p) - 1) \in Up(p)
      BY <2>1, Zenon DEF Up
    <2> QED
      BY <2>2, <2>3, <2>4 DEF Parent
  <1>3. ASSUME NEW x \in Up(p), x # p PROVE x \in Up(Parent(p))
    <2>1. Len(x) \in 0..Len(p) /\ Len(x) # Len(p)
      BY <1>1, <1>3, UpFacts
    <2>2. Len(x) <= Len(Parent(p))
      BY <1>1, <1>2, <2>1
    <2> QED
      BY <1>1, <1>2, <2>2, UpFacts
  <1>4. Up(Parent(p)) \subseteq Up(p) /\ p \in Up(p)
    BY <1>1, <1>2, UpFacts
  <1> QED
    BY <1>1, <1>2, <1>3, <1>4

LEMMA OnTheWay ==
  ASSUME NEW p \in Nodes
  PROVE  /\ \A c \in Up(p) \ {Root} : c \in Paths /\ Parent(c) \in Up(p)
         /\ \A x \in Up(p) \ {p} : \E c \in Up(p) : c \in Paths /\ Parent(c) = x /\ Len(c) = Len(x) + 1
         /\ \A c, d \in Up(p) \ {Root} : Parent(c) = Parent(d) => c = d
  <1>1. Up(p) \subseteq Nodes
    BY UpFacts
  <1>2. \A c \in Up(p) \ {Root} : c \in Paths /\ Parent(c) \in Up(p)
    <2> SUFFICES ASSUME NEW c \in Up(p) \ {Root} PROVE c \in Paths /\ Parent(c) \in Up(p)
      OBVIOUS
    <2>1. c \in Paths
      BY <1>1 DEF Nodes
    <2>2. Parent(c) \in Up(c) /\ Up(c) \subseteq Up(p)
      BY <2>1, ParentFacts, UpFacts
    <2> QED
      BY <2>1, <2>2
  <1>3. ASSUME NEW x \in Up(p) \ {p}
        PROVE  \E c \in Up(p) : c \in Paths /\ Parent(c) = x /\ Len(c) = Len(x) + 1
    <2>1. Len(p) \in Nat /\ Len(x) \in 0..(Len(p) - 1)
      BY PathSeq, UpFacts
    <2> DEFINE c == SubSeq(p, 1, Len(x) + 1)
    <2>2. c \in Up(p) /\ Len(c) = Len(x) + 1
      BY <2>1, Prefix DEF Up
    <2>3. c \in Nodes /\ c # Root
      <3>1. c \in Nodes
        BY <1>1, <2>2
      <3>2. Len(c) # 0
        BY <2>1, <2>2
      <3> HIDE DEF c
      <3> QED
        BY <3>1, <3>2, PathSeq
    <2>4. c \in Paths
      BY <2>3 DEF Nodes
    <2>5. Parent(c) \in Up(p) /\ Len(Parent(c)) = Len(x)
      <3> HIDE DEF c
      <3>1. Parent(c) \in Up(p)
        BY <1>2, <2>2, <2>3
      <3>2. Len(Parent(c)) = Len(c) - 1
        BY <2>4, ParentFacts
      <3> QED
        BY <2>1, <2>2, <3>1, <3>2
    <2>6. Parent(c) = x
      BY <2>5, UpFacts
    <2> QED
      BY <2>2, <2>4, <2>6
  <1>4. ASSUME NEW c \in Up(p) \ {Root}, NEW d \in Up(p) \ {Root}, Parent(c) = Parent(d) PROVE c = d
    <2>1. c \in Paths /\ d \in Paths
      BY <1>2
    <2>2. Len(Parent(c)) = Len(c) - 1 /\ Len(Parent(d)) = Len(d) - 1
      BY <2>1, ParentFacts
    <2>3. Len(c) \in Nat /\ Len(d) \in Nat
      BY <2>1, ParentFacts, PathSeq
    <2>4. Len(c) = Len(d)
      BY <1>4, <2>2, <2>3
    <2> QED
      BY <2>4, UpFacts
  <1> QED
    BY <1>2, <1>3, <1>4

\* A set of nodes that holds the parents of its nodes holds all nodes above them.
LEMMA Ancestors ==
  ASSUME NEW V \in SUBSET Nodes, \A x \in V : x # Root => Parent(x) \in V,
         NEW p \in V
  PROVE  Up(p) \subseteq V
  <1> DEFINE T == {i \in 0..Len(p) : SubSeq(p, 1, Len(p) - i) \notin V}
  <1>1. p \in Nodes /\ Len(p) \in Nat
    BY PathSeq
  <1>2. ASSUME T # {} PROVE FALSE
    <2>1. T \in SUBSET Nat
      BY <1>1
    <2>2. PICK i \in T : \A j \in T : i <= j
      BY <1>2, <2>1, Least
    <2>3. i # 0
      <3>1. SubSeq(p, 1, Len(p)) = p
        BY <1>1, Prefix
      <3>2. SubSeq(p, 1, Len(p) - i) \notin V
        BY <2>2
      <3>3. i = 0 => Len(p) - i = Len(p)
        BY <1>1
      <3> QED
        BY <3>1, <3>2, <3>3
    <2>4. i - 1 \in 0..Len(p) /\ i - 1 \notin T /\ Len(p) - i \in 0..Len(p) /\ Len(p) - (i - 1) \in 0..Len(p)
      BY <1>1, <2>2, <2>3
    <2>5. SubSeq(p, 1, Len(p) - (i - 1)) \in V
      BY <2>4
    <2> DEFINE c == SubSeq(p, 1, Len(p) - (i - 1))
    <2>6. Len(c) = Len(p) - (i - 1) /\ SubSeq(c, 1, Len(p) - i) = SubSeq(p, 1, Len(p) - i)
      BY <1>1, <2>3, <2>4, Prefix
    <2>7. c # Root
      <3>1. c \in Nodes
        BY <2>5
      <3>2. Len(c) # 0
        BY <1>1, <2>2, <2>6
      <3> HIDE DEF c
      <3> QED
        BY <3>1, <3>2, PathSeq
    <2>8. Parent(c) = SubSeq(p, 1, Len(p) - i)
      BY <1>1, <2>6 DEF Parent
    <2>9. Parent(c) \in V
      BY <2>5, <2>7
    <2> QED
      BY <2>2, <2>8, <2>9
  <1>3. \A k \in 0..Len(p) : Len(p) - k \in 0..Len(p) /\ Len(p) - (Len(p) - k) = k
    BY <1>1
  <1>4. \A k \in 0..Len(p) : SubSeq(p, 1, k) \in V
    BY <1>2, <1>3
  <1> QED
    BY <1>4 DEF Up

\* There are finitely many nodes above a node.
LEMMA UpFinite == ASSUME NEW p \in Nodes PROVE IsFiniteSet(Up(p))
  <1> DEFINE f == [i \in 0..Len(p) |-> SubSeq(p, 1, i)]
  <1>1. Len(p) \in Nat /\ IsFiniteSet(0..Len(p))
    BY PathSeq, FS_Interval
  <1>2. f \in Surjection(0..Len(p), Up(p))
    BY DEF Surjection, Up
  <1> QED
    BY <1>1, <1>2, FS_Surjection

-----------------------------------------------------------------------------
(* The parts of the invariant                                              *)

TreeInv ==
  /\ refs \in [Nodes -> Nat]
  /\ sValid \subseteq Paths /\ sGarbage \subseteq Paths /\ kids \subseteq Paths
  /\ IsFiniteSet(kids)
  /\ RefsCounted /\ TreeIntact

ListInv ==
  /\ pending \in [Paths -> SUBSET Flags]
  /\ list \in [Flags -> Seq(Paths)]
  /\ PendingListed

RestType ==
  /\ param \in [Paths -> Values \cup {None}]
  /\ private \in [Paths -> BOOLEAN]
  /\ job \in [op : {"none", "remove", "touch"}, nodes : SUBSET Paths, flags : SUBSET Flags]
  /\ iter \in [mode : {"none", "run", "eof"}, curr : Paths \cup {None}, next : Paths \cup {None}]
  /\ todo \subseteq Paths

PassInv == JobKnown /\ PassKnown /\ TxPassComplete

\* The invariant is its parts.
LEMMA Parts == IInv <=> TreeInv /\ ListInv /\ RestType /\ PassInv
  BY DEF IInv, TypeOK, TreeInv, ListInv, RestType, PassInv

-----------------------------------------------------------------------------
(* The tree                                                                *)

\* what a node counts for itself
Own(pa, n) == IF n = Root \/ (n \in Paths /\ pa[n] # None) THEN 1 ELSE 0

\* its children that count
Counting(r, K, n) == {k \in K : Parent(k) = n /\ r[k] > 0}

\* RefsCounted in these terms.
LEMMA Counted ==
  RefsCounted <=> \A n \in Nodes : refs[n] = Own(param, n) + Cardinality(Counting(refs, kids, n))
  BY DEF RefsCounted, Own, Counting

\* Above a node that counts references every node does, so that a node is
\* found by its name if and only if it counts some; the root always does.
LEMMA Reach ==
  ASSUME NEW r, r \in [Nodes -> Nat], NEW K \in SUBSET Paths, IsFiniteSet(K), NEW pa,
         \A n \in Nodes : r[n] = Own(pa, n) + Cardinality(Counting(r, K, n)),
         \A p \in Paths : r[p] > 0 => p \in K
  PROVE  /\ r[Root] > 0
         /\ \A n \in Nodes : r[n] > 0 => \A x \in Up(n) : r[x] > 0 /\ (x # Root => x \in K)
  <1>1. \A n \in Nodes : Cardinality(Counting(r, K, n)) \in Nat /\ IsFiniteSet(Counting(r, K, n))
    <2> SUFFICES ASSUME NEW n \in Nodes
                 PROVE  Cardinality(Counting(r, K, n)) \in Nat /\ IsFiniteSet(Counting(r, K, n))
      OBVIOUS
    <2>1. Counting(r, K, n) \subseteq K
      BY DEF Counting
    <2> QED
      BY <2>1, FS_Subset, FS_CardinalityType
  <1>2. Root \in Nodes
    BY DEF Nodes
  <1>3. r[Root] > 0
    BY <1>1, <1>2 DEF Own
  <1> DEFINE V == {n \in Nodes : r[n] > 0}
  <1>4. ASSUME NEW x \in V, x # Root PROVE Parent(x) \in V
    <2>1. x \in Paths
      BY <1>4 DEF Nodes
    <2>2. Parent(x) \in Nodes
      BY <2>1, ParentFacts
    <2>3. x \in Counting(r, K, Parent(x))
      BY <2>1 DEF Counting
    <2>4. Cardinality(Counting(r, K, Parent(x))) # 0
      BY <1>1, <2>2, <2>3, FS_EmptySet
    <2>5. r[Parent(x)] = Own(pa, Parent(x)) + Cardinality(Counting(r, K, Parent(x)))
      BY <2>2
    <2>6. Own(pa, Parent(x)) \in Nat
      BY DEF Own
    <2>7. r[Parent(x)] > 0
      BY <1>1, <2>2, <2>4, <2>5, <2>6
    <2> QED
      BY <2>2, <2>7
  <1>5. ASSUME NEW n \in Nodes, r[n] > 0 PROVE Up(n) \subseteq V
    BY <1>4, <1>5, Ancestors
  <1>6. ASSUME NEW n \in Nodes, r[n] > 0, NEW x \in Up(n) PROVE r[x] > 0 /\ (x # Root => x \in K)
    BY <1>5, <1>6 DEF Nodes
  <1> QED
    BY <1>3, <1>6

\* What the tree says of names.
LEMMA Finding ==
  ASSUME TreeInv
  PROVE  /\ refs[Root] > 0
         /\ \A n \in Nodes : refs[n] > 0 => \A x \in Up(n) : refs[x] > 0 /\ (x # Root => x \in kids)
         /\ \A n \in Nodes : Found(n) <=> refs[n] > 0
         /\ \A p \in Paths : param[p] # None => refs[p] > 0
  <1>1. refs \in [Nodes -> Nat] /\ kids \subseteq Paths /\ IsFiniteSet(kids) /\ TreeIntact /\ RefsCounted
    BY DEF TreeInv
  <1>2. \A n \in Nodes : refs[n] = Own(param, n) + Cardinality(Counting(refs, kids, n))
    BY <1>1, Counted
  <1>3. \A p \in Paths : refs[p] > 0 => p \in kids
    BY <1>1 DEF TreeIntact
  <1>4. /\ refs[Root] > 0
        /\ \A n \in Nodes : refs[n] > 0 => \A x \in Up(n) : refs[x] > 0 /\ (x # Root => x \in kids)
    BY <1>1, <1>2, <1>3, Reach
  <1>5. ASSUME NEW n \in Nodes PROVE Found(n) <=> refs[n] > 0
    <2>1. n \in Up(n)
      BY UpFacts
    <2>2. n = Root => refs[n] > 0
      BY <1>4
    <2> QED
      BY <1>4, <2>1, <2>2 DEF Found
  <1>6. ASSUME NEW p \in Paths, param[p] # None PROVE refs[p] > 0
    BY <1>1, <1>5, <1>6 DEF TreeIntact, Nodes
  <1> QED
    BY <1>4, <1>5, <1>6

\* The same after a step.
LEMMA ReachNext ==
  ASSUME refs' \in [Nodes -> Nat], kids' \subseteq Paths, IsFiniteSet(kids'),
         \A n \in Nodes : refs'[n] = Own(param', n) + Cardinality(Counting(refs', kids', n)),
         \A p \in Paths : refs'[p] > 0 => p \in kids'
  PROVE  \A n \in Nodes : refs'[n] > 0 => \A x \in Up(n) : refs'[x] > 0 /\ (x # Root => x \in kids')
  BY Reach

\* A step that leaves the nodes of the two lists in memory, the references
\* counted and the parents linked leaves the tree intact.
LEMMA Rebuilt ==
  ASSUME refs' \in [Nodes -> Nat], kids' \subseteq Paths, IsFiniteSet(kids'), sGarbage' \subseteq Paths,
         \A n \in Nodes : refs'[n] = Own(param', n) + Cardinality(Counting(refs', kids', n)),
         sValid' = {p \in Paths : refs'[p] > 0},
         sValid' \cap sGarbage' = {}, kids' = sValid' \cup sGarbage',
         \A p \in kids' : Parent(p) \in kids' \cup {Root}
  PROVE  TreeInv'
  <1>1. \A p \in Paths : refs'[p] > 0 => p \in kids'
    OBVIOUS
  <1>2. \A n \in Nodes : refs'[n] > 0 => \A x \in Up(n) : refs'[x] > 0 /\ (x # Root => x \in kids')
    BY <1>1, ReachNext
  <1>3. ASSUME NEW p \in Paths, param'[p] # None PROVE Found(p)'
    <2>1. p \in Nodes /\ Own(param', p) = 1
      BY <1>3 DEF Own, Nodes
    <2>2. Cardinality(Counting(refs', kids', p)) \in Nat
      <3>1. Counting(refs', kids', p) \subseteq kids'
        BY DEF Counting
      <3> QED
        BY <3>1, FS_Subset, FS_CardinalityType
    <2>3. refs'[p] > 0
      BY <2>1, <2>2
    <2> QED
      BY <1>2, <2>1, <2>3 DEF Found
  <1>4. RefsCounted'
    BY DEF RefsCounted, Own, Counting
  <1> QED
    BY <1>3, <1>4 DEF TreeInv, TreeIntact

\* reference_up() for the first parameter of a node, created on the way or not.
LEMMA TreeUp ==
  ASSUME TreeInv, NEW p \in Paths, param[p] = None,
         ReferenceUp(p, Missing(p)), kids' = kids \cup Missing(p),
         NEW v, v # None, param \in [Paths -> Values \cup {None}], param' = [param EXCEPT ![p] = v]
  PROVE  TreeInv'
  <1> DEFINE R == Raised(p)
             moved == {x \in R : refs[x] = 0}
  <1>1. /\ refs \in [Nodes -> Nat] /\ sValid \subseteq Paths /\ sGarbage \subseteq Paths
        /\ kids \subseteq Paths /\ IsFiniteSet(kids) /\ RefsCounted /\ TreeIntact
    BY DEF TreeInv
  <1>2. /\ sValid = {x \in Paths : refs[x] > 0} /\ sValid \cap sGarbage = {}
        /\ kids = sValid \cup sGarbage /\ \A x \in kids : Parent(x) \in kids \cup {Root}
    BY <1>1 DEF TreeIntact
  <1>3. /\ refs' = [n \in Nodes |-> IF n \in R THEN refs[n] + 1 ELSE refs[n]]
        /\ sValid' = sValid \cup moved
        /\ sGarbage' = (sGarbage \cup Missing(p)) \ moved
    BY DEF ReferenceUp
  <1>4. p \in Nodes /\ p # Root
    BY ParentFacts
  <1>5. R \subseteq Up(p) /\ Up(p) \subseteq Nodes /\ p \in R
    <2>1. p \in Up(p) /\ \A y \in Up(p) : Len(y) \in 0..Len(p)
      BY <1>4, UpFacts
    <2>2. Len(p) \in Nat
      BY <1>4, PathSeq
    <2>3. \A y \in Up(p) : ~ (Len(y) > Len(p))
      BY <2>1, <2>2
    <2> QED
      BY <1>4, <2>1, <2>3, UpFacts DEF Raised
  <1>6. refs[Root] > 0 /\ \A n \in Nodes : refs[n] > 0 => \A x \in Up(n) : refs[x] > 0
    BY Finding
  <1>7. Missing(p) \subseteq Up(p) \ {Root} /\ Up(p) \ {Root} \subseteq kids' /\ Up(p) \ {Root} \subseteq Paths
    BY <1>4, OnTheWay DEF Missing
  <1>8. moved \subseteq Up(p) \ {Root}
    BY <1>5, <1>6
  <1>9. \A x \in Missing(p) : x \in Paths /\ refs[x] = 0
    <2> SUFFICES ASSUME NEW x \in Missing(p) PROVE x \in Paths /\ refs[x] = 0
      OBVIOUS
    <2>1. x \in Paths /\ x \notin sValid
      BY <1>2, <1>7 DEF Missing
    <2>2. refs[x] \in Nat /\ ~ (refs[x] > 0)
      BY <1>1, <1>2, <2>1 DEF Nodes
    <2> QED
      BY <2>1, <2>2
  <1>10. refs' \in [Nodes -> Nat]
    BY <1>1, <1>3
  <1>11. \A n \in Nodes : refs'[n] = (IF n \in R THEN refs[n] + 1 ELSE refs[n]) /\ refs[n] \in Nat
    BY <1>1, <1>3
  <1>12. kids' \subseteq Paths /\ IsFiniteSet(kids') /\ sGarbage' \subseteq Paths
    <2>1. IsFiniteSet(Up(p))
      BY <1>4, UpFinite
    <2>2. IsFiniteSet(Missing(p))
      BY <1>7, <2>1, FS_Subset
    <2>3. IsFiniteSet(kids \cup Missing(p))
      BY <1>1, <2>2, FS_Union
    <2> QED
      BY <1>1, <1>3, <1>9, <2>3
  <1>13. \A x \in kids' : Parent(x) \in kids' \cup {Root}
    BY <1>2, <1>4, <1>7, OnTheWay
  <1>14. sValid' = {x \in Paths : refs'[x] > 0}
    <2>1. moved \subseteq Paths
      BY <1>7, <1>8
    <2>2. ASSUME NEW x \in Paths PROVE refs'[x] > 0 <=> x \in sValid \/ x \in moved
      <3>1. x \in Nodes
        BY DEF Nodes
      <3>2. x \in sValid <=> refs[x] > 0
        BY <1>2
      <3>3. refs'[x] = (IF x \in R THEN refs[x] + 1 ELSE refs[x]) /\ refs[x] \in Nat
        BY <1>11, <3>1
      <3> QED
        BY <3>2, <3>3
    <2> QED
      BY <1>2, <1>3, <2>1, <2>2
  <1>15. sValid' \cap sGarbage' = {}
    BY <1>2, <1>3, <1>9
  <1>16. kids' = sValid' \cup sGarbage'
    BY <1>2, <1>3, <1>7, <1>8
  <1>17. ASSUME NEW n \in Nodes
         PROVE  refs'[n] = Own(param', n) + Cardinality(Counting(refs', kids', n))
    <2> DEFINE S == Counting(refs, kids, n)
               T == Counting(refs', kids', n)
    <2>1. refs[n] = Own(param, n) + Cardinality(S)
      BY <1>1, Counted
    <2>2. IsFiniteSet(S) /\ Cardinality(S) \in Nat
      <3>1. S \subseteq kids
        BY DEF Counting
      <3> QED
        BY <1>1, <3>1, FS_Subset, FS_CardinalityType
    <2>3. S \subseteq T
      BY <1>1, <1>11 DEF Counting, Nodes
    <2>4. ASSUME NEW k \in T \ S
          PROVE  k \in R /\ refs[k] = 0 /\ k \in Up(p) \ {Root} /\ Parent(k) = n
      <3>1. k \in kids' /\ k \in Paths /\ Parent(k) = n /\ refs'[k] > 0
        BY <1>12 DEF Counting
      <3>2. k \in kids => ~ (refs[k] > 0)
        BY <3>1 DEF Counting
      <3>3. refs[k] = 0
        BY <1>9, <1>11, <3>1, <3>2 DEF Nodes
      <3>4. k \in R
        BY <1>11, <3>1, <3>3 DEF Nodes
      <3>5. k # Root
        BY <1>6, <3>3
      <3> QED
        BY <1>5, <3>1, <3>3, <3>4, <3>5
    <2>5. \A k \in Up(p) : Len(k) \in Nat
      BY <1>5, PathSeq
    <2>6. CASE n = p
      <3>1. Own(param, n) = 0 /\ Own(param', n) = 1
        BY <2>6, <1>4 DEF Own
      <3>2. ASSUME NEW k \in T \ S PROVE FALSE
        <4>1. Parent(k) = p /\ k \in Up(p) \ {Root} /\ k \in Paths
          BY <2>4, <2>6, <1>7
        <4>2. Len(p) = Len(k) - 1 /\ Len(k) \in 0..Len(p) /\ Len(p) \in Nat
          BY <1>4, <4>1, ParentFacts, UpFacts, PathSeq
        <4> QED
          BY <4>2
      <3>3. T = S
        BY <2>3, <3>2
      <3>4. refs'[n] = refs[n] + 1
        BY <1>5, <1>11, <2>6
      <3> QED
        BY <2>1, <2>2, <3>1, <3>3, <3>4
    <2>7. CASE n \in R /\ n # p
      <3>1. Own(param', n) = Own(param, n) /\ Own(param, n) \in Nat
        BY <2>7 DEF Own
      <3>2. n \in Up(p) \ {p} /\ \A y \in Up(p) : Len(y) > Len(n) => refs[y] = 0
        BY <2>7 DEF Raised
      <3>3. PICK c \in Up(p) : c \in Paths /\ Parent(c) = n /\ Len(c) = Len(n) + 1
        BY <1>4, <3>2, OnTheWay
      <3>4. Len(c) > Len(n) /\ \A y \in Up(p) : Len(y) > Len(c) => Len(y) > Len(n)
        BY <2>5, <3>2, <3>3
      <3>5. refs[c] = 0 /\ c \in R
        BY <3>2, <3>4 DEF Raised
      <3>6. c # Root
        BY <3>3, ParentFacts
      <3>7. c \in T /\ c \notin S
        <4>1. refs'[c] = 1
          BY <1>11, <3>3, <3>5 DEF Nodes
        <4>2. c \in kids'
          BY <1>7, <3>6
        <4> QED
          BY <3>3, <3>5, <4>1, <4>2 DEF Counting
      <3>8. \A k \in T \ S : k = c
        BY <2>4, <3>3, <3>6, <1>4, OnTheWay
      <3>9. T = S \cup {c}
        BY <2>3, <3>7, <3>8
      <3>10. Cardinality(T) = Cardinality(S) + 1
        BY <2>2, <3>7, <3>9, FS_AddElement
      <3>11. refs'[n] = refs[n] + 1
        BY <1>11, <2>7
      <3> QED
        BY <2>1, <2>2, <3>1, <3>10, <3>11
    <2>8. CASE n \notin R
      <3>1. Own(param', n) = Own(param, n)
        BY <2>8, <1>5 DEF Own
      <3>2. ASSUME NEW k \in T \ S PROVE FALSE
        <4>1. k \in Paths /\ k \in Up(p) /\ Parent(k) = n /\ refs[k] = 0
          BY <2>4, <1>7
        <4>2. n \in Up(p) /\ Len(n) = Len(k) - 1
          BY <4>1, <2>4, <1>4, OnTheWay, ParentFacts
        <4>3. PICK y \in Up(p) : Len(y) > Len(n) /\ refs[y] # 0
          BY <2>8, <4>2 DEF Raised
        <4>4. Len(k) <= Len(y)
          BY <2>5, <4>1, <4>2, <4>3
        <4>5. k \in Up(y)
          BY <1>4, <4>1, <4>4, UpFacts
        <4>6. y \in Nodes /\ refs[y] > 0
          BY <1>5, <1>11, <4>3
        <4>7. refs[k] > 0
          BY <1>6, <4>5, <4>6
        <4> QED
          BY <4>1, <4>7
      <3>3. T = S
        BY <2>3, <3>2
      <3>4. refs'[n] = refs[n]
        BY <1>11, <2>8
      <3> QED
        BY <2>1, <3>1, <3>3, <3>4
    <2> QED
      BY <2>6, <2>7, <2>8
  <1> QED
    BY <1>10, <1>12, <1>13, <1>14, <1>15, <1>16, <1>17, Rebuilt

\* reference_down() for a node that loses its parameter.
LEMMA TreeDown ==
  ASSUME TreeInv, NEW p \in Paths, param[p] # None,
         ReferenceDown(p), kids' = kids,
         param \in [Paths -> Values \cup {None}], param' = [param EXCEPT ![p] = None]
  PROVE  TreeInv'
  <1> DEFINE R == Lowered(p)
             moved == {x \in R : refs[x] = 1}
  <1>1. /\ refs \in [Nodes -> Nat] /\ sValid \subseteq Paths /\ sGarbage \subseteq Paths
        /\ kids \subseteq Paths /\ IsFiniteSet(kids) /\ RefsCounted /\ TreeIntact
    BY DEF TreeInv
  <1>2. /\ sValid = {x \in Paths : refs[x] > 0} /\ sValid \cap sGarbage = {}
        /\ kids = sValid \cup sGarbage /\ \A x \in kids : Parent(x) \in kids \cup {Root}
    BY <1>1 DEF TreeIntact
  <1>3. /\ refs' = [n \in Nodes |-> IF n \in R THEN refs[n] - 1 ELSE refs[n]]
        /\ sValid' = sValid \ moved
        /\ sGarbage' = sGarbage \cup moved
    BY DEF ReferenceDown
  <1>4. p \in Nodes /\ p # Root
    BY ParentFacts
  <1>5. R \subseteq Up(p) /\ Up(p) \subseteq Nodes /\ p \in R
    <2>1. p \in Up(p) /\ \A y \in Up(p) : Len(y) \in 0..Len(p)
      BY <1>4, UpFacts
    <2>2. Len(p) \in Nat
      BY <1>4, PathSeq
    <2>3. \A y \in Up(p) : ~ (Len(y) > Len(p))
      BY <2>1, <2>2
    <2> QED
      BY <1>4, <2>1, <2>3, UpFacts DEF Lowered
  <1>6. /\ refs[p] > 0
        /\ \A x \in Up(p) : refs[x] > 0 /\ (x # Root => x \in kids)
    BY <1>4, Finding
  <1>7. \A k \in Up(p) : Len(k) \in Nat
    BY <1>5, PathSeq
  <1>8. \A x \in Up(p) : x # Root => x \in Paths
    BY <1>4, OnTheWay
  <1>9. \A n \in Nodes : refs'[n] = (IF n \in R THEN refs[n] - 1 ELSE refs[n]) /\ refs[n] \in Nat
    BY <1>1, <1>3
  <1>10. \A n \in R : refs[n] > 0
    BY <1>5, <1>6
  <1>11. refs' \in [Nodes -> Nat]
    BY <1>3, <1>9, <1>10
  <1>12. ASSUME NEW n \in Nodes
         PROVE  refs'[n] = Own(param', n) + Cardinality(Counting(refs', kids', n))
    <2> DEFINE S == Counting(refs, kids, n)
               T == Counting(refs', kids', n)
    <2>1. refs[n] = Own(param, n) + Cardinality(S)
      BY <1>1, Counted
    <2>2. IsFiniteSet(S) /\ Cardinality(S) \in Nat
      <3>1. S \subseteq kids
        BY DEF Counting
      <3> QED
        BY <1>1, <3>1, FS_Subset, FS_CardinalityType
    <2>3. T \subseteq S
      <3>1. ASSUME NEW k \in T PROVE k \in S
        <4>1. k \in kids /\ Parent(k) = n /\ refs'[k] > 0 /\ k \in Nodes
          BY <1>1 DEF Counting, Nodes
        <4>2. refs[k] > 0
          BY <1>9, <4>1
        <4> QED
          BY <4>1, <4>2 DEF Counting
      <3> QED
        BY <3>1
    <2>4. ASSUME NEW k \in S \ T
          PROVE  k \in R /\ refs[k] = 1 /\ k \in Up(p) \ {Root} /\ Parent(k) = n /\ k \in Paths
      <3>1. k \in kids /\ Parent(k) = n /\ refs[k] > 0 /\ k \in Paths /\ k \in Nodes
        BY <1>1 DEF Counting, Nodes
      <3>2. ~ (refs'[k] > 0)
        BY <3>1 DEF Counting
      <3>3. k \in R /\ refs[k] = 1
        BY <1>9, <3>1, <3>2
      <3> QED
        BY <1>5, <3>1, <3>3, ParentFacts
    <2>5. CASE n = p
      <3>1. Own(param, n) = 1 /\ Own(param', n) = 0
        BY <2>5, <1>4 DEF Own
      <3>2. ASSUME NEW k \in S \ T PROVE FALSE
        <4>1. Parent(k) = p /\ k \in Up(p) /\ k \in Paths
          BY <2>4, <2>5
        <4>2. Len(p) = Len(k) - 1 /\ Len(k) \in 0..Len(p) /\ Len(p) \in Nat
          BY <1>4, <4>1, ParentFacts, UpFacts, PathSeq
        <4> QED
          BY <4>2
      <3>3. T = S
        BY <2>3, <3>2
      <3>4. refs'[n] = refs[n] - 1
        BY <1>5, <1>9, <2>5
      <3> QED
        BY <2>1, <2>2, <3>1, <3>3, <3>4
    <2>6. CASE n \in R /\ n # p
      <3>1. Own(param', n) = Own(param, n) /\ Own(param, n) \in Nat
        BY <2>6 DEF Own
      <3>2. n \in Up(p) \ {p} /\ \A y \in Up(p) : Len(y) > Len(n) => refs[y] = 1
        BY <2>6 DEF Lowered
      <3>3. PICK c \in Up(p) : c \in Paths /\ Parent(c) = n /\ Len(c) = Len(n) + 1
        BY <1>4, <3>2, OnTheWay
      <3>4. Len(c) > Len(n) /\ \A y \in Up(p) : Len(y) > Len(c) => Len(y) > Len(n)
        BY <1>7, <3>2, <3>3
      <3>5. refs[c] = 1 /\ c \in R
        BY <3>2, <3>4 DEF Lowered
      <3>6. c # Root
        BY <3>3, ParentFacts
      <3>7. c \in S /\ c \notin T
        <4>1. refs'[c] = 0
          BY <1>9, <3>3, <3>5 DEF Nodes
        <4>2. c \in kids
          BY <1>6, <3>6
        <4> QED
          BY <3>3, <3>5, <4>1, <4>2 DEF Counting
      <3>8. \A k \in S \ T : k = c
        BY <2>4, <3>3, <3>6, <1>4, OnTheWay
      <3>9. T = S \ {c}
        BY <2>3, <3>7, <3>8
      <3>10. Cardinality(T) = Cardinality(S) - 1
        BY <2>2, <3>7, <3>9, FS_RemoveElement
      <3>11. refs'[n] = refs[n] - 1
        BY <1>9, <2>6
      <3> QED
        BY <2>1, <2>2, <3>1, <3>10, <3>11
    <2>7. CASE n \notin R
      <3>1. Own(param', n) = Own(param, n)
        BY <2>7, <1>5 DEF Own
      <3>2. ASSUME NEW k \in S \ T PROVE FALSE
        <4>1. k \in Paths /\ k \in Up(p) \ {Root} /\ Parent(k) = n /\ refs[k] = 1 /\ k \in R
          BY <2>4
        <4>2. n \in Up(p) /\ Len(n) = Len(k) - 1
          BY <4>1, <1>4, OnTheWay, ParentFacts
        <4>3. PICK y \in Up(p) : Len(y) > Len(n) /\ refs[y] # 1
          BY <2>7, <4>2 DEF Lowered
        <4>4. ~ (Len(y) > Len(k))
          BY <4>1, <4>3 DEF Lowered
        <4>5. Len(y) = Len(k)
          BY <1>7, <4>1, <4>2, <4>3, <4>4
        <4>6. y = k
          BY <1>4, <4>1, <4>5, UpFacts
        <4> QED
          BY <4>1, <4>3, <4>6
      <3>3. T = S
        BY <2>3, <3>2
      <3>4. refs'[n] = refs[n]
        BY <1>9, <2>7
      <3> QED
        BY <2>1, <3>1, <3>3, <3>4
    <2> QED
      BY <2>5, <2>6, <2>7
  <1>13. refs'[Root] > 0
    <2>1. Root \in Nodes /\ refs'[Root] = Own(param', Root) + Cardinality(Counting(refs', kids', Root))
      BY <1>12 DEF Nodes
    <2>2. Own(param', Root) = 1
      BY DEF Own
    <2>3. Cardinality(Counting(refs', kids', Root)) \in Nat
      <3>1. Counting(refs', kids', Root) \subseteq kids
        BY DEF Counting
      <3> QED
        BY <1>1, <3>1, FS_Subset, FS_CardinalityType
    <2> QED
      BY <2>1, <2>2, <2>3
  <1>14. moved \subseteq Up(p) \ {Root}
    <2>1. Root \in moved => refs'[Root] = 0
      BY <1>5, <1>9
    <2> QED
      BY <1>5, <1>13, <2>1
  <1>15. moved \subseteq kids /\ moved \subseteq Paths
    BY <1>6, <1>8, <1>14
  <1>16. sValid' = {x \in Paths : refs'[x] > 0}
    <2>1. ASSUME NEW x \in Paths PROVE refs'[x] > 0 <=> x \in sValid /\ x \notin moved
      <3>1. x \in Nodes
        BY DEF Nodes
      <3>2. x \in sValid <=> refs[x] > 0
        BY <1>2
      <3>3. refs'[x] = (IF x \in R THEN refs[x] - 1 ELSE refs[x]) /\ refs[x] \in Nat
        BY <1>9, <3>1
      <3> QED
        BY <3>2, <3>3
    <2> QED
      BY <1>1, <1>3, <2>1
  <1>17. sValid' \cap sGarbage' = {} /\ kids' = sValid' \cup sGarbage' /\ sGarbage' \subseteq Paths
    BY <1>1, <1>2, <1>3, <1>15
  <1> QED
    BY <1>1, <1>2, <1>11, <1>12, <1>16, <1>17, Rebuilt

\* Nodes that come or go without references leave the counts as they are.
LEMMA CountKept ==
  ASSUME TreeInv, refs' = refs, kids' \subseteq Paths,
         \A p \in Paths : param'[p] # None <=> param[p] # None,
         \A k \in Paths : refs[k] > 0 => (k \in kids <=> k \in kids')
  PROVE  \A n \in Nodes : refs'[n] = Own(param', n) + Cardinality(Counting(refs', kids', n))
  <1> SUFFICES ASSUME NEW n \in Nodes
               PROVE  refs'[n] = Own(param', n) + Cardinality(Counting(refs', kids', n))
    OBVIOUS
  <1>1. refs[n] = Own(param, n) + Cardinality(Counting(refs, kids, n)) /\ kids \subseteq Paths
    BY Counted DEF TreeInv
  <1>2. Counting(refs', kids', n) = Counting(refs, kids, n)
    BY <1>1 DEF Counting
  <1>3. Own(param', n) = Own(param, n)
    BY DEF Own
  <1> QED
    BY <1>1, <1>2, <1>3

\* A step that leaves the tree alone and stores or removes nothing.
LEMMA TreeSame ==
  ASSUME TreeInv, UNCHANGED tree, \A p \in Paths : param'[p] # None <=> param[p] # None
  PROVE  TreeInv'
  <1>1. refs' = refs /\ sValid' = sValid /\ sGarbage' = sGarbage /\ kids' = kids
    BY DEF tree
  <1>2. \A n \in Nodes : refs'[n] = Own(param', n) + Cardinality(Counting(refs', kids', n))
    BY <1>1, CountKept DEF TreeInv
  <1> QED
    BY <1>1, <1>2, Rebuilt DEF TreeInv, TreeIntact

\* A put() with a malformed name leaves garbage nodes behind, linked all the way.
LEMMA TreeMissing ==
  ASSUME TreeInv, NEW p \in Paths, PutMalformed(p)
  PROVE  TreeInv'
  <1>1. /\ kids' = kids \cup Missing(p) /\ sGarbage' = sGarbage \cup Missing(p)
        /\ refs' = refs /\ sValid' = sValid /\ param' = param
    BY DEF PutMalformed, params
  <1>2. /\ refs \in [Nodes -> Nat] /\ sValid \subseteq Paths /\ sGarbage \subseteq Paths
        /\ kids \subseteq Paths /\ IsFiniteSet(kids) /\ TreeIntact
    BY DEF TreeInv
  <1>3. /\ sValid = {x \in Paths : refs[x] > 0} /\ sValid \cap sGarbage = {}
        /\ kids = sValid \cup sGarbage /\ \A x \in kids : Parent(x) \in kids \cup {Root}
    BY <1>2 DEF TreeIntact
  <1>4. p \in Nodes
    BY ParentFacts
  <1>5. /\ Missing(p) \subseteq Up(p) \ {Root} /\ Up(p) \ {Root} \subseteq kids'
        /\ Missing(p) \subseteq Paths /\ Missing(p) \cap kids = {}
    BY <1>1, <1>4, OnTheWay DEF Missing
  <1>6. IsFiniteSet(kids')
    <2>1. IsFiniteSet(Up(p))
      BY <1>4, UpFinite
    <2>2. IsFiniteSet(Missing(p))
      BY <1>5, <2>1, FS_Subset
    <2> QED
      BY <1>1, <1>2, <2>2, FS_Union
  <1>7. \A n \in Nodes : refs'[n] = Own(param', n) + Cardinality(Counting(refs', kids', n))
    BY <1>1, <1>2, <1>3, <1>5, CountKept
  <1>8. \A x \in kids' : Parent(x) \in kids' \cup {Root}
    BY <1>1, <1>3, <1>4, <1>5, OnTheWay
  <1>9. kids' \subseteq Paths /\ sGarbage' \subseteq Paths
    BY <1>1, <1>2, <1>5
  <1>10. sValid' = {x \in Paths : refs'[x] > 0} /\ sValid' \cap sGarbage' = {} /\ kids' = sValid' \cup sGarbage'
    BY <1>1, <1>3, <1>5
  <1> QED
    BY <1>1, <1>2, <1>6, <1>7, <1>8, <1>9, <1>10, Rebuilt

\* gc() leaves the valid nodes, and no array with a destroyed one.
LEMMA TreeGc ==
  ASSUME TreeInv, Gc
  PROVE  TreeInv'
  <1>1. /\ kids' = {x \in kids : x \notin Unlinked /\ Parent(x) \notin sGarbage}
        /\ refs' = refs /\ sValid' = sValid /\ param' = param /\ sGarbage' = {}
    BY DEF Gc
  <1>2. /\ refs \in [Nodes -> Nat] /\ sValid \subseteq Paths /\ sGarbage \subseteq Paths
        /\ kids \subseteq Paths /\ IsFiniteSet(kids) /\ TreeIntact
    BY DEF TreeInv
  <1>3. /\ sValid = {x \in Paths : refs[x] > 0} /\ sValid \cap sGarbage = {}
        /\ kids = sValid \cup sGarbage /\ \A x \in kids : Parent(x) \in kids \cup {Root}
    BY <1>2 DEF TreeIntact
  <1>4. ASSUME NEW x \in sValid PROVE refs[Parent(x)] > 0 /\ Parent(x) \in sValid \cup {Root}
    <2>1. x \in Paths /\ x \in Nodes /\ refs[x] > 0 /\ Parent(x) \in Up(x) /\ Parent(x) \in Nodes
      BY <1>3, ParentFacts
    <2>2. refs[Parent(x)] > 0
      BY <2>1, Finding
    <2> QED
      BY <1>3, <2>1, <2>2 DEF Nodes
  <1>5. ASSUME NEW x \in sGarbage PROVE refs[Parent(x)] > 0 \/ Parent(x) \in sGarbage
    <2>1. Parent(x) \in kids \cup {Root}
      BY <1>3
    <2> QED
      BY <1>3, <2>1, Finding
  <1>6. Root \notin Paths
    BY KvtAssumption, PathSeq, ParentFacts
  <1>7. kids' = sValid
    <2>1. ASSUME NEW x \in sValid PROVE x \in kids'
      BY <1>1, <1>2, <1>3, <1>4, <1>6 DEF Unlinked
    <2>2. ASSUME NEW x \in kids' PROVE x \in sValid
      BY <1>1, <1>3, <1>5 DEF Unlinked
    <2> QED
      BY <2>1, <2>2
  <1>8. IsFiniteSet(kids') /\ kids' \subseteq Paths
    BY <1>1, <1>2, FS_Subset
  <1>9. \A n \in Nodes : refs'[n] = Own(param', n) + Cardinality(Counting(refs', kids', n))
    BY <1>1, <1>2, <1>3, <1>7, CountKept
  <1>10. \A x \in kids' : Parent(x) \in kids' \cup {Root}
    BY <1>4, <1>7
  <1>11. sValid' = {x \in Paths : refs'[x] > 0} /\ sValid' \cap sGarbage' = {} /\ kids' = sValid' \cup sGarbage'
    BY <1>1, <1>3, <1>7
  <1> QED
    BY <1>1, <1>2, <1>8, <1>9, <1>10, <1>11, Rebuilt

-----------------------------------------------------------------------------
(* The lists of changes                                                    *)

\* s holds the elements of S, each once
Holds(s, S) ==
  /\ \A i, j \in 1..Len(s) : s[i] = s[j] => i = j
  /\ {s[i] : i \in 1..Len(s)} = S

\* One sequence behind another.
LEMMA Behind ==
  ASSUME NEW a \in Seq(Paths), NEW b \in Seq(Paths)
  PROVE  /\ a \o b \in Seq(Paths) /\ Len(a \o b) = Len(a) + Len(b)
         /\ \A j \in 1..(Len(a) + Len(b)) : (a \o b)[j] = IF j <= Len(a) THEN a[j] ELSE b[j - Len(a)]
  OBVIOUS

\* unlink_list() closes the gap.
LEMMA WithoutIs ==
  ASSUME NEW s \in Seq(Paths), \A i, j \in 1..Len(s) : s[i] = s[j] => i = j,
         NEW k \in 1..Len(s)
  PROVE  /\ Without(s, s[k]) \in Seq(Paths) /\ Len(Without(s, s[k])) = Len(s) - 1
         /\ \A j \in 1..(Len(s) - 1) :
              Without(s, s[k])[j] = IF j < k THEN s[j] ELSE s[j + 1]
  <1> DEFINE a == SubSeq(s, 1, k - 1)
             b == SubSeq(s, k + 1, Len(s))
  <1>1. Len(s) \in Nat /\ k \in Nat /\ 1 <= k /\ k <= Len(s) /\ \A i \in 1..Len(s) : s[i] \in Paths
    OBVIOUS
  <1>2. Without(s, s[k]) = a \o b
    <2>1. \A i \in 1..Len(s) : s[i] = s[k] <=> i = k
      OBVIOUS
    <2> QED
      BY <2>1 DEF Without
  <1>3. a \in Seq(Paths) /\ Len(a) = k - 1 /\ \A j \in 1..(k - 1) : a[j] = s[j]
    BY <1>1
  <1>4. b \in Seq(Paths) /\ Len(b) = Len(s) - k /\ \A j \in 1..(Len(s) - k) : b[j] = s[k + j]
    BY <1>1
  <1> HIDE DEF a, b
  <1>5. /\ a \o b \in Seq(Paths) /\ Len(a \o b) = Len(a) + Len(b)
        /\ \A j \in 1..(Len(a) + Len(b)) : (a \o b)[j] = IF j <= Len(a) THEN a[j] ELSE b[j - Len(a)]
    BY <1>3, <1>4, Behind
  <1>7. Len(a) + Len(b) = Len(s) - 1
    BY <1>1, <1>3, <1>4
  <1>6. ASSUME NEW j \in 1..(Len(s) - 1)
        PROVE  (a \o b)[j] = IF j < k THEN s[j] ELSE s[j + 1]
    <2>1. (a \o b)[j] = IF j <= Len(a) THEN a[j] ELSE b[j - Len(a)]
      BY <1>5, <1>7
    <2>2. CASE j < k
      <3>1. j \in 1..(k - 1) /\ j <= k - 1
        BY <1>1, <2>2
      <3> QED
        BY <1>3, <2>1, <2>2, <3>1
    <2>3. CASE ~ (j < k)
      <3>1. j - (k - 1) \in 1..(Len(s) - k) /\ k + (j - (k - 1)) = j + 1 /\ ~ (j <= k - 1)
        BY <1>1, <2>3
      <3>2. b[j - (k - 1)] = s[j + 1]
        BY <1>4, <3>1
      <3> QED
        BY <1>3, <2>1, <2>3, <3>1, <3>2
    <2> QED
      BY <2>2, <2>3
  <1> QED
    BY <1>2, <1>5, <1>6, <1>7

\* unlink_list() takes a change off a list, and no other.
LEMMA WithoutHolds ==
  ASSUME NEW s \in Seq(Paths), NEW S, Holds(s, S), NEW p
  PROVE  Without(s, p) \in Seq(Paths) /\ Holds(Without(s, p), S \ {p})
  <1>1. /\ \A i, j \in 1..Len(s) : s[i] = s[j] => i = j
        /\ {s[i] : i \in 1..Len(s)} = S
    BY DEF Holds
  <1>2. CASE p \notin S
    <2>1. ~ \E i \in 1..Len(s) : s[i] = p
      BY <1>1, <1>2
    <2>2. Without(s, p) = s /\ S \ {p} = S
      BY <1>2, <2>1 DEF Without
    <2> QED
      BY <2>2
  <1>3. CASE p \in S
    <2>1. PICK k \in 1..Len(s) : s[k] = p
      BY <1>1, <1>3
    <2> DEFINE t == Without(s, p)
    <2>2. /\ t \in Seq(Paths) /\ Len(t) = Len(s) - 1
          /\ \A j \in 1..(Len(s) - 1) : t[j] = IF j < k THEN s[j] ELSE s[j + 1]
      BY <1>1, <2>1, WithoutIs
    <2> HIDE DEF t
    <2>3. Len(s) \in Nat /\ k \in 1..Len(s) /\ 1..Len(t) = 1..(Len(s) - 1)
      BY <2>2
    <2>4. \A i, j \in 1..Len(t) : t[i] = t[j] => i = j
      <3> SUFFICES ASSUME NEW i \in 1..Len(t), NEW j \in 1..Len(t), t[i] = t[j] PROVE i = j
        OBVIOUS
      <3>1. PICK x \in 1..Len(s) : x = (IF i < k THEN i ELSE i + 1)
        BY <2>3
      <3>2. PICK y \in 1..Len(s) : y = (IF j < k THEN j ELSE j + 1)
        BY <2>3
      <3>3. t[i] = s[x] /\ t[j] = s[y]
        BY <2>2, <3>1, <3>2
      <3>4. x = y
        BY <1>1, <3>3
      <3> QED
        BY <2>3, <3>1, <3>2, <3>4
    <2>5. ASSUME NEW j \in 1..Len(t) PROVE t[j] \in S \ {p}
      <3>1. PICK u \in 1..Len(s) : u = (IF j < k THEN j ELSE j + 1)
        BY <2>3
      <3>2. u # k
        BY <2>3, <3>1
      <3>3. t[j] = s[u]
        BY <2>2, <3>1
      <3> QED
        BY <1>1, <2>1, <3>2, <3>3
    <2>6. ASSUME NEW x \in S \ {p} PROVE \E j \in 1..Len(t) : t[j] = x
      <3>1. PICK i \in 1..Len(s) : s[i] = x
        BY <1>1
      <3>2. i # k
        BY <2>1, <2>6, <3>1
      <3>3. CASE i < k
        <4>1. i \in 1..Len(t)
          BY <2>3, <3>3
        <4>2. t[i] = x
          BY <2>2, <3>1, <3>3, <4>1
        <4> QED
          BY <4>1, <4>2
      <3>4. CASE i > k
        <4>1. i - 1 \in 1..Len(t) /\ ~ (i - 1 < k) /\ i - 1 + 1 = i
          BY <2>3, <3>4
        <4>2. t[i - 1] = x
          BY <2>2, <3>1, <4>1
        <4> QED
          BY <4>1, <4>2
      <3> QED
        BY <2>3, <3>2, <3>3, <3>4
    <2>7. {t[j] : j \in 1..Len(t)} = S \ {p}
      BY <2>5, <2>6
    <2> QED
      BY <2>2, <2>4, <2>7 DEF Holds, t
  <1> QED
    BY <1>2, <1>3

\* link_list() puts a change before the others.
LEMMA LinkedHolds ==
  ASSUME NEW s \in Seq(Paths), NEW S, Holds(s, S), NEW p \in Paths, p \notin S
  PROVE  <<p>> \o s \in Seq(Paths) /\ Holds(<<p>> \o s, S \cup {p})
  <1> DEFINE t == <<p>> \o s
  <1>1. /\ \A i, j \in 1..Len(s) : s[i] = s[j] => i = j
        /\ {s[i] : i \in 1..Len(s)} = S
        /\ Len(s) \in Nat
    BY DEF Holds
  <1>2. t \in Seq(Paths) /\ Len(t) = Len(s) + 1 /\ t[1] = p
    OBVIOUS
  <1>3. \A i \in 2..Len(t) : t[i] = s[i - 1] /\ i - 1 \in 1..Len(s)
    BY <1>1, <1>2
  <1> HIDE DEF t
  <1>4. ASSUME NEW i \in 1..Len(t) PROVE t[i] \in S \cup {p} /\ (t[i] = p <=> i = 1)
    <2>1. CASE i = 1
      BY <1>2, <2>1
    <2>2. CASE i # 1
      <3>1. i \in 2..Len(t)
        BY <1>1, <1>2, <2>2
      <3>2. t[i] \in S
        BY <1>1, <1>3, <3>1
      <3> QED
        BY <2>2, <3>2
    <2> QED
      BY <2>1, <2>2
  <1>5. ASSUME NEW i \in 1..Len(t), NEW j \in 1..Len(t), t[i] = t[j] PROVE i = j
    <2>1. CASE i = 1 \/ j = 1
      BY <1>2, <1>4, <1>5, <2>1
    <2>2. CASE i # 1 /\ j # 1
      <3>1. i \in 2..Len(t) /\ j \in 2..Len(t)
        BY <1>1, <1>2, <2>2
      <3>2. i - 1 = j - 1
        BY <1>1, <1>3, <1>5, <3>1
      <3> QED
        BY <1>1, <1>2, <3>2
    <2> QED
      BY <2>1, <2>2
  <1>6. ASSUME NEW x \in S PROVE \E i \in 1..Len(t) : t[i] = x
    <2>1. PICK i \in 1..Len(s) : s[i] = x
      BY <1>1
    <2>2. i + 1 \in 2..Len(t) /\ i + 1 \in 1..Len(t) /\ i + 1 - 1 = i
      BY <1>1, <1>2
    <2>3. t[i + 1] = x
      BY <1>3, <2>1, <2>2
    <2> QED
      BY <2>2, <2>3
  <1>7. 1 \in 1..Len(t)
    BY <1>1, <1>2
  <1>8. {t[i] : i \in 1..Len(t)} = S \cup {p}
    BY <1>2, <1>4, <1>6, <1>7
  <1> QED
    BY <1>2, <1>5, <1>8 DEF Holds, t

\* PendingListed in these terms.
LEMMA Listed ==
  PendingListed <=>
    \A f \in Flags : /\ Holds(list[f], {q \in Paths : f \in pending[q]})
                     /\ \A q \in Paths : f \in pending[q] => param[q] # None
  BY DEF PendingListed, Holds

\* The same after a step.
LEMMA ListedNext ==
  ASSUME pending' \in [Paths -> SUBSET Flags], list' \in [Flags -> Seq(Paths)],
         \A f \in Flags : /\ Holds(list'[f], {q \in Paths : f \in pending'[q]})
                          /\ \A q \in Paths : f \in pending'[q] => param'[q] # None
  PROVE  ListInv'
  BY DEF ListInv, PendingListed, Holds

\* set_pending_state() keeps flags and lists in step.
LEMMA ListSet ==
  ASSUME ListInv, NEW p \in Paths, NEW fl \in SUBSET Flags, SetPending(p, fl),
         \A q \in Paths : q # p /\ param[q] # None => param'[q] # None,
         fl # {} => param'[p] # None
  PROVE  ListInv'
  <1>1. pending \in [Paths -> SUBSET Flags] /\ list \in [Flags -> Seq(Paths)]
    BY DEF ListInv
  <1>2. \A f \in Flags : /\ Holds(list[f], {q \in Paths : f \in pending[q]})
                         /\ \A q \in Paths : f \in pending[q] => param[q] # None
    BY Listed DEF ListInv
  <1>3. pending' = [pending EXCEPT ![p] = fl] /\ list' = [f \in Flags |-> Relinked(list[f], f, p, fl)]
    BY DEF SetPending
  <1>4. pending' \in [Paths -> SUBSET Flags]
        /\ \A q \in Paths : pending'[q] = IF q = p THEN fl ELSE pending[q]
    BY <1>1, <1>3
  <1>5. ASSUME NEW f \in Flags
        PROVE  /\ list'[f] \in Seq(Paths)
               /\ Holds(list'[f], {q \in Paths : f \in pending'[q]})
               /\ \A q \in Paths : f \in pending'[q] => param'[q] # None
    <2> DEFINE S == {q \in Paths : f \in pending[q]}
               T == {q \in Paths : f \in pending'[q]}
    <2>1. list[f] \in Seq(Paths) /\ Holds(list[f], S) /\ list'[f] = Relinked(list[f], f, p, fl)
      BY <1>1, <1>2, <1>3
    <2>2. (p \in S <=> f \in pending[p]) /\ (p \in T <=> f \in fl)
      BY <1>4
    <2>3. CASE (f \in pending[p]) = (f \in fl)
      <3>1. S = T
        BY <1>4, <2>3
      <3>2. list'[f] = list[f]
        BY <2>1, <2>3 DEF Relinked
      <3> QED
        BY <1>2, <1>4, <2>1, <3>1, <3>2
    <2>4. CASE f \in fl /\ f \notin pending[p]
      <3>1. T = S \cup {p} /\ p \notin S
        BY <1>4, <2>4
      <3>2. list'[f] = <<p>> \o list[f]
        BY <2>1, <2>4 DEF Relinked
      <3>3. list'[f] \in Seq(Paths) /\ Holds(list'[f], T)
        <4> HIDE DEF S, T
        <4> QED
          BY <2>1, <3>1, <3>2, LinkedHolds
      <3> QED
        BY <1>2, <1>4, <3>3
    <2>5. CASE f \notin fl /\ f \in pending[p]
      <3>1. T = S \ {p}
        BY <1>4, <2>5
      <3>2. list'[f] = Without(list[f], p)
        BY <2>1, <2>5 DEF Relinked
      <3>3. list'[f] \in Seq(Paths) /\ Holds(list'[f], T)
        <4> HIDE DEF S, T
        <4> QED
          BY <2>1, <3>1, <3>2, WithoutHolds
      <3> QED
        BY <1>2, <1>4, <3>3
    <2> QED
      BY <2>3, <2>4, <2>5
  <1>6. list' \in [Flags -> Seq(Paths)]
    BY <1>3, <1>5
  <1> QED
    BY <1>4, <1>5, <1>6, ListedNext

\* A step that changes no flag and removes nothing.
LEMMA ListSame ==
  ASSUME ListInv, pending' = pending, list' = list,
         \A q \in Paths : param[q] # None => param'[q] # None
  PROVE  ListInv'
  BY Listed, ListedNext DEF ListInv

\* commit_all() commits every change with one of the flags.
LEMMA CommitAllIs ==
  ASSUME ListInv, NEW f \in SUBSET Flags, CommitAll(f)
  PROVE  pending' = [p \in Paths |-> pending[p] \ f]
  <1>1. \A g \in Flags : {list[g][i] : i \in 1..Len(list[g])} = {q \in Paths : g \in pending[q]}
    BY DEF ListInv, PendingListed
  <1>2. \A p \in Paths, g \in f : (\E i \in 1..Len(list[g]) : list[g][i] = p) <=> g \in pending[p]
    BY <1>1
  <1>3. \A p \in Paths : pending[p] \ {g \in f : \E i \in 1..Len(list[g]) : list[g][i] = p} = pending[p] \ f
    BY <1>2
  <1> QED
    BY <1>3 DEF CommitAll

\* commit_all() empties the lists of these flags.
LEMMA ListCommitAll ==
  ASSUME ListInv, NEW f \in SUBSET Flags, CommitAll(f)
  PROVE  ListInv'
  <1>1. pending \in [Paths -> SUBSET Flags] /\ list \in [Flags -> Seq(Paths)]
    BY DEF ListInv
  <1>2. \A g \in Flags : /\ Holds(list[g], {q \in Paths : g \in pending[q]})
                         /\ \A q \in Paths : g \in pending[q] => param[q] # None
    BY Listed DEF ListInv
  <1>3. /\ pending' = [p \in Paths |-> pending[p] \ f]
        /\ list' = [g \in Flags |-> IF g \in f THEN <<>> ELSE list[g]]
        /\ param' = param
    BY CommitAllIs DEF CommitAll
  <1>4. pending' \in [Paths -> SUBSET Flags] /\ list' \in [Flags -> Seq(Paths)]
    BY <1>1, <1>3
  <1>5. ASSUME NEW g \in Flags
        PROVE  /\ Holds(list'[g], {q \in Paths : g \in pending'[q]})
               /\ \A q \in Paths : g \in pending'[q] => param'[q] # None
    <2>1. CASE g \in f
      <3>1. {q \in Paths : g \in pending'[q]} = {} /\ list'[g] = <<>>
        BY <1>3, <2>1
      <3> QED
        BY <3>1 DEF Holds
    <2>2. CASE g \notin f
      <3>1. {q \in Paths : g \in pending'[q]} = {q \in Paths : g \in pending[q]} /\ list'[g] = list[g]
        BY <1>3, <2>2
      <3> QED
        BY <1>2, <1>3, <3>1
    <2> QED
      BY <2>1, <2>2
  <1> QED
    BY <1>4, <1>5, ListedNext

\* gc() finds no garbage node on the lists.
LEMMA ListGc ==
  ASSUME TreeInv, ListInv, Gc
  PROVE  list' = list /\ ListInv'
  <1>1. list \in [Flags -> Seq(Paths)] /\ pending' = pending /\ param' = param
        /\ list' = [f \in Flags |-> Purged(list[f])]
    BY DEF ListInv, Gc
  <1>2. ASSUME NEW f \in Flags PROVE Purged(list[f]) = list[f]
    <2>1. ASSUME NEW i \in 1..Len(list[f]) PROVE list[f][i] \notin sGarbage
      <3>1. list[f][i] \in Paths /\ f \in pending[list[f][i]]
        BY DEF ListInv, PendingListed
      <3>2. refs[list[f][i]] > 0
        BY <3>1, Finding DEF ListInv, PendingListed
      <3> QED
        BY <3>1, <3>2 DEF TreeInv, TreeIntact
    <2> QED
      BY <2>1 DEF Purged
  <1>3. list' = list
    BY <1>1, <1>2
  <1> QED
    BY <1>1, <1>3, ListSame

-----------------------------------------------------------------------------
(* The pass and the jobs                                                   *)

\* A call by someone else ends the claim of a pass.
LEMMA PassReset ==
  ASSUME Idle, UNCHANGED job, Disturb
  PROVE  PassInv'
  BY DEF Idle, NoJob, Disturb, PassInv, JobKnown, PassKnown, TxPassComplete

\* A job has stored parameters to visit, and no pass a claim.
LEMMA JobMade ==
  ASSUME todo' = {}, NEW S, NEW op \in {"remove", "touch"}, NEW f, job' = Job(op, S, f),
         \A q \in S : param'[q] # None
  PROVE  PassInv'
  <1>2. CASE S = {}
    <2>1. job' = NoJob
      BY <1>2 DEF Job
    <2> QED
      BY <2>1 DEF NoJob, PassInv, JobKnown, PassKnown, TxPassComplete
  <1>3. CASE S # {}
    <2>1. job' = [op |-> op, nodes |-> S, flags |-> f]
      BY <1>3 DEF Job
    <2>2. JobKnown'
      BY <1>3, <2>1 DEF JobKnown
    <2> QED
      BY <2>2 DEF PassInv, PassKnown, TxPassComplete
  <1> QED
    BY <1>2, <1>3

\* While a job runs no pass has a claim.
LEMMA JobAlone ==
  ASSUME PassInv, job # NoJob
  PROVE  todo = {} /\ \A p \in job.nodes : param[p] # None
  BY DEF PassInv, PassKnown, JobKnown

\* What Job() makes has the type of a job.
LEMMA JobType ==
  ASSUME NEW S \in SUBSET Paths, NEW op \in {"none", "remove", "touch"}, NEW f \in SUBSET Flags
  PROVE  /\ Job(op, S, f) \in [op : {"none", "remove", "touch"}, nodes : SUBSET Paths, flags : SUBSET Flags]
         /\ NoJob \in [op : {"none", "remove", "touch"}, nodes : SUBSET Paths, flags : SUBSET Flags]
  BY DEF Job, NoJob

\* enum_tx_pending() starts at the head of the list.
LEMMA PassStart ==
  ASSUME ListInv, Idle, UNCHANGED job, EnumTx
  PROVE  PassInv' /\ iter' \in [mode : {"none", "run", "eof"}, curr : Paths \cup {None}, next : Paths \cup {None}]
  <1> DEFINE s == list["tx"]
  <1>1. "tx" \in Flags
    BY DEF Flags
  <1>2. s \in Seq(Paths) /\ {s[i] : i \in 1..Len(s)} = {p \in Paths : "tx" \in pending[p]}
    BY <1>1 DEF ListInv, PendingListed
  <1>3. /\ iter' = [mode |-> "run", curr |-> None, next |-> IF s = <<>> THEN None ELSE Head(s)]
        /\ todo' = {p \in Paths : "tx" \in pending[p]} /\ list' = list
    BY DEF EnumTx, params
  <1>4. JobKnown'
    BY DEF Idle, NoJob, JobKnown
  <1>5. TxPassComplete'
    BY <1>3 DEF TxPassComplete
  <1>6. ASSUME todo' # {} PROVE s # <<>> /\ 1 \in 1..Len(s) /\ Head(s) = s[1] /\ s[1] \in Paths
    BY <1>2, <1>3, <1>6
  <1>7. PassKnown'
    <2> SUFFICES ASSUME todo' # {} PROVE PassKnown'
      BY DEF PassKnown
    <2>1. None \notin todo'
      BY <1>3, KvtAssumption
    <2>2. todo' = {s[j] : j \in 1..Len(s)}
      BY <1>2, <1>3
    <2> QED
      BY <1>3, <1>6, <2>1, <2>2 DEF PassKnown, Idle
  <1>8. s # <<>> => Head(s) \in Paths
    BY <1>2
  <1> QED
    BY <1>3, <1>4, <1>5, <1>7, <1>8 DEF PassInv

\* The node behind the one at an index of a list without repetitions.
LEMMA FollowingIs ==
  ASSUME NEW s \in Seq(Paths), \A i, j \in 1..Len(s) : s[i] = s[j] => i = j,
         NEW i \in 1..Len(s)
  PROVE  Following(s, s[i]) = IF i < Len(s) THEN s[i + 1] ELSE None
  <1> DEFINE after == {j \in 1..Len(s) - 1 : s[j] = s[i]}
  <1>1. Len(s) \in Nat
    OBVIOUS
  <1>2. CASE i < Len(s)
    <2>1. after = {i}
      BY <1>1, <1>2
    <2>2. (CHOOSE j \in after : TRUE) = i
      BY <2>1
    <2> QED
      BY <1>2, <2>1, <2>2 DEF Following
  <1>3. CASE ~ (i < Len(s))
    <2>1. \A j \in 1..Len(s) - 1 : j \in 1..Len(s) /\ j # i
      BY <1>1, <1>3
    <2>2. after = {}
      BY <2>1
    <2> QED
      BY <1>3, <2>2 DEF Following
  <1> QED
    BY <1>2, <1>3

\* Following() is a node or none.
LEMMA FollowingType ==
  ASSUME NEW s \in Seq(Paths), NEW p
  PROVE  Following(s, p) \in Paths \cup {None}
  <1> DEFINE after == {j \in 1..Len(s) - 1 : s[j] = p}
  <1>1. CASE after = {}
    BY <1>1 DEF Following
  <1>2. CASE after # {}
    <2>1. PICK j \in after : j = (CHOOSE x \in after : TRUE)
      BY <1>2
    <2>2. j + 1 \in 1..Len(s)
      OBVIOUS
    <2> QED
      BY <1>2, <2>1, <2>2 DEF Following
  <1> QED
    BY <1>1, <1>2

\* next() takes the next change, and ends only when none is left to meet.
LEMMA PassNext ==
  ASSUME TreeInv, ListInv, RestType, PassInv, Idle, UNCHANGED job, IterNext
  PROVE  /\ PassInv'
         /\ iter' \in [mode : {"none", "run", "eof"}, curr : Paths \cup {None}, next : Paths \cup {None}]
         /\ todo' \subseteq Paths
  <1> DEFINE s == list["tx"]
             p == iter.next
  <1>1. s \in Seq(Paths) /\ list' = list /\ Len(s) \in Nat
        /\ (\A i, j \in 1..Len(s) : s[i] = s[j] => i = j)
        /\ {s[i] : i \in 1..Len(s)} = {q \in Paths : "tx" \in pending[q]}
    BY DEF ListInv, PendingListed, IterNext, params, Flags
  <1>2. /\ iter \in [mode : {"none", "run", "eof"}, curr : Paths \cup {None}, next : Paths \cup {None}]
        /\ todo \subseteq Paths /\ iter.mode = "run" /\ p \in Paths \cup {None}
    BY DEF RestType, IterNext
  <1>3. JobKnown' /\ job' = NoJob
    BY DEF Idle, NoJob, JobKnown
  <1>4. todo # {} => \E i \in 1..Len(s) : s[i] = p /\ todo = {s[j] : j \in i..Len(s)}
    BY DEF PassInv, PassKnown
  <1>5. CASE p = None \/ (p # None /\ "tx" \notin pending[p])
    <2>1. iter' = [iter EXCEPT !.mode = "eof", !.curr = p] /\ todo' = todo
      BY <1>5 DEF IterNext
    <2>2. ASSUME todo # {} PROVE FALSE
      <3>1. PICK i \in 1..Len(s) : s[i] = p
        BY <1>4, <2>2
      <3>2. p \in Paths /\ "tx" \in pending[p]
        BY <1>1, <3>1
      <3>3. p # None
        BY <3>2, KvtAssumption
      <3> QED
        BY <1>5, <3>2, <3>3
    <2> QED
      BY <1>2, <1>3, <2>1, <2>2 DEF PassInv, PassKnown, TxPassComplete
  <1>6. CASE ~ (p = None \/ (p # None /\ "tx" \notin pending[p]))
    <2>1. iter' = [iter EXCEPT !.curr = p, !.next = Following(s, p)] /\ todo' = todo \ {p}
      BY <1>6 DEF IterNext, NextOf
    <2>2. Following(s, p) \in Paths \cup {None}
      BY <1>1, FollowingType
    <2> HIDE DEF s, p
    <2>3. iter'.mode = "run" /\ iter'.curr = p /\ iter'.next = Following(s, p)
          /\ iter' \in [mode : {"none", "run", "eof"}, curr : Paths \cup {None}, next : Paths \cup {None}]
      BY <1>2, <2>1, <2>2
    <2>4. ASSUME todo' # {}
          PROVE  \E i \in 1..Len(s) : s[i] = iter'.next /\ todo' = {s[j] : j \in i..Len(s)}
      <3>1. PICK i \in 1..Len(s) : s[i] = p /\ todo = {s[j] : j \in i..Len(s)}
        BY <1>4, <2>1, <2>4
      <3>2. todo' = {s[j] : j \in (i + 1)..Len(s)}
        <4>1. ASSUME NEW x \in todo' PROVE \E j \in (i + 1)..Len(s) : s[j] = x
          <5>1. PICK j \in i..Len(s) : s[j] = x
            BY <2>1, <3>1
          <5>2. j # i
            BY <2>1, <3>1, <5>1
          <5>3. j \in (i + 1)..Len(s)
            BY <1>1, <5>2
          <5> QED
            BY <5>1, <5>3
        <4>2. ASSUME NEW j \in (i + 1)..Len(s) PROVE s[j] \in todo'
          <5>1. j \in i..Len(s) /\ j \in 1..Len(s) /\ j # i
            BY <1>1
          <5>2. s[j] # p /\ s[j] \in todo
            BY <1>1, <3>1, <5>1
          <5> QED
            BY <2>1, <5>2
        <4> QED
          BY <4>1, <4>2
      <3>3. i < Len(s)
        BY <1>1, <2>4, <3>2
      <3>4. Following(s, p) = s[i + 1]
        BY <1>1, <3>1, <3>3, FollowingIs
      <3>5. i + 1 \in 1..Len(s)
        BY <1>1, <3>3
      <3> QED
        BY <2>3, <3>2, <3>4, <3>5
    <2>5. PassKnown'
      BY <1>1, <1>3, <2>1, <2>3, <2>4 DEF PassKnown, s
    <2>6. TxPassComplete'
      BY <2>3 DEF TxPassComplete
    <2> QED
      BY <1>2, <1>3, <2>1, <2>3, <2>5, <2>6 DEF PassInv
  <1> QED
    BY <1>5, <1>6

\* commit() of the change the pass met leaves those it has yet to meet in line.
LEMMA PassCommit ==
  ASSUME ListInv, RestType, PassInv, Idle, UNCHANGED job, IterCommit
  PROVE  PassInv'
  <1> DEFINE s == list["tx"]
             p == iter.curr
  <1>1. s \in Seq(Paths) /\ Len(s) \in Nat
        /\ (\A i, j \in 1..Len(s) : s[i] = s[j] => i = j)
        /\ {s[i] : i \in 1..Len(s)} = {q \in Paths : "tx" \in pending[q]}
    <2>1. "tx" \in Flags
      BY DEF Flags
    <2>2. s \in Seq(Paths)
      BY <2>1 DEF ListInv
    <2>3. (\A i, j \in 1..Len(s) : s[i] = s[j] => i = j)
          /\ {s[i] : i \in 1..Len(s)} = {q \in Paths : "tx" \in pending[q]}
      BY <2>1 DEF ListInv, PendingListed
    <2> QED
      BY <2>2, <2>3
  <1>2. iter.mode = "run" /\ iter' = iter /\ todo' = todo /\ p \in Paths
    BY DEF RestType, IterCommit
  <1>3. JobKnown' /\ job' = NoJob
    BY DEF Idle, NoJob, JobKnown
  <1>4. TxPassComplete'
    BY <1>2 DEF TxPassComplete
  <1>5. list'["tx"] = IF "tx" \in pending[p] THEN Without(s, p) ELSE s
    BY DEF IterCommit, SetPending, Relinked, Flags
  <1>6. ASSUME todo # {}
        PROVE  \E i \in 1..Len(list'["tx"]) :
                 /\ list'["tx"][i] = iter.next
                 /\ todo = {list'["tx"][j] : j \in i..Len(list'["tx"])}
    <2>1. p \notin todo
      BY <1>6 DEF PassInv, PassKnown
    <2>2. PICK i \in 1..Len(s) : s[i] = iter.next /\ todo = {s[j] : j \in i..Len(s)}
      BY <1>6 DEF PassInv, PassKnown
    <2>3. CASE "tx" \notin pending[p]
      BY <1>5, <2>2, <2>3
    <2>4. CASE "tx" \in pending[p]
      <3>1. PICK k \in 1..Len(s) : s[k] = p
        BY <1>1, <1>2, <2>4
      <3> DEFINE t == Without(s, p)
      <3>2. /\ Len(t) = Len(s) - 1
            /\ \A j \in 1..(Len(s) - 1) : t[j] = IF j < k THEN s[j] ELSE s[j + 1]
        <4> HIDE DEF s, p
        <4> QED
          BY <1>1, <3>1, WithoutIs
      <3>3. k < i
        <4>1. k \notin i..Len(s)
          BY <2>1, <2>2, <3>1
        <4> QED
          BY <1>1, <4>1
      <3>4. list'["tx"] = t
        BY <1>5, <2>4
      <3> HIDE DEF s, t, p
      <3>5. \A j \in i..Len(s) : j - 1 \in 1..(Len(s) - 1) /\ ~ (j - 1 < k) /\ j - 1 + 1 = j /\ j - 1 \in (i - 1)..Len(t)
        BY <1>1, <3>2, <3>3
      <3>6. \A j \in i..Len(s) : t[j - 1] = s[j]
        BY <3>2, <3>5
      <3>7. \A j \in (i - 1)..Len(t) : j + 1 \in i..Len(s) /\ j + 1 - 1 = j
        BY <1>1, <3>2
      <3>8. i \in i..Len(s) /\ i - 1 \in 1..Len(t)
        BY <1>1, <3>2, <3>3
      <3>9. {t[j] : j \in (i - 1)..Len(t)} = {s[j] : j \in i..Len(s)}
        <4> DEFINE A == {t[j] : j \in (i - 1)..Len(t)}
                   B == {s[j] : j \in i..Len(s)}
        <4>1. ASSUME NEW x \in A PROVE x \in B
          <5>1. PICK j \in (i - 1)..Len(t) : x = t[j]
            OBVIOUS
          <5>2. j + 1 \in i..Len(s) /\ x = s[j + 1]
            BY <3>6, <3>7, <5>1
          <5> QED
            BY <5>2
        <4>2. ASSUME NEW x \in B PROVE x \in A
          <5>1. PICK m \in i..Len(s) : x = s[m]
            OBVIOUS
          <5>2. m - 1 \in (i - 1)..Len(t) /\ x = t[m - 1]
            BY <3>5, <3>6, <5>1
          <5> QED
            BY <5>2
        <4> HIDE DEF A, B
        <4>3. A = B
          BY <4>1, <4>2
        <4> QED
          BY <4>3 DEF A, B
      <3>10. t[i - 1] = iter.next
        BY <2>2, <3>6, <3>8
      <3>11. todo = {t[j] : j \in (i - 1)..Len(t)}
        BY <2>2, <3>9
      <3>12. \E m \in 1..Len(t) : t[m] = iter.next /\ todo = {t[j] : j \in m..Len(t)}
        BY <3>8, <3>10, <3>11
      <3> QED
        BY <3>4, <3>12
    <2> QED
      BY <2>3, <2>4
  <1>7. PassKnown'
    BY <1>2, <1>3, <1>6 DEF PassInv, PassKnown
  <1> QED
    BY <1>3, <1>4, <1>7 DEF PassInv

-----------------------------------------------------------------------------
(* The inductive invariant                                                 *)

\* The parts make the invariant after a step, too.
LEMMA PartsNext == TreeInv' /\ ListInv' /\ RestType' /\ PassInv' => IInv'
  BY DEF IInv, TypeOK, TreeInv, ListInv, RestType, PassInv

\* The root is not among the nodes below it.
LEMMA RootApart == Root \notin Paths /\ Nodes = Paths \cup {Root}
  BY ParentFacts DEF Nodes

\* The empty storage satisfies the invariant.
LEMMA Initially == Init => IInv
  <1> SUFFICES ASSUME Init PROVE IInv
    OBVIOUS
  <1>1. \A n \in Nodes : Counting(refs, kids, n) = {} /\ Cardinality({}) = 0
    BY FS_EmptySet DEF Init, Counting
  <1>2. \A n \in Nodes : refs[n] = Own(param, n) + Cardinality(Counting(refs, kids, n))
    <2> SUFFICES ASSUME NEW n \in Nodes
                 PROVE  refs[n] = Own(param, n) + Cardinality(Counting(refs, kids, n))
      OBVIOUS
    <2>1. refs[n] = Own(param, n) /\ refs[n] \in Nat
      BY DEF Init, Own
    <2>2. Cardinality(Counting(refs, kids, n)) = 0
      BY <1>1
    <2> QED
      BY <2>1, <2>2
  <1>3. TreeInv
    <2>1. TreeIntact
      BY RootApart DEF Init, TreeIntact
    <2>2. IsFiniteSet(kids)
      BY FS_EmptySet DEF Init
    <2> QED
      BY <1>2, <2>1, <2>2, Counted DEF TreeInv, Init
  <1>4. ListInv
    BY DEF ListInv, PendingListed, Init
  <1>5. RestType
    BY JobType DEF RestType, Init, NoIter
  <1>6. PassInv
    BY DEF PassInv, JobKnown, PassKnown, TxPassComplete, Init, NoJob
  <1> QED
    BY <1>3, <1>4, <1>5, <1>6, Parts

\* commit_parameter() for a new parameter.
LEMMA StepPutNew ==
  ASSUME TreeInv, ListInv, RestType, NEW p \in Paths, NEW v \in Values, NEW prv \in BOOLEAN,
         NEW f \in SUBSET Flags, PutNew(p, v, prv, f)
  PROVE  TreeInv' /\ ListInv'
  <1>1. param \in [Paths -> Values \cup {None}] /\ v # None
    BY KvtAssumption DEF RestType
  <1>2. /\ param[p] = None /\ ReferenceUp(p, Missing(p)) /\ kids' = kids \cup Missing(p)
        /\ param' = [param EXCEPT ![p] = v] /\ SetPending(p, pending[p] \cup f)
    BY DEF PutNew
  <1>3. TreeInv'
    BY <1>1, <1>2, TreeUp
  <1>4. pending[p] \cup f \in SUBSET Flags
    BY DEF ListInv
  <1>5. param'[p] # None /\ \A q \in Paths : q # p => param'[q] = param[q]
    BY <1>1, <1>2
  <1>6. ListInv'
    BY <1>2, <1>4, <1>5, ListSet
  <1> QED
    BY <1>3, <1>6

\* commit_parameter() over a stored one.
LEMMA StepPutOver ==
  ASSUME TreeInv, ListInv, RestType, NEW p \in Paths, NEW v \in Values, NEW prv \in BOOLEAN,
         NEW f \in SUBSET Flags, PutOver(p, v, prv, f)
  PROVE  TreeInv' /\ ListInv'
  <1>1. param \in [Paths -> Values \cup {None}] /\ v # None
    BY KvtAssumption DEF RestType
  <1>2. /\ param[p] # None /\ param' = [param EXCEPT ![p] = v]
        /\ SetPending(p, pending[p] \cup f) /\ UNCHANGED tree
    BY DEF PutOver
  <1>3. \A q \in Paths : param'[q] # None <=> param[q] # None
    BY <1>1, <1>2
  <1>4. pending[p] \cup f \in SUBSET Flags
    BY DEF ListInv
  <1> QED
    BY <1>2, <1>3, <1>4, TreeSame, ListSet

\* A parameter's flags change and nothing else.
LEMMA StepFlags ==
  ASSUME TreeInv, ListInv, NEW p \in Paths, NEW fl \in SUBSET Flags, SetPending(p, fl),
         param[p] # None, UNCHANGED <<tree, param>>
  PROVE  TreeInv' /\ ListInv'
  BY TreeSame, ListSet

\* remove(), and each turn of remove_branch().
LEMMA StepRemove ==
  ASSUME TreeInv, ListInv, RestType, NEW p \in Paths, param[p] # None, RemoveParam(p)
  PROVE  /\ TreeInv' /\ ListInv'
         /\ param' \in [Paths -> Values \cup {None}] /\ private' \in [Paths -> BOOLEAN]
         /\ \A q \in Paths : q # p => param'[q] = param[q]
  <1>1. param \in [Paths -> Values \cup {None}] /\ private \in [Paths -> BOOLEAN]
    BY DEF RestType
  <1>2. /\ ReferenceDown(p) /\ SetPending(p, {}) /\ kids' = kids
        /\ param' = [param EXCEPT ![p] = None] /\ private' = [private EXCEPT ![p] = FALSE]
    BY DEF RemoveParam, FlagsLeft
  <1>3. TreeInv'
    BY <1>1, <1>2, TreeDown
  <1>4. \A q \in Paths : q # p => param'[q] = param[q]
    BY <1>1, <1>2
  <1>5. ListInv'
    BY <1>2, <1>4, ListSet
  <1> QED
    BY <1>1, <1>2, <1>3, <1>4, <1>5

\* The calls that are one step.
LEMMA StepCall ==
  ASSUME TreeInv, ListInv, RestType, PassInv, Idle, Call, UNCHANGED job
  PROVE  TreeInv' /\ ListInv' /\ RestType' /\ PassInv'
  <1>1. /\ param \in [Paths -> Values \cup {None}] /\ private \in [Paths -> BOOLEAN]
        /\ pending \in [Paths -> SUBSET Flags]
    BY DEF RestType, ListInv
  <1>2. Disturb => PassInv' /\ iter' = iter /\ todo' = {}
    BY PassReset DEF Disturb
  <1>3. ASSUME NEW p \in Paths, NEW v \in Values, NEW prv \in BOOLEAN, NEW f \in SUBSET Flags,
               PutNew(p, v, prv, f)
        PROVE  TreeInv' /\ ListInv' /\ RestType' /\ PassInv'
    <2>1. TreeInv' /\ ListInv'
      BY <1>3, StepPutNew
    <2>2. Disturb /\ param' = [param EXCEPT ![p] = v] /\ private' = [private EXCEPT ![p] = prv]
      BY <1>3 DEF PutNew
    <2>3. RestType'
      BY <1>1, <1>2, <2>2 DEF RestType
    <2> QED
      BY <1>2, <2>1, <2>2, <2>3
  <1>4. ASSUME NEW p \in Paths, NEW v \in Values, NEW prv \in BOOLEAN, NEW f \in SUBSET Flags,
               PutOver(p, v, prv, f)
        PROVE  TreeInv' /\ ListInv' /\ RestType' /\ PassInv'
    <2>1. TreeInv' /\ ListInv'
      BY <1>4, StepPutOver
    <2>2. Disturb /\ param' = [param EXCEPT ![p] = v] /\ private' = [private EXCEPT ![p] = prv]
      BY <1>4 DEF PutOver
    <2>3. RestType'
      BY <1>1, <1>2, <2>2 DEF RestType
    <2> QED
      BY <1>2, <2>1, <2>2, <2>3
  <1>5. ASSUME NEW p \in Paths, PutMalformed(p) PROVE TreeInv' /\ ListInv' /\ RestType' /\ PassInv'
    <2>1. TreeInv'
      BY <1>5, TreeMissing
    <2>2. Disturb /\ param' = param /\ private' = private /\ pending' = pending /\ list' = list
      BY <1>5 DEF PutMalformed, params
    <2>3. ListInv'
      BY <2>2, ListSame
    <2>4. RestType'
      BY <1>2, <2>2 DEF RestType
    <2> QED
      BY <1>2, <2>1, <2>2, <2>3, <2>4
  <1>6. ASSUME NEW p \in Paths, Remove(p) PROVE TreeInv' /\ ListInv' /\ RestType' /\ PassInv'
    <2>1. param[p] # None /\ RemoveParam(p) /\ Disturb
      BY <1>6 DEF Remove
    <2>2. /\ TreeInv' /\ ListInv'
          /\ param' \in [Paths -> Values \cup {None}] /\ private' \in [Paths -> BOOLEAN]
      BY <2>1, StepRemove
    <2>3. RestType'
      BY <1>2, <2>1, <2>2 DEF RestType
    <2> QED
      BY <1>2, <2>1, <2>2, <2>3
  <1>7. ASSUME NEW f \in SUBSET Flags \ {{}}, NEW p \in Paths, Commit(p, f)
        PROVE  TreeInv' /\ ListInv' /\ RestType' /\ PassInv'
    <2>1. /\ param[p] # None /\ SetPending(p, pending[p] \ f) /\ Disturb
          /\ UNCHANGED <<tree, param>> /\ private' = private
      BY <1>7 DEF Commit
    <2>2. pending[p] \ f \in SUBSET Flags
      BY <1>1
    <2>3. TreeInv' /\ ListInv'
      BY <2>1, <2>2, StepFlags
    <2>4. RestType'
      BY <1>2, <2>1 DEF RestType
    <2> QED
      BY <1>2, <2>1, <2>3, <2>4
  <1>8. ASSUME NEW f \in SUBSET Flags \ {{}}, NEW p \in Paths, NEW prv \in BOOLEAN, Touch(p, f, prv)
        PROVE  TreeInv' /\ ListInv' /\ RestType' /\ PassInv'
    <2>1. /\ param[p] # None /\ SetPending(p, pending[p] \cup f) /\ Disturb
          /\ UNCHANGED <<tree, param>> /\ private' = private
      BY <1>8 DEF Touch, Touchable
    <2>2. pending[p] \cup f \in SUBSET Flags
      BY <1>1
    <2>3. TreeInv' /\ ListInv'
      BY <2>1, <2>2, StepFlags
    <2>4. RestType'
      BY <1>2, <2>1 DEF RestType
    <2> QED
      BY <1>2, <2>1, <2>3, <2>4
  <1>9. ASSUME NEW f \in SUBSET Flags \ {{}}, CommitAll(f)
        PROVE  TreeInv' /\ ListInv' /\ RestType' /\ PassInv'
    <2>1. Disturb /\ UNCHANGED tree /\ param' = param /\ private' = private
      BY <1>9 DEF CommitAll
    <2>2. TreeInv'
      BY <2>1, TreeSame
    <2>3. ListInv'
      BY <1>9, ListCommitAll
    <2>4. RestType'
      BY <1>2, <2>1 DEF RestType
    <2> QED
      BY <1>2, <2>1, <2>2, <2>3, <2>4
  <1>10. ASSUME Gc PROVE TreeInv' /\ ListInv' /\ RestType' /\ PassInv'
    <2>1. iter' = NoIter /\ todo' = {} /\ param' = param /\ private' = private
      BY <1>10 DEF Gc
    <2>2. TreeInv' /\ ListInv'
      BY <1>10, TreeGc, ListGc
    <2>3. RestType'
      BY <2>1 DEF RestType, NoIter
    <2>4. PassInv'
      BY <2>1 DEF Idle, NoJob, PassInv, JobKnown, PassKnown, TxPassComplete
    <2> QED
      BY <2>2, <2>3, <2>4
  <1>11. ASSUME EnumTx PROVE TreeInv' /\ ListInv' /\ RestType' /\ PassInv'
    <2>1. /\ UNCHANGED tree /\ param' = param /\ private' = private /\ pending' = pending /\ list' = list
          /\ todo' \subseteq Paths
      BY <1>11 DEF EnumTx, params
    <2>2. TreeInv' /\ ListInv'
      BY <2>1, TreeSame, ListSame
    <2>3. PassInv' /\ iter' \in [mode : {"none", "run", "eof"}, curr : Paths \cup {None}, next : Paths \cup {None}]
      BY <1>11, PassStart
    <2>4. RestType'
      BY <2>1, <2>3 DEF RestType
    <2> QED
      BY <2>2, <2>3, <2>4
  <1>12. ASSUME IterNext PROVE TreeInv' /\ ListInv' /\ RestType' /\ PassInv'
    <2>1. UNCHANGED tree /\ param' = param /\ private' = private /\ pending' = pending /\ list' = list
      BY <1>12 DEF IterNext, params
    <2>2. TreeInv' /\ ListInv'
      BY <2>1, TreeSame, ListSame
    <2>3. /\ PassInv' /\ todo' \subseteq Paths
          /\ iter' \in [mode : {"none", "run", "eof"}, curr : Paths \cup {None}, next : Paths \cup {None}]
      BY <1>12, PassNext
    <2>4. RestType'
      BY <2>1, <2>3 DEF RestType
    <2> QED
      BY <2>2, <2>3, <2>4
  <1>13. ASSUME IterCommit PROVE TreeInv' /\ ListInv' /\ RestType' /\ PassInv'
    <2>1. /\ iter.curr \in Paths /\ param[iter.curr] # None
          /\ SetPending(iter.curr, pending[iter.curr] \ {"tx"})
          /\ UNCHANGED <<tree, param>> /\ UNCHANGED <<private, iter, todo>>
      BY <1>13 DEF IterCommit, RestType
    <2>2. pending[iter.curr] \ {"tx"} \in SUBSET Flags
      BY <1>1, <2>1
    <2>3. TreeInv' /\ ListInv'
      BY <2>1, <2>2, StepFlags
    <2>4. PassInv'
      BY <1>13, PassCommit
    <2>5. RestType'
      BY <2>1 DEF RestType
    <2> QED
      BY <2>3, <2>4, <2>5
  <1> QED
    BY <1>3, <1>4, <1>5, <1>6, <1>7, <1>8, <1>9, <1>10, <1>11, <1>12, <1>13 DEF Call

\* remove_branch() and touch_all(), from their call to the last node.
LEMMA StepJob ==
  ASSUME TreeInv, ListInv, RestType, PassInv,
         \/ Idle /\ \E p \in Nodes : RemoveBranch(p)
         \/ Idle /\ \E f \in SUBSET Flags \ {{}}, prv \in BOOLEAN : TouchAll(f, prv)
         \/ RemoveNext \/ TouchNext
  PROVE  TreeInv' /\ ListInv' /\ RestType' /\ PassInv'
  <1>1. /\ param \in [Paths -> Values \cup {None}] /\ private \in [Paths -> BOOLEAN]
        /\ pending \in [Paths -> SUBSET Flags] /\ sValid \subseteq Paths
        /\ job \in [op : {"none", "remove", "touch"}, nodes : SUBSET Paths, flags : SUBSET Flags]
        /\ job.nodes \subseteq Paths /\ job.flags \subseteq Flags
    BY DEF RestType, ListInv, TreeInv
  <1>2. ASSUME Disturb, UNCHANGED <<tree, params>>, NEW S \in SUBSET Paths, NEW op \in {"remove", "touch"},
               NEW f \in SUBSET Flags, job' = Job(op, S, f), \A q \in S : param[q] # None
        PROVE  TreeInv' /\ ListInv' /\ RestType' /\ PassInv'
    <2>1. /\ iter' = iter /\ todo' = {} /\ UNCHANGED tree
          /\ param' = param /\ private' = private /\ pending' = pending /\ list' = list
      BY <1>2 DEF Disturb, params
    <2>2. TreeInv' /\ ListInv'
      BY <2>1, TreeSame, ListSame
    <2>3. PassInv'
      BY <1>2, <2>1, JobMade
    <2>4. job' \in [op : {"none", "remove", "touch"}, nodes : SUBSET Paths, flags : SUBSET Flags]
      BY <1>2, JobType
    <2>5. RestType'
      BY <2>1, <2>4 DEF RestType
    <2> QED
      BY <2>2, <2>3, <2>5
  <1>3. ASSUME NEW p \in Nodes, RemoveBranch(p) PROVE TreeInv' /\ ListInv' /\ RestType' /\ PassInv'
    <2> DEFINE S == {x \in Branch(p) : Found(x) /\ param[x] # None}
    <2>1. S \in SUBSET Paths /\ \A q \in S : param[q] # None
      BY DEF Branch
    <2>2. Disturb /\ UNCHANGED <<tree, params>> /\ job' = Job("remove", S, {})
      BY <1>3 DEF RemoveBranch
    <2> HIDE DEF S
    <2>3. {} \in SUBSET Flags /\ "remove" \in {"remove", "touch"}
      OBVIOUS
    <2> QED
      BY <1>2, <2>1, <2>2, <2>3
  <1>4. ASSUME NEW f \in SUBSET Flags \ {{}}, NEW prv \in BOOLEAN, TouchAll(f, prv)
        PROVE  TreeInv' /\ ListInv' /\ RestType' /\ PassInv'
    <2> DEFINE S == {p \in sValid : Touchable(p, prv) /\ ~ f \subseteq pending[p]}
    <2>1. S \in SUBSET Paths /\ \A q \in S : param[q] # None
      BY <1>1 DEF Touchable
    <2>2. Disturb /\ UNCHANGED <<tree, params>> /\ job' = Job("touch", S, f)
      BY <1>4 DEF TouchAll
    <2> HIDE DEF S
    <2> QED
      BY <1>2, <2>1, <2>2
  <1>5. ASSUME RemoveNext PROVE TreeInv' /\ ListInv' /\ RestType' /\ PassInv'
    <2>1. PICK p \in job.nodes : RemoveParam(p) /\ job' = Job("remove", job.nodes \ {p}, {})
      BY <1>5 DEF RemoveNext
    <2>2. job # NoJob /\ iter' = iter /\ todo' = todo
      BY <1>5 DEF RemoveNext, NoJob
    <2>3. todo = {} /\ p \in Paths /\ \A q \in job.nodes : param[q] # None
      BY <1>1, <2>2, JobAlone
    <2>4. /\ TreeInv' /\ ListInv'
          /\ param' \in [Paths -> Values \cup {None}] /\ private' \in [Paths -> BOOLEAN]
          /\ \A q \in Paths : q # p => param'[q] = param[q]
      BY <2>1, <2>3, StepRemove
    <2> DEFINE S == job.nodes \ {p}
    <2>5. S \in SUBSET Paths /\ \A q \in S : param'[q] # None
      BY <1>1, <2>3, <2>4
    <2>6. job' = Job("remove", S, {}) /\ {} \in SUBSET Flags
      BY <2>1
    <2> HIDE DEF S
    <2>7. job' \in [op : {"none", "remove", "touch"}, nodes : SUBSET Paths, flags : SUBSET Flags]
      BY <2>5, <2>6, JobType
    <2>8. PassInv'
      BY <2>2, <2>3, <2>5, <2>6, JobMade
    <2>9. RestType'
      BY <2>2, <2>4, <2>7 DEF RestType
    <2> QED
      BY <2>4, <2>8, <2>9
  <1>6. ASSUME TouchNext PROVE TreeInv' /\ ListInv' /\ RestType' /\ PassInv'
    <2>1. PICK p \in job.nodes : /\ SetPending(p, pending[p] \cup job.flags)
                                 /\ job' = Job("touch", job.nodes \ {p}, job.flags)
      BY <1>6 DEF TouchNext
    <2>2. /\ job # NoJob /\ iter' = iter /\ todo' = todo
          /\ UNCHANGED <<tree, param>> /\ param' = param /\ private' = private
      BY <1>6 DEF TouchNext, NoJob
    <2>3. todo = {} /\ p \in Paths /\ \A q \in job.nodes : param[q] # None
      BY <1>1, <2>2, JobAlone
    <2>4. pending[p] \cup job.flags \in SUBSET Flags /\ param[p] # None
      BY <1>1, <2>3
    <2>5. TreeInv' /\ ListInv'
      BY <2>1, <2>2, <2>3, <2>4, StepFlags
    <2> DEFINE S == job.nodes \ {p}
               f == job.flags
    <2>6. S \in SUBSET Paths /\ (\A q \in S : param'[q] # None) /\ f \in SUBSET Flags
      BY <1>1, <2>2, <2>3
    <2>7. job' = Job("touch", S, f)
      BY <2>1
    <2> HIDE DEF S, f
    <2>8. job' \in [op : {"none", "remove", "touch"}, nodes : SUBSET Paths, flags : SUBSET Flags]
      BY <2>6, <2>7, JobType
    <2>9. PassInv'
      BY <2>2, <2>3, <2>6, <2>7, JobMade
    <2>10. RestType'
      BY <1>1, <2>2, <2>8 DEF RestType
    <2> QED
      BY <2>5, <2>9, <2>10
  <1> QED
    BY <1>3, <1>4, <1>5, <1>6

\* Every step keeps the invariant.
LEMMA Inductive == IInv /\ [Next]_vars => IInv'
  <1> SUFFICES ASSUME IInv, [Next]_vars PROVE IInv'
    OBVIOUS
  <1>1. TreeInv /\ ListInv /\ RestType /\ PassInv
    BY Parts
  <1>2. CASE Idle /\ Call /\ UNCHANGED job
    BY <1>1, <1>2, StepCall, PartsNext
  <1>3. CASE \/ Idle /\ \E p \in Nodes : RemoveBranch(p)
             \/ Idle /\ \E f \in SUBSET Flags \ {{}}, prv \in BOOLEAN : TouchAll(f, prv)
             \/ RemoveNext \/ TouchNext
    BY <1>1, <1>3, StepJob, PartsNext
  <1>4. CASE UNCHANGED vars
    <2>1. TreeInv' /\ ListInv'
      BY <1>1, <1>4, TreeSame, ListSame DEF vars, params
    <2>2. RestType' /\ PassInv'
      BY <1>1, <1>4 DEF vars, params, RestType, PassInv, JobKnown, PassKnown, TxPassComplete
    <2> QED
      BY <2>1, <2>2, PartsNext
  <1> QED
    BY <1>2, <1>3, <1>4 DEF Next

\* The invariant holds in every reachable state.
LEMMA Invariant == Spec => []IInv
  BY Initially, Inductive, PTL DEF Spec

-----------------------------------------------------------------------------
(* The tree implements the map                                             *)

Val  == [p \in Paths |-> IF p \in removing THEN None ELSE param[p]]
Pend == [p \in Paths |-> IF p \in removing THEN {}
                        ELSE IF p \in touching THEN pending[p] \cup job.flags
                        ELSE pending[p]]

\* A step of the map that puts a parameter.
LEMMA MapPut ==
  ASSUME NEW p \in Paths, NEW v \in Values, NEW f \in SUBSET Flags,
         Val' = [Val EXCEPT ![p] = v], Pend' = [Pend EXCEPT ![p] = @ \cup f]
  PROVE  Map!Next
  <1>1. Map!Put(p, v, f)
    BY DEF Map!Put, Val, Pend
  <1> QED
    BY <1>1 DEF Map!Next

\* A step of the map that removes parameters.
LEMMA MapRemove ==
  ASSUME NEW S, \/ \E p \in Paths : S = {p} \/ S = Map!Below(p)
                \/ S = Paths,
         Val' = [q \in Paths |-> IF q \in S THEN None ELSE Val[q]],
         Pend' = [q \in Paths |-> IF q \in S THEN {} ELSE Pend[q]]
  PROVE  Map!Next
  <1>1. Map!Remove(S)
    BY DEF Map!Remove, Val, Pend
  <1> QED
    BY <1>1 DEF Map!Next

\* A step of the map that touches parameters.
LEMMA MapTouch ==
  ASSUME NEW f \in SUBSET Flags, Val' = Val, Pend' \in [Paths -> SUBSET Flags],
         \A q \in Paths : Pend'[q] = Pend[q] \/ (Val[q] # None /\ Pend'[q] = Pend[q] \cup f)
  PROVE  Map!Next
  <1>1. Map!Touch(f)
    BY DEF Map!Touch, Val, Pend
  <1> QED
    BY <1>1 DEF Map!Next

\* A step of the map that commits changes.
LEMMA MapCommit ==
  ASSUME NEW f \in SUBSET Flags, NEW S, S = Paths \/ \E p \in Paths : S = {p},
         Val' = Val, Pend' = [q \in Paths |-> IF q \in S THEN Pend[q] \ f ELSE Pend[q]]
  PROVE  Map!Next
  <1>1. Map!Commit(S, f)
    BY DEF Map!Commit, Val, Pend
  <1> QED
    BY <1>1 DEF Map!Next

\* A step the map does not see.
LEMMA MapStutter == ASSUME Val' = Val, Pend' = Pend PROVE UNCHANGED Map!vars
  BY DEF Map!vars, Val, Pend

\* Without a job the map is the parameters and their flags.
LEMMA MapIdle ==
  ASSUME ListInv, RestType
  PROVE  job = NoJob => Val = param /\ Pend = pending
  BY DEF ListInv, RestType, NoJob, Val, Pend, removing, touching

\* The same after a step.
LEMMA MapIdleNext ==
  ASSUME ListInv', RestType', job' = NoJob
  PROVE  Val' = param' /\ Pend' = pending'
  BY DEF ListInv, RestType, NoJob, Val, Pend, removing, touching

\* What a step that sets the job leaves to be done.
LEMMA JobSets ==
  ASSUME NEW S, NEW op \in {"remove", "touch"}, NEW f, job' = Job(op, S, f)
  PROVE  /\ removing' = IF op = "remove" THEN S ELSE {}
         /\ touching' = IF op = "touch" THEN S ELSE {}
         /\ S # {} => job'.flags = f
  <1>1. CASE S = {}
    BY <1>1 DEF Job, NoJob, removing, touching
  <1>2. CASE S # {}
    BY <1>2 DEF Job, NoJob, removing, touching
  <1> QED
    BY <1>1, <1>2

\* The branch of a node is what the map has below it.
LEMMA BranchBelow ==
  /\ \A p \in Paths : Branch(p) = Map!Below(p)
  /\ Branch(Root) = Paths
  <1>1. ASSUME NEW p \in Paths, NEW x \in Paths
        PROVE  p \in Up(x) <=> Len(p) <= Len(x) /\ SubSeq(x, 1, Len(p)) = p
    <2>1. p \in Nodes /\ x \in Nodes /\ Len(p) \in Nat /\ Len(x) \in Nat
      BY PathSeq DEF Nodes
    <2>2. p \in Up(x) => Len(p) \in 0..Len(x) /\ p = SubSeq(x, 1, Len(p))
      BY <2>1, UpFacts
    <2>3. Len(p) <= Len(x) => Len(p) \in 0..Len(x)
      BY <2>1
    <2>4. \A i \in 0..Len(x) : SubSeq(x, 1, i) \in Up(x)
      BY Zenon DEF Up
    <2>5. p \in Up(x) => Len(p) <= Len(x) /\ SubSeq(x, 1, Len(p)) = p
      <3> HAVE p \in Up(x)
      <3>1. Len(p) <= Len(x)
        BY <2>1, <2>2
      <3> QED
        BY <2>2, <3>1
    <2>6. Len(p) <= Len(x) /\ SubSeq(x, 1, Len(p)) = p => p \in Up(x)
      BY <2>3, <2>4
    <2> QED
      BY <2>5, <2>6
  <1>2. \A p \in Paths : Branch(p) = Map!Below(p)
    BY <1>1 DEF Branch, Map!Below
  <1>3. \A x \in Paths : Root \in Up(x)
    BY UpFacts DEF Nodes
  <1> QED
    BY <1>2, <1>3 DEF Branch

\* The calls that are one step change the map in one step, or not at all.
LEMMA RefineCall ==
  ASSUME TreeInv, ListInv, RestType, Idle, Call, UNCHANGED job, ListInv', RestType'
  PROVE  Map!Next \/ UNCHANGED Map!vars
  <1>1. Val = param /\ Pend = pending /\ Val' = param' /\ Pend' = pending'
    BY MapIdle, MapIdleNext DEF Idle
  <1>2. /\ param \in [Paths -> Values \cup {None}] /\ pending \in [Paths -> SUBSET Flags]
        /\ pending' \in [Paths -> SUBSET Flags]
    BY DEF RestType, ListInv
  <1>3. ASSUME NEW p \in Paths, NEW v \in Values, NEW prv \in BOOLEAN, NEW f \in SUBSET Flags,
               PutNew(p, v, prv, f) \/ PutOver(p, v, prv, f)
        PROVE  Map!Next
    <2>1. param' = [param EXCEPT ![p] = v] /\ pending' = [pending EXCEPT ![p] = pending[p] \cup f]
      BY <1>3 DEF PutNew, PutOver, SetPending
    <2>2. pending' = [pending EXCEPT ![p] = @ \cup f]
      BY <2>1
    <2> QED
      BY <1>1, <2>1, <2>2, MapPut
  <1>4. ASSUME NEW p \in Paths, Remove(p) PROVE Map!Next
    <2>1. param' = [param EXCEPT ![p] = None] /\ pending' = [pending EXCEPT ![p] = {}]
      BY <1>4 DEF Remove, RemoveParam, SetPending, FlagsLeft
    <2>2. /\ param' = [q \in Paths |-> IF q \in {p} THEN None ELSE param[q]]
          /\ pending' = [q \in Paths |-> IF q \in {p} THEN {} ELSE pending[q]]
      BY <1>2, <2>1
    <2> QED
      BY <1>1, <2>2, MapRemove
  <1>5. ASSUME NEW p \in Paths, NEW f \in SUBSET Flags, UNCHANGED param, SetPending(p, pending[p] \ f)
        PROVE  Map!Next
    <2>1. pending' = [q \in Paths |-> IF q \in {p} THEN pending[q] \ f ELSE pending[q]]
      BY <1>2, <1>5 DEF SetPending
    <2> QED
      BY <1>1, <1>5, <2>1, MapCommit
  <1>6. ASSUME NEW f \in SUBSET Flags, NEW p \in Paths, NEW prv \in BOOLEAN, Touch(p, f, prv)
        PROVE  Map!Next
    <2>1. param' = param /\ param[p] # None /\ pending' = [pending EXCEPT ![p] = pending[p] \cup f]
      BY <1>6 DEF Touch, Touchable, SetPending
    <2>2. \A q \in Paths : pending'[q] = pending[q] \/ (param[q] # None /\ pending'[q] = pending[q] \cup f)
      BY <1>2, <2>1
    <2> QED
      BY <1>1, <1>2, <2>1, <2>2, MapTouch
  <1>7. ASSUME NEW f \in SUBSET Flags, CommitAll(f) PROVE Map!Next
    <2>1. param' = param /\ pending' = [q \in Paths |-> pending[q] \ f]
      BY <1>7, CommitAllIs DEF CommitAll
    <2> DEFINE S == Paths
    <2>2. S = Paths /\ pending' = [q \in Paths |-> IF q \in S THEN pending[q] \ f ELSE pending[q]]
      BY <2>1
    <2> HIDE DEF S
    <2>3. Val' = Val /\ Pend' = [q \in Paths |-> IF q \in S THEN Pend[q] \ f ELSE Pend[q]]
      BY <1>1, <2>1, <2>2
    <2>4. S = Paths \/ \E p \in Paths : S = {p}
      BY <2>2
    <2> QED
      BY <2>3, <2>4, MapCommit
  <1>8. ASSUME IterCommit PROVE Map!Next
    <2>1. /\ iter.curr \in Paths /\ {"tx"} \in SUBSET Flags /\ UNCHANGED param
          /\ SetPending(iter.curr, pending[iter.curr] \ {"tx"})
      BY <1>8 DEF IterCommit, RestType, Flags
    <2> QED
      BY <1>5, <2>1
  <1>9. ASSUME (\E p \in Paths : PutMalformed(p)) \/ Gc \/ EnumTx \/ IterNext
        PROVE  UNCHANGED Map!vars
    <2>1. param' = param /\ pending' = pending
      BY <1>9 DEF PutMalformed, Gc, EnumTx, IterNext, params
    <2> QED
      BY <1>1, <2>1, MapStutter
  <1>10. ASSUME NEW f \in SUBSET Flags, NEW p \in Paths, Commit(p, f) PROVE Map!Next
    <2>1. UNCHANGED param /\ SetPending(p, pending[p] \ f)
      BY <1>10 DEF Commit
    <2> QED
      BY <1>5, <2>1
  <1> QED
    BY <1>3, <1>4, <1>6, <1>7, <1>8, <1>9, <1>10 DEF Call

\* remove_branch() and touch_all() change the map when they are called, and not
\* when they come to a node.
LEMMA RefineJob ==
  ASSUME TreeInv, ListInv, RestType, PassInv, ListInv', RestType',
         \/ Idle /\ \E p \in Nodes : RemoveBranch(p)
         \/ Idle /\ \E f \in SUBSET Flags \ {{}}, prv \in BOOLEAN : TouchAll(f, prv)
         \/ RemoveNext \/ TouchNext
  PROVE  Map!Next \/ UNCHANGED Map!vars
  <1>1. /\ param \in [Paths -> Values \cup {None}] /\ pending \in [Paths -> SUBSET Flags]
        /\ sValid \subseteq Paths
        /\ job \in [op : {"none", "remove", "touch"}, nodes : SUBSET Paths, flags : SUBSET Flags]
        /\ \A q \in Paths : param[q] = None => pending[q] = {}
    <2>1. \A q \in Paths, g \in Flags : g \in pending[q] => param[q] # None
      BY DEF ListInv, PendingListed
    <2> QED
      BY <2>1 DEF RestType, ListInv, TreeInv
  <1>2. ASSUME NEW p \in Nodes, Idle, RemoveBranch(p) PROVE Map!Next
    <2> DEFINE S == {x \in Branch(p) : Found(x) /\ param[x] # None}
    <2>1. /\ param' = param /\ pending' = pending /\ job' = Job("remove", S, {})
          /\ Val = param /\ Pend = pending
      BY <1>2, MapIdle DEF RemoveBranch, params, Idle
    <2>2. removing' = S /\ touching' = {}
      <3> HIDE DEF S
      <3> QED
        BY <2>1, JobSets
    <2>3. \A q \in Branch(p) : q \in S \/ param[q] = None
      BY DEF TreeInv, TreeIntact, Branch
    <2>4. S \subseteq Branch(p)
      OBVIOUS
    <2> HIDE DEF S
    <2>5. Val' = [q \in Paths |-> IF q \in Branch(p) THEN None ELSE param[q]]
      BY <2>1, <2>2, <2>3, <2>4 DEF Val
    <2>6. Pend' = [q \in Paths |-> IF q \in Branch(p) THEN {} ELSE pending[q]]
      BY <1>1, <2>1, <2>2, <2>3, <2>4 DEF Pend
    <2>7. (\E x \in Paths : Branch(p) = {x} \/ Branch(p) = Map!Below(x)) \/ Branch(p) = Paths
      BY BranchBelow DEF Nodes
    <2> QED
      BY <2>1, <2>5, <2>6, <2>7, MapRemove
  <1>3. ASSUME NEW f \in SUBSET Flags, NEW prv \in BOOLEAN, Idle, TouchAll(f, prv) PROVE Map!Next
    <2> DEFINE S == {p \in sValid : Touchable(p, prv) /\ ~ f \subseteq pending[p]}
    <2>1. /\ param' = param /\ pending' = pending /\ job' = Job("touch", S, f)
          /\ Val = param /\ Pend = pending
      BY <1>3, MapIdle DEF TouchAll, params, Idle
    <2>2. removing' = {} /\ touching' = S /\ (S # {} => job'.flags = f)
      <3> HIDE DEF S
      <3> QED
        BY <2>1, JobSets
    <2>3. S \subseteq Paths /\ \A q \in S : param[q] # None
      BY <1>1 DEF Touchable
    <2> HIDE DEF S
    <2>4. Val' = param
      BY <1>1, <2>1, <2>2 DEF Val
    <2>5. Pend' = [q \in Paths |-> IF q \in S THEN pending[q] \cup f ELSE pending[q]]
      BY <2>1, <2>2 DEF Pend
    <2>6. Pend' \in [Paths -> SUBSET Flags]
      BY <1>1, <2>5
    <2>7. \A q \in Paths : Pend'[q] = pending[q] \/ (param[q] # None /\ Pend'[q] = pending[q] \cup f)
      BY <2>3, <2>5
    <2> QED
      BY <2>1, <2>4, <2>6, <2>7, MapTouch
  <1>4. ASSUME RemoveNext PROVE UNCHANGED Map!vars
    <2>1. PICK p \in job.nodes : RemoveParam(p) /\ job' = Job("remove", job.nodes \ {p}, {})
      BY <1>4 DEF RemoveNext
    <2>2. p \in Paths /\ removing = job.nodes /\ touching = {}
      BY <1>1, <1>4 DEF RemoveNext, removing, touching
    <2> DEFINE S == job.nodes \ {p}
    <2>3. removing' = S /\ touching' = {}
      <3>1. job' = Job("remove", S, {})
        BY <2>1
      <3> HIDE DEF S
      <3> QED
        BY <3>1, JobSets
    <2>4. param' = [param EXCEPT ![p] = None] /\ pending' = [pending EXCEPT ![p] = {}]
      BY <2>1 DEF RemoveParam, SetPending, FlagsLeft
    <2>5. Val' = Val
      BY <1>1, <2>2, <2>3, <2>4 DEF Val
    <2>6. Pend' = Pend
      BY <1>1, <2>2, <2>3, <2>4 DEF Pend
    <2> QED
      BY <2>5, <2>6, MapStutter
  <1>5. ASSUME TouchNext PROVE UNCHANGED Map!vars
    <2>1. PICK p \in job.nodes : /\ SetPending(p, pending[p] \cup job.flags)
                                 /\ job' = Job("touch", job.nodes \ {p}, job.flags)
      BY <1>5 DEF TouchNext
    <2>2. p \in Paths /\ removing = {} /\ touching = job.nodes /\ param' = param
      BY <1>1, <1>5 DEF TouchNext, removing, touching
    <2> DEFINE S == job.nodes \ {p}
               f == job.flags
    <2>3. removing' = {} /\ touching' = S /\ (S # {} => job'.flags = f)
      <3>1. job' = Job("touch", S, f)
        BY <2>1
      <3> HIDE DEF S, f
      <3> QED
        BY <3>1, JobSets
    <2>4. pending' = [pending EXCEPT ![p] = pending[p] \cup f]
      BY <2>1 DEF SetPending
    <2>5. Val' = Val
      BY <2>2, <2>3 DEF Val
    <2>6. ASSUME NEW q \in Paths
          PROVE  (IF q \in S THEN pending'[q] \cup job'.flags ELSE pending'[q])
                 = (IF q \in job.nodes THEN pending[q] \cup f ELSE pending[q])
      <3>1. CASE q = p
        BY <1>1, <2>1, <2>4, <3>1
      <3>2. CASE q # p
        BY <1>1, <2>3, <2>4, <3>2
      <3> QED
        BY <3>1, <3>2
    <2>7. Pend' = Pend
      <3>1. Pend' = [q \in Paths |-> IF q \in S THEN pending'[q] \cup job'.flags ELSE pending'[q]]
        BY <2>3 DEF Pend
      <3>2. Pend = [q \in Paths |-> IF q \in job.nodes THEN pending[q] \cup f ELSE pending[q]]
        BY <2>2 DEF Pend
      <3> HIDE DEF S, f
      <3> QED
        BY <2>6, <3>1, <3>2
    <2> QED
      BY <2>5, <2>7, MapStutter
  <1> QED
    BY <1>2, <1>3, <1>4, <1>5

-----------------------------------------------------------------------------
(* Theorems                                                                *)

\* Whatever is put, touched, committed and removed, alone or by the branch, no
\* counter of references falls below zero and the lists hold nodes below the
\* root (TypeOK).
THEOREM StorageTypeOK == Spec => []TypeOK
  <1>1. IInv => TypeOK
    BY DEF IInv
  <1> QED
    BY <1>1, Invariant, PTL

\* For every set of paths and every sequence of calls, each node counts its own
\* parameter and its valid children (RefsCounted): the climbs stop in the right
\* place (KVTStorage.cpp:292-335).
THEOREM StorageRefsCounted == Spec => []RefsCounted
  <1>1. IInv => RefsCounted
    BY DEF IInv
  <1> QED
    BY <1>1, Invariant, PTL

\* The nodes of the two lists are those reachable from the root, after gc() too,
\* and every stored parameter is found by its name (TreeIntact).
THEOREM StorageTreeIntact == Spec => []TreeIntact
  <1>1. IInv => TreeIntact
    BY DEF IInv
  <1> QED
    BY <1>1, Invariant, PTL

\* The lists of changes hold the stored parameters with the flag, each once
\* (PendingListed), so that commit_all() ends.
THEOREM StoragePendingListed == Spec => []PendingListed
  <1>1. IInv => PendingListed
    BY DEF IInv
  <1> QED
    BY <1>1, Invariant, PTL

\* However many changes there are, a pass that commits each one it meets misses
\* none of those pending at its start (TxPassComplete).
THEOREM StorageTxPassComplete == Spec => []TxPassComplete
  <1>1. IInv => TxPassComplete
    BY DEF IInv
  <1> QED
    BY <1>1, Invariant, PTL

\* The tree implements the map (ImplementsKvtMap): remove_branch() and clear()
\* take the whole branch, however deep, and no call changes another parameter.
THEOREM StorageImplementsKvtMap == Spec => ImplementsKvtMap
  <1>1. Init => Map!Init
    BY DEF Init, Map!Init, NoJob, removing, touching
  <1>2. IInv /\ IInv' /\ [Next]_vars => [Map!Next]_(Map!vars)
    <2> SUFFICES ASSUME IInv, IInv', [Next]_vars PROVE [Map!Next]_(Map!vars)
      OBVIOUS
    <2>1. TreeInv /\ ListInv /\ RestType /\ PassInv
      BY Parts
    <2>2. ListInv' /\ RestType'
      BY DEF IInv, TypeOK, ListInv, RestType
    <2>3. CASE Idle /\ Call /\ UNCHANGED job
      BY <2>1, <2>2, <2>3, RefineCall
    <2>4. CASE \/ Idle /\ \E p \in Nodes : RemoveBranch(p)
               \/ Idle /\ \E f \in SUBSET Flags \ {{}}, prv \in BOOLEAN : TouchAll(f, prv)
               \/ RemoveNext \/ TouchNext
      BY <2>1, <2>2, <2>4, RefineJob
    <2>5. CASE UNCHANGED vars
      <3>1. Val' = Val /\ Pend' = Pend
        BY <2>5 DEF vars, params, Val, Pend, removing, touching
      <3> QED
        BY <3>1, MapStutter
    <2> QED
      BY <2>3, <2>4, <2>5 DEF Next
  <1> QED
    BY <1>1, <1>2, Invariant, PTL DEF Spec, ImplementsKvtMap, Map!Spec
=============================================================================
