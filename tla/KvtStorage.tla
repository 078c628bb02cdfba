----------------------------- MODULE KvtStorage -----------------------------
(***************************************************************************)
(* KVTStorage: the tree of named parameters that the DSP and the UI share, *)
(* with the lists of changes that wait for their transfer.                 *)
(*                                                                         *)
(* A node is identified by its path. It is either valid (refs > 0: it has  *)
(* a parameter or a valid child) or garbage, and garbage nodes stay linked *)
(* in the tree until gc(). The storage has no lock of its own: one caller  *)
(* at a time works on it, under the wrapper's mutex, so that one call is   *)
(* one step; remove_branch() and touch_all() go from node to node, and     *)
(* until they are done nobody else's step comes between. Only a pass over  *)
(* the pending changes takes several calls.                                *)
(*                                                                         *)
(* Left out: the copies of the values and the trash list they wait in, the *)
(* counters of nodes(), values() and *_pending(), and the listeners.       *)
(***************************************************************************)
EXTENDS Integers, Sequences, FiniteSets

CONSTANTS
  Names,    (* the names of nodes                                          *)
  Paths,    (* the nodes below the root: sequences of names, with prefixes *)
  Values,   (* the values of parameters                                    *)
  None      (* no parameter, no node                                       *)

ASSUME KvtAssumption ==
  /\ Paths \subseteq Seq(Names)
  /\ \A p \in Paths : Len(p) > 0
  /\ \A p \in Paths : \A i \in 1..Len(p) : SubSeq(p, 1, i) \in Paths
  /\ None \notin Paths \cup Values

Root  == <<>>
Flags == {"rx", "tx"}
Nodes == Paths \cup {Root}

VARIABLES
  refs,     (* kvt_node_t::refs                                            *)
  sValid,   (* the nodes in the list of valid nodes                        *)
  sGarbage, (* the nodes in the list of garbage nodes                      *)
  kids,     (* the nodes that are in the children array of their parent    *)
  param,    (* kvt_node_t::param: the value                                *)
  private,  (* its KVT_PRIVATE flag                                        *)
  pending,  (* kvt_node_t::pending                                         *)
  list,     (* list["tx"], list["rx"]: sTx and sRx, the head first         *)
  job,      (* what remove_branch() or touch_all() has yet to do           *)
  iter,     (* the iterator of enum_tx_pending() that is in use            *)
  todo      (* history: changes the pass of the iterator still has to meet *)

tree   == <<refs, sValid, sGarbage, kids>>
params == <<param, private, pending, list>>
vars   == <<tree, params, job, iter, todo>>

\* a call that goes over the nodes of a set, one after the other, in any order
NoJob == [op |-> "none", nodes |-> {}, flags |-> {}]
Job(op, S, f) == IF S = {} THEN NoJob ELSE [op |-> op, nodes |-> S, flags |-> f]
Idle == job = NoJob

NoIter == [mode |-> "none", curr |-> None, next |-> None]

Init ==
  /\ refs     = [n \in Nodes |-> IF n = Root THEN 1 ELSE 0]
  /\ sValid   = {}
  /\ sGarbage = {}
  /\ kids     = {}
  /\ param    = [p \in Paths |-> None]
  /\ private  = [p \in Paths |-> FALSE]
  /\ pending  = [p \in Paths |-> {}]
  /\ list     = [f \in Flags |-> <<>>]
  /\ job      = NoJob
  /\ iter     = NoIter
  /\ todo     = {}

-----------------------------------------------------------------------------
(* Paths. A definition marked "slip" is not used: it is what a wrong version *)
(* of the next one could be.                                               *)

Parent(p) == SubSeq(p, 1, Len(p) - 1)

\* the node and its ancestors
Up(p) == {SubSeq(p, 1, i) : i \in 0..Len(p)}

\* the node and what is below it
Branch(p) == {x \in Paths : p \in Up(x)}

\* walk_node() finds the node
Found(p) == \A x \in Up(p) \ {Root} : x \in kids /\ refs[x] > 0

-----------------------------------------------------------------------------
(* References. reference_up() and reference_down() climb from a node until *)
(* they meet one that stays valid.                                         *)

\* slip: the climb stops at the parent
RaisedShort(p) == {p}
Raised(p) ==
  {x \in Up(p) : \A y \in Up(p) : Len(y) > Len(x) => refs[y] = 0}

\* after reference_up(p), where made are nodes created for p just before
ReferenceUp(p, made) ==
  LET moved == {x \in Raised(p) : refs[x] = 0} IN
  /\ refs'     = [n \in Nodes |-> IF n \in Raised(p) THEN refs[n] + 1 ELSE refs[n]]
  /\ sValid'   = sValid \cup moved
  /\ sGarbage' = (sGarbage \cup made) \ moved

\* slip: the climb goes on to the root
LoweredAll(p) == Up(p)
Lowered(p) ==
  {x \in Up(p) : \A y \in Up(p) : Len(y) > Len(x) => refs[y] = 1}

ReferenceDown(p) ==
  LET moved == {x \in Lowered(p) : refs[x] = 1} IN
  /\ refs'     = [n \in Nodes |-> IF n \in Lowered(p) THEN refs[n] - 1 ELSE refs[n]]
  /\ sValid'   = sValid \ moved
  /\ sGarbage' = sGarbage \cup moved

-----------------------------------------------------------------------------
(* Pending changes                                                         *)

\* unlink_list()
Without(s, p) ==
  IF \E i \in 1..Len(s) : s[i] = p
    THEN LET i == CHOOSE i \in 1..Len(s) : s[i] = p
         IN  SubSeq(s, 1, i - 1) \o SubSeq(s, i + 1, Len(s))
    ELSE s

\* the list f when the flags of p become those of fl: set_pending_state();
\* slip: a parameter that is pending already is linked again
RelinkedTwice(s, f, p, fl) ==
  IF f \in fl THEN <<p>> \o s ELSE Without(s, p)
Relinked(s, f, p, fl) ==
  IF (f \in pending[p]) = (f \in fl) THEN s
  ELSE IF f \in fl THEN <<p>> \o s ELSE Without(s, p)

SetPending(p, fl) ==
  /\ pending' = [pending EXCEPT ![p] = fl]
  /\ list'    = [f \in Flags |-> Relinked(list[f], f, p, fl)]

\* what a call by someone who is not the pass leaves of its claim: nothing
Disturb == todo' = {} /\ UNCHANGED iter

-----------------------------------------------------------------------------
(* put(), touch(), commit(), remove(); without flags touch() and commit()   *)
(* do nothing                                                              *)

\* the nodes create_node() makes on the way to p
Missing(p) == {x \in Up(p) \ {Root} : x \notin kids}

\* commit_parameter() for a new parameter
PutNew(p, v, prv, f) ==
  /\ param[p] = None
  /\ ReferenceUp(p, Missing(p))
  /\ kids'    = kids \cup Missing(p)
  /\ param'   = [param EXCEPT ![p] = v]
  /\ private' = [private EXCEPT ![p] = prv]
  /\ SetPending(p, pending[p] \cup f)
  /\ Disturb

\* commit_parameter() over a stored one; with KVT_KEEP it is left alone
PutOver(p, v, prv, f) ==
  /\ param[p] # None
  /\ param'   = [param EXCEPT ![p] = v]
  /\ private' = [private EXCEPT ![p] = prv]
  /\ SetPending(p, pending[p] \cup f)
  /\ Disturb
  /\ UNCHANGED tree

\* put() of the name of p with a separator behind it: the nodes are made,
\* then the empty name is rejected
PutMalformed(p) ==
  /\ Missing(p) # {}
  /\ kids'     = kids \cup Missing(p)
  /\ sGarbage' = sGarbage \cup Missing(p)
  /\ Disturb
  /\ UNCHANGED <<refs, sValid, params>>

\* do_touch() skips private parameters unless KVT_PRIVATE is among the flags
Touchable(p, prv) == param[p] # None /\ (private[p] => prv)

Touch(p, f, prv) ==
  /\ Found(p)
  /\ Touchable(p, prv)
  /\ SetPending(p, pending[p] \cup f)
  /\ Disturb
  /\ UNCHANGED <<tree, param, private>>

\* touch_all() does so for the valid nodes; those that keep their flags are skipped
TouchAll(f, prv) ==
  /\ job' = Job("touch", {p \in sValid : Touchable(p, prv) /\ ~ f \subseteq pending[p]}, f)
  /\ Disturb
  /\ UNCHANGED <<tree, params>>

TouchNext ==
  /\ job.op = "touch"
  /\ \E p \in job.nodes :
       /\ SetPending(p, pending[p] \cup job.flags)
       /\ job' = Job("touch", job.nodes \ {p}, job.flags)
  /\ UNCHANGED <<tree, param, private, iter, todo>>

Commit(p, f) ==
  /\ Found(p)
  /\ param[p] # None
  /\ SetPending(p, pending[p] \ f)
  /\ Disturb
  /\ UNCHANGED <<tree, param, private>>

\* commit_all() takes the head of each list until the list is empty
CommitAll(f) ==
  /\ \A g \in f : \A i \in 1..Len(list[g]) : param[list[g][i]] # None
  /\ pending' = [p \in Paths |->
       pending[p] \ {g \in f : \E i \in 1..Len(list[g]) : list[g][i] = p}]
  /\ list'    = [g \in Flags |-> IF g \in f THEN <<>> ELSE list[g]]
  /\ Disturb
  /\ UNCHANGED <<tree, param, private>>

\* the flags of a removed parameter; slip: they are kept
FlagsLeftKept(p) == pending[p]
FlagsLeft(p) == {}

\* the end of do_remove_node(), and each turn of the loop of do_remove_branch()
RemoveParam(p) ==
  /\ ReferenceDown(p)
  /\ SetPending(p, FlagsLeft(p))
  /\ param'   = [param EXCEPT ![p] = None]
  /\ private' = [private EXCEPT ![p] = FALSE]
  /\ UNCHANGED kids

Remove(p) ==
  /\ Found(p)
  /\ param[p] # None
  /\ RemoveParam(p)
  /\ Disturb

\* remove_branch() follows the children that are valid; clear() is the branch
\* of the root. A node comes before those below it.
RemoveBranch(p) ==
  /\ Found(p)
  /\ job' = Job("remove", {x \in Branch(p) : Found(x) /\ param[x] # None}, {})
  /\ Disturb
  /\ UNCHANGED <<tree, params>>

RemoveNext ==
  /\ job.op = "remove"
  /\ \E p \in job.nodes :
       /\ \A x \in job.nodes : x \in Up(p) => x = p
       /\ RemoveParam(p)
       /\ job' = Job("remove", job.nodes \ {p}, {})
  /\ UNCHANGED <<iter, todo>>

-----------------------------------------------------------------------------
(* gc()                                                                    *)

\* garbage nodes that are taken out of the children array of a valid parent;
\* slip: nodes with children of their own are forgotten
UnlinkedLeaves == {x \in sGarbage : refs[Parent(x)] > 0 /\ Branch(x) \cap kids = {x}}
Unlinked == {x \in sGarbage : refs[Parent(x)] > 0}

\* a list of changes after the garbage nodes have been unlinked from it
Purged(s) ==
  IF \E i \in 1..Len(s) : s[i] \in sGarbage
    THEN SelectSeq(s, LAMBDA p : p \notin sGarbage)
    ELSE s

\* the arrays of destroyed nodes disappear with them; all iterators are freed
Gc ==
  /\ kids'     = {x \in kids : x \notin Unlinked /\ Parent(x) \notin sGarbage}
  /\ sGarbage' = {}
  /\ list'     = [f \in Flags |-> Purged(list[f])]
  /\ iter'     = NoIter
  /\ todo'     = {}
  /\ UNCHANGED <<refs, sValid, param, private, pending>>

-----------------------------------------------------------------------------
(* A pass over the changes for the UI, as transfer_dsp_to_ui() and the KVT *)
(* dispatcher make it: next(), then commit(KVT_TX) of the change it met.   *)

Following(s, p) ==
  LET after == {i \in 1..Len(s) - 1 : s[i] = p} IN
  IF after = {} THEN None ELSE s[(CHOOSE i \in after : TRUE) + 1]

EnumTx ==
  /\ iter' = [mode |-> "run", curr |-> None,
              next |-> IF list["tx"] = <<>> THEN None ELSE Head(list["tx"])]
  /\ todo' = {p \in Paths : "tx" \in pending[p]}
  /\ UNCHANGED <<tree, params>>

\* the node that next() remembers; slip: the link is read after commit()
NextOfUnlinked(p) == None
NextOf(p) == Following(list["tx"], p)

IterNext ==
  LET p == iter.next IN
  /\ iter.mode = "run"
  /\ IF p = None \/ (p # None /\ "tx" \notin pending[p])
       THEN iter' = [iter EXCEPT !.mode = "eof", !.curr = p] /\ UNCHANGED todo
       ELSE /\ iter' = [iter EXCEPT !.curr = p, !.next = NextOf(p)]
            /\ todo' = todo \ {p}
  /\ UNCHANGED <<tree, params>>

IterCommit ==
  LET p == iter.curr IN
  /\ iter.mode = "run"
  /\ p # None
  /\ refs[p] > 0
  /\ param[p] # None
  /\ SetPending(p, pending[p] \ {"tx"})
  /\ UNCHANGED <<tree, param, private, iter, todo>>

\* the calls that are one step
Call ==
  \/ \E p \in Paths, v \in Values, prv \in BOOLEAN, f \in SUBSET Flags :
       PutNew(p, v, prv, f) \/ PutOver(p, v, prv, f)
  \/ \E p \in Paths : PutMalformed(p) \/ Remove(p)
  \/ \E f \in SUBSET Flags \ {{}} :
       \/ \E p \in Paths : Commit(p, f) \/ \E prv \in BOOLEAN : Touch(p, f, prv)
       \/ CommitAll(f)
  \/ Gc
  \/ EnumTx \/ IterNext \/ IterCommit

Next ==
  \/ Idle /\ Call /\ UNCHANGED job
  \/ Idle /\ \E p \in Nodes : RemoveBranch(p)
  \/ Idle /\ \E f \in SUBSET Flags \ {{}}, prv \in BOOLEAN : TouchAll(f, prv)
  \/ RemoveNext \/ TouchNext

Spec == Init /\ [][Next]_vars

-----------------------------------------------------------------------------
(* Properties                                                              *)

\* Every variable keeps its range: the lists hold nodes below the root and no
\* counter of references falls below zero.
TypeOK ==
  /\ refs \in [Nodes -> Nat]
  /\ sValid \subseteq Paths /\ sGarbage \subseteq Paths /\ kids \subseteq Paths
  /\ param \in [Paths -> Values \cup {None}]
  /\ private \in [Paths -> BOOLEAN]
  /\ pending \in [Paths -> SUBSET Flags]
  /\ list \in [Flags -> Seq(Paths)]
  /\ job \in [op : {"none", "remove", "touch"}, nodes : SUBSET Paths, flags : SUBSET Flags]
  /\ iter \in [mode : {"none", "run", "eof"}, curr : Paths \cup {None}, next : Paths \cup {None}]
  /\ todo \subseteq Paths

\* A node counts its own parameter and its valid children, the root one more:
\* the climbs of reference_up() and reference_down() stop in the right place
\* whatever branches are valid, garbage or revived (KVTStorage.cpp:292-335).
RefsCounted ==
  \A n \in Nodes :
    refs[n] = (IF n = Root \/ (n \in Paths /\ param[n] # None) THEN 1 ELSE 0)
              + Cardinality({k \in kids : Parent(k) = n /\ refs[k] > 0})

\* The nodes in memory are those of the two lists, and they are exactly the
\* ones reachable from the root: gc() destroys no node that is still linked
\* and leaves no array with a destroyed one, and every stored parameter is
\* found by its name (KVTStorage.cpp:684-728, 1521-1594).
TreeIntact ==
  /\ sValid = {p \in Paths : refs[p] > 0}
  /\ sValid \cap sGarbage = {}
  /\ kids = sValid \cup sGarbage
  /\ \A p \in kids : Parent(p) \in kids \cup {Root}
  /\ \A p \in Paths : param[p] # None => Found(p)

\* A list of changes holds each parameter with its flag once and nothing else,
\* and only stored parameters: commit_all(), which takes the head until the
\* list is empty and goes round for ever at a node without a parameter, ends
\* (KVTStorage.cpp:251-290, 993-997).
PendingListed ==
  \A f \in Flags :
    /\ \A i, j \in 1..Len(list[f]) : list[f][i] = list[f][j] => i = j
    /\ {list[f][i] : i \in 1..Len(list[f])} = {p \in Paths : f \in pending[p]}
    /\ \A p \in Paths : f \in pending[p] => param[p] # None

\* A pass that only commits what it meets has met, when next() ends it, every
\* change that was pending at its start, although commit() unlinks the node
\* the iterator stands on (KVTStorage.cpp:1731-1745).
TxPassComplete == iter.mode = "eof" => todo = {}

\* remove_branch() and touch_all() take effect when they are called
removing == IF job.op = "remove" THEN job.nodes ELSE {}
touching == IF job.op = "touch" THEN job.nodes ELSE {}

Map == INSTANCE KvtMap WITH
  val  <- [p \in Paths |-> IF p \in removing THEN None ELSE param[p]],
  pend <- [p \in Paths |-> IF p \in removing THEN {}
                           ELSE IF p \in touching THEN pending[p] \cup job.flags
                           ELSE pending[p]]

\* The tree implements the map: remove_branch() and clear() leave nothing of
\* the branch behind, and no call changes a parameter it does not name.
ImplementsKvtMap == Map!Spec

-----------------------------------------------------------------------------
(* The inductive invariant of the proofs                                   *)

\* What remove_branch() or touch_all() has yet to visit is stored.
JobKnown ==
  /\ job = NoJob \/ (job.op \in {"remove", "touch"} /\ job.nodes # {})
  /\ \A p \in job.nodes : param[p] # None

\* A pass that nobody disturbed has yet to meet the list from the node on that
\* the iterator goes to next; the node it stands on is not among them.
PassKnown ==
  todo # {} =>
    /\ job = NoJob
    /\ iter.mode = "run" /\ iter.curr \notin todo
    /\ \E i \in 1..Len(list["tx"]) :
         /\ list["tx"][i] = iter.next
         /\ todo = {list["tx"][j] : j \in i..Len(list["tx"])}

IInv ==
  /\ TypeOK /\ IsFiniteSet(kids)
  /\ RefsCounted /\ TreeIntact /\ PendingListed
  /\ JobKnown /\ PassKnown /\ TxPassComplete
=============================================================================
