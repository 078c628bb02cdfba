----------------------------- MODULE OscBuffer -----------------------------
(***************************************************************************)
(* osc_buffer_t: the ring that carries OSC packets from the one thread     *)
(* that submits them to the one thread that fetches them (the KVT          *)
(* dispatcher and the audio thread, a plugin and its LV2 or UI side).      *)
(*                                                                         *)
(* Memory is counted in 32-bit words: sizes, capacity and positions are    *)
(* multiples of 4 bytes in the code. Cells 0..Cap-1 are the ring, cell Cap *)
(* is the padding behind it, which create() allocates: the code wraps a    *)
(* position with ">", so a header may be stored at position Cap.           *)
(*                                                                         *)
(* The size is the only word both ends access: submit() loads it, stores   *)
(* the packet, then stores the size; fetch() loads it, takes the packet    *)
(* out, then subtracts from it atomically. Each of these is a step.        *)
(*                                                                         *)
(* clear() takes no lock and looks at neither end: the dispatcher calls it *)
(* when it counts no client, and a client may just have connected. When it *)
(* meets a call, size, head and tail are out of step for good: the ring is *)
(* torn. Two threads then write plain words at once, so nothing is assumed *)
(* of a torn ring: TornSubmit and TornFetch leave its contents open. The   *)
(* next clear() that meets no call repairs it.                             *)
(***************************************************************************)
EXTENDS Integers, Sequences

CONSTANTS
  Cap,        (* capacity in words                                         *)
  Sizes,      (* sizes of the packets submitted, in words                  *)
  MaxId,      (* packets are numbered 1..MaxId, then again from 1          *)
  Limit,      (* room for one packet in the reader's memory, in words      *)
  Overlap,    (* may fetch() subtract between submit()'s load and store    *)
  WrapSkips   (* may skip() drop a packet that ends at the end of the ring *)

ASSUME OscBufferAssumption ==
  /\ Cap \in Nat \ {0}
  /\ Sizes \subseteq 1..Cap
  /\ MaxId \in Nat \ {0}
  /\ Limit \in Nat \ {0}
  /\ Overlap \in BOOLEAN
  /\ WrapSkips \in BOOLEAN

VARIABLES
  nSize, nHead, nTail,  (* as in osc_buffer_t                              *)
  pBuffer,              (* the cells                                       *)
  wpc, wsize, wpacket,  (* submit(): where, the size it loaded, its packet *)
  wid,                  (* the number of the next packet                   *)
  rpc, rlen, rres,      (* fetch()/skip(): where, length read, last result *)
  got,                  (* the reader's memory: the last packet fetched    *)
  cpc,                  (* clear(): idle, alone, or met by a call          *)
  torn,                 (* a clear() met a call and none was alone since   *)
  unread                (* history: packets submitted, not yet taken out   *)

writer == <<wpc, wsize, wpacket, wid>>
reader == <<rpc, rlen, rres, got>>
clear  == <<cpc, torn>>
vars   == <<nSize, nHead, nTail, pBuffer, writer, reader, clear, unread>>

\* a word is a length (id 0), a word of a packet, or left over memory (id -1)
Words == [id : -1..MaxId, n : 0..Cap]
LengthWord(n) == [id |-> 0, n |-> n]
LeftOver == [c \in 0..Cap |-> [id |-> -1, n |-> 0]]
Packet(id, n) == [k \in 1..n |-> [id |-> id, n |-> k]]
Packets == {Packet(id, n) : id \in 1..MaxId, n \in Sizes}

Init ==
  /\ nSize = 0 /\ nHead = 0 /\ nTail = 0
  /\ pBuffer = LeftOver
  /\ wpc = "idle" /\ wsize = 0 /\ wpacket = <<>> /\ wid = 1
  /\ rpc = "idle" /\ rlen = 0 /\ rres = "none" /\ got = <<>>
  /\ cpc = "idle" /\ torn = FALSE
  /\ unread = <<>>

-----------------------------------------------------------------------------
(* Positions. A definition marked "slip" is not used: it is what a wrong   *)
(* version of the next one could be.                                       *)

\* if (pos > nCapacity) pos -= nCapacity; slip: at the end too early
WrapEarly(pos) == IF pos >= Cap - 1 THEN pos - Cap + 1 ELSE pos
Wrap(pos) == IF pos > Cap THEN pos - Cap ELSE pos

\* the k-th word of a payload at pos: the part that does not fit goes to 0;
\* slip: it goes behind the ring
PlaceFlat(pos, k) == IF pos + k - 1 <= Cap THEN pos + k - 1 ELSE Cap
Place(pos, k) == IF pos + k - 1 < Cap THEN pos + k - 1 ELSE pos + k - 1 - Cap

\* the position behind a packet of n words whose length is at pos
After(pos, n) == Wrap(Wrap(pos + 1) + n)

\* the cells once a packet is stored at pos
Stored(pos, p) ==
  LET data == Wrap(pos + 1) IN
  [c \in 0..Cap |->
     IF \E k \in 1..Len(p) : Place(data, k) = c
       THEN p[CHOOSE k \in 1..Len(p) : Place(data, k) = c]
       ELSE IF c = pos THEN LengthWord(Len(p)) ELSE pBuffer[c]]

\* the payload of n words behind the length at pos
Loaded(pos, n) == [k \in 1..n |-> pBuffer[Place(Wrap(pos + 1), k)]]

\* what reading the cell at pos as a length may give
Lengths(pos) == IF pBuffer[pos].id = 0 THEN {pBuffer[pos].n} ELSE 0..(Cap + 1)

-----------------------------------------------------------------------------
(* submit()                                                                *)

\* no clear() is under way, and none met a call before
Undisturbed == cpc = "idle" /\ ~ torn

\* newsize > nCapacity; slip: the length word is not counted
FullData(n) == nSize + n > Cap
Full(n) == nSize + n + 1 > Cap

\* the size is loaded and there is room
SubmitCheck(n) ==
  /\ Undisturbed
  /\ wpc = "idle"
  /\ ~ Full(n)
  /\ wsize'   = nSize
  /\ wpacket' = Packet(wid, n)
  /\ wid'     = (wid % MaxId) + 1
  /\ wpc'     = "store"
  /\ UNCHANGED <<nSize, nHead, nTail, pBuffer, reader, clear, unread>>

\* the length and the payload are stored, the tail moves
SubmitStore ==
  /\ ~ torn
  /\ wpc = "store"
  /\ pBuffer' = Stored(nTail, wpacket)
  /\ nTail'   = After(nTail, Len(wpacket))
  /\ wpc'     = "publish"
  /\ UNCHANGED <<nSize, nHead, wsize, wpacket, wid, reader, clear, unread>>

\* nSize = newsize
Published == wsize + Len(wpacket) + 1

SubmitPublish ==
  /\ ~ torn
  /\ wpc = "publish"
  /\ nSize'   = Published
  /\ unread'  = Append(unread, wpacket)
  /\ wpc'     = "idle"
  /\ wsize'   = 0
  /\ wpacket' = <<>>
  /\ UNCHANGED <<nHead, nTail, pBuffer, wid, reader, clear>>

-----------------------------------------------------------------------------
(* fetch() and skip()                                                      *)

TailOf(s) == IF s = <<>> THEN <<>> ELSE Tail(s)

\* the size and the length are loaded, the record is judged; with no data
\* fetch() changes nothing
FetchCheck ==
  /\ Undisturbed
  /\ rpc = "idle"
  /\ nSize >= 1
  /\ \E n \in Lengths(nHead) :
       IF n > Limit
         THEN rres' = "overflow" /\ UNCHANGED <<rpc, rlen>>
         ELSE IF n + 1 > nSize
           THEN rres' = "corrupted" /\ UNCHANGED <<rpc, rlen>>
           ELSE rres' = "ok" /\ rlen' = n /\ rpc' = "copy"
  /\ UNCHANGED <<nSize, nHead, nTail, pBuffer, writer, got, clear, unread>>

\* the payload is copied, the head moves
FetchCopy ==
  /\ ~ torn
  /\ rpc = "copy"
  /\ got'    = Loaded(nHead, rlen)
  /\ nHead'  = After(nHead, rlen)
  /\ unread' = TailOf(unread)
  /\ rpc'    = "release"
  /\ UNCHANGED <<nSize, nTail, pBuffer, writer, rlen, rres, clear>>

\* skip(), which the callers of fetch() call when the packet is too large
Skip ==
  /\ Undisturbed
  /\ rpc = "idle"
  /\ rres = "overflow"
  /\ nSize > 1
  /\ \E n \in Lengths(nHead) :
       /\ n + 1 <= nSize
       /\ WrapSkips \/ After(nHead, n) # Cap
       /\ nHead' = (nHead + n + 1) % Cap
       /\ rlen'  = n
  /\ unread' = TailOf(unread)
  /\ rpc'    = "release"
  /\ rres'   = "ok"
  /\ UNCHANGED <<nSize, nTail, pBuffer, writer, got, clear>>

\* nSize after atomic_add(); slip: the length word stays counted
ReleasedData == nSize - rlen
Released == nSize - (rlen + 1)

\* the end of fetch() and of skip()
Release ==
  /\ ~ torn
  /\ rpc = "release"
  /\ Overlap \/ wpc = "idle"
  /\ nSize' = Released
  /\ rpc'   = "idle"
  /\ rlen'  = 0
  /\ UNCHANGED <<nHead, nTail, pBuffer, writer, rres, got, clear, unread>>

-----------------------------------------------------------------------------
(* clear(): three plain stores, whatever the two ends are doing. The stores *)
(* are one step, at its end: a call that begins before that one meets it.   *)

\* the ring is torn: what it holds, and what the calls under way hold of it,
\* is not followed any more
Tear ==
  /\ torn' = TRUE
  /\ cpc' = "met"
  /\ nSize' = 0 /\ nHead' = 0 /\ nTail' = 0
  /\ pBuffer' = LeftOver
  /\ wsize' = 0 /\ wpacket' = <<>> /\ rlen' = 0
  /\ unread' = <<>>
  /\ UNCHANGED <<wid, rres, got>>

BothIdle == wpc = "idle" /\ rpc = "idle"

\* clear() is called while no call is under way
ClearBegin ==
  /\ cpc = "idle"
  /\ BothIdle
  /\ cpc' = "alone"
  /\ UNCHANGED <<nSize, nHead, nTail, pBuffer, writer, reader, torn, unread>>

\* clear() is called between the steps of a call
ClearMeets ==
  /\ cpc = "idle"
  /\ ~ BothIdle
  /\ Tear
  /\ UNCHANGED <<wpc, rpc>>

\* a call begins between the stores of clear()
SubmitMeets == cpc = "alone" /\ wpc = "idle" /\ wpc' = "store" /\ Tear /\ UNCHANGED rpc
FetchMeets == cpc = "alone" /\ rpc = "idle" /\ rpc' = "copy" /\ Tear /\ UNCHANGED wpc

\* nothing met it: the ring is empty and whole, whatever it was before
ClearEnd ==
  /\ cpc = "alone"
  /\ nSize' = 0 /\ nHead' = 0 /\ nTail' = 0
  /\ unread' = <<>>
  /\ torn' = FALSE
  /\ cpc'  = "idle"
  /\ UNCHANGED <<pBuffer, writer, reader>>

ClearEndMet ==
  /\ cpc = "met"
  /\ cpc' = "idle"
  /\ UNCHANGED <<nSize, nHead, nTail, pBuffer, writer, reader, torn, unread>>

-----------------------------------------------------------------------------
(* The two ends on a torn ring: calls begin and end, and fetch() may hand  *)
(* out a packet a second time, in the wrong place, or words that nobody    *)
(* submitted (Garbage). An error it returns then is not recorded.          *)

Garbage == <<[id |-> -1, n |-> 0]>>

TornSubmit ==
  /\ torn /\ cpc # "alone"
  /\ wpc' = IF wpc = "idle" THEN "store" ELSE "idle"
  /\ UNCHANGED <<nSize, nHead, nTail, pBuffer, wsize, wpacket, wid, reader, clear, unread>>

TornFetch ==
  /\ torn /\ cpc # "alone"
  /\ rpc' = IF rpc = "idle" THEN "copy" ELSE "idle"
  /\ rres' \in {"none", "overflow"}
  /\ got' \in {p \in Packets : Len(p) <= Limit} \cup {got, Garbage}
  /\ UNCHANGED <<nSize, nHead, nTail, pBuffer, writer, rlen, clear, unread>>

Next ==
  \/ \E n \in Sizes : SubmitCheck(n)
  \/ SubmitStore
  \/ SubmitPublish
  \/ FetchCheck
  \/ FetchCopy
  \/ Skip
  \/ Release
  \/ ClearBegin
  \/ ClearMeets
  \/ SubmitMeets
  \/ FetchMeets
  \/ ClearEnd
  \/ ClearEndMet
  \/ TornSubmit
  \/ TornFetch

Spec == Init /\ [][Next]_vars

-----------------------------------------------------------------------------
(* Properties. What they say of the ring they say unless it is torn: from  *)
(* the start until a clear() meets a call, and again from the next clear() *)
(* that meets none, whatever the torn ring held.                           *)

\* Every variable keeps its range, and positions never pass the padding cell. (The
\* words of a torn ring are not followed; they stay at what Tear set.)
TypeOK ==
  /\ nSize \in 0..Cap
  /\ nHead \in 0..Cap /\ nTail \in 0..Cap
  /\ pBuffer \in [0..Cap -> Words]
  /\ wpc \in {"idle", "store", "publish"}
  /\ wsize \in 0..Cap /\ wid \in 1..MaxId
  /\ wpacket \in Packets \cup {<<>>}
  /\ rpc \in {"idle", "copy", "release"}
  /\ rlen \in 0..Cap
  /\ rres \in {"none", "ok", "overflow", "corrupted"}
  /\ got \in Packets \cup {<<>>, Garbage}
  /\ cpc \in {"idle", "alone", "met"} /\ torn \in BOOLEAN
  /\ unread \in Seq(Packets)

\* the packets in the cells: those not taken out, and the one about to be published
Held == IF wpc = "publish" THEN Append(unread, wpacket) ELSE unread

\* the words the size does not count yet, and those it still counts
Unpublished == IF wpc = "publish" THEN Len(wpacket) + 1 ELSE 0
Unreleased == IF rpc = "release" THEN rlen + 1 ELSE 0

\* the cells from pos on spell the packet p, with its length before it
SpelledAt(pos, p) == pBuffer[pos] = LengthWord(Len(p)) /\ Loaded(pos, Len(p)) = p

\* The cells spell exactly the packets held, from the head to the tail, in
\* whatever state the two ends are: no submit() overwrote a word that fetch()
\* still has to copy, and both ends agree on where each packet starts. Nor does
\* fetch() find a record that is longer than the data: a reader that polls until
\* STATUS_NO_DATA is never stuck in front of a broken record.
FramesSpelled ==
  ~ torn =>
  /\ rres # "corrupted"
  /\ \E at \in [1..(Len(Held) + 1) -> 0..Cap] :
       /\ at[1] = nHead
       /\ at[Len(Held) + 1] = nTail
       /\ \A i \in 1..Len(Held) :
            SpelledAt(at[i], Held[i]) /\ at[i + 1] = After(at[i], Len(Held[i]))

\* The size counts the packets held, but for what one end has not added or
\* subtracted yet: space is neither leaked nor given away twice.
SizeAccounted ==
  ~ torn =>
  \E words \in [1..(Len(Held) + 1) -> 0..Cap] :
    /\ words[1] = 0
    /\ \A i \in 1..Len(Held) : words[i + 1] = words[i] + Len(Held[i]) + 1
    /\ nSize + Unpublished = words[Len(Held) + 1] + Unreleased

\* What fetch() hands out is the oldest packet submitted and not yet taken out,
\* whatever was fetched or skipped before it and whatever is being submitted.
DeliveredInOrder ==
  [][~ torn /\ rpc = "copy" /\ rpc' = "release" => unread # <<>> /\ got' = Head(unread)]_vars

Queue == INSTANCE PacketQueue WITH queue <- unread, broken <- torn

\* The ring implements the FIFO of whole packets: what fetch() copies out is
\* the oldest packet submitted and not yet taken out, word by word. A clear() that
\* meets a call breaks the queue; one that meets none starts it afresh.
ImplementsPacketQueue == Queue!Spec

-----------------------------------------------------------------------------
(* The inductive invariant behind them                                     *)

\* the padding cell stands for cell 0
Class(pos) == IF pos >= Cap THEN pos - Cap ELSE pos

\* A number of packets of the lengths len in the ring; at: where each begins,
\* words: how many words are before it. No two share a cell, as they lie apart on
\* the circle.
Route(number, len, at, words) ==
  /\ at \in [1..(number + 1) -> 0..Cap] /\ words \in [1..(number + 1) -> 0..Cap]
  /\ words[1] = 0
  /\ \A i \in 1..number : at[i + 1] = After(at[i], len[i]) /\ words[i + 1] = words[i] + len[i] + 1
  /\ \A i \in 1..(number + 1) : Class(at[i]) = Class(Class(at[1]) + words[i])
  /\ \A i, j \in 1..(number + 1) : i < j => words[i + 1] <= words[j]

LengthsOf(s) == [i \in 1..Len(s) |-> Len(s[i])]

\* The packets held are spelled on such a route from the head to the tail.
Framed(at, words) ==
  /\ Route(Len(Held), LengthsOf(Held), at, words)
  /\ at[1] = nHead /\ at[Len(Held) + 1] = nTail
  /\ nSize + Unpublished = words[Len(Held) + 1] + Unreleased
  /\ \A i \in 1..Len(Held) : SpelledAt(at[i], Held[i])

Framing ==
  \E at, words \in [1..(Len(Held) + 1) -> 0..Cap] : Framed(at, words)

\* The size submit() loaded is still the size, and its packet has room.
WriterKnown ==
  wpc # "idle" => wpacket \in Packets /\ wsize = nSize /\ wsize + Len(wpacket) + 1 <= Cap

\* The length fetch() read is that of the oldest packet, which the size counts.
ReaderKnown ==
  rpc = "copy" => unread # <<>> /\ rlen = Len(Head(unread)) /\ rlen + 1 <= nSize

\* Nothing meets a clear() that goes on alone.
ClearKnown == (cpc = "alone" => BothIdle) /\ (cpc = "met" => torn)

\* No fetch() found a broken record, unless in a torn ring.
IInv ==
  /\ TypeOK /\ ClearKnown /\ rres # "corrupted"
  /\ ~ torn => WriterKnown /\ ReaderKnown /\ Framing
=============================================================================
