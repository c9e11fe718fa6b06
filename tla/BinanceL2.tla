----------------------------- MODULE BinanceL2 -----------------------------
(***************************************************************************)
(* The diff-stream ("L2") book builder of                                  *)
(* src/backtest/bots/l2l3_orderbook/exchanges/binance_l2.py, together with *)
(* the venue it mirrors.                                                   *)
(*                                                                         *)
(* The venue keeps the true book; every change gets the next update id and *)
(* the venue streams diff events [U, u] that carry the final quantity, at  *)
(* u, of every level changed by updates U..u.  The REST snapshot returns   *)
(* the book at some update id, possibly a stale cached one.  The network   *)
(* may lose a diff and may close the connection.                           *)
(*                                                                         *)
(* The client side is two asyncio tasks: the receiver, which moves frames  *)
(* from the socket into event_q and records first_u, and the builder       *)
(* (start/_run_once).  asyncio runs one task at a time, so the receiver    *)
(* only moves frames while the builder is suspended: in the first_u sleep  *)
(* loop, or in `await event_q.get()`.  The snapshot fetch (urllib,         *)
(* synchronous), the load and the replay of the buffered events run        *)
(* without a suspension point.                                             *)
(***************************************************************************)
EXTENDS Naturals, Sequences, FiniteSets

CONSTANTS
  Prices,     \* price levels of the model
  MaxQty,     \* quantities are 0..MaxQty; 0 is an absent level
  MaxId,      \* the venue makes at most MaxId updates
  MaxDrops,   \* the network loses at most MaxDrops diff events
  MaxFails,   \* websockets.connect fails at most MaxFails times
  TopN,       \* top_n
  EmitFull,   \* emit_full
  None        \* first_u before the first frame

ASSUME PricesAssumption == Prices \subseteq Nat /\ Prices # {}
ASSUME QtyAssumption == MaxQty \in Nat \ {0}
ASSUME BoundsAssumption == {MaxId, MaxDrops, MaxFails} \subseteq Nat
ASSUME TopNAssumption == TopN \in Nat \ {0}
ASSUME EmitFullAssumption == EmitFull \in BOOLEAN
ASSUME NoneAssumption == None \notin Nat

Sides == {"bid", "ask"}
Levels == Sides \X Prices
Qty == 0 .. MaxQty
Book == [Levels -> Qty]
EmptyBook == [l \in Levels |-> 0]
Ids == 0 .. MaxId

VARIABLES
  exId,         \* the venue's last update id
  bookAt,       \* bookAt[i]: the venue's book after update i
  touched,      \* touched[i]: the level update i changed
  sentUpTo,     \* the venue has streamed every update up to this id
  wire,         \* diff events sent on the socket, not yet read
  conn,         \* "down" | "open" | "closed" (by the peer)
  drops,        \* diff events lost so far
  eventQ,       \* event_q of the current _run_once
  firstU,       \* first_u
  pc,           \* where the builder task is
  book,         \* self.bids and self.asks, one function over Levels
  bookUpdateId, \* self.book_update_id
  buffered,     \* the events drained from event_q after the snapshot
  applied,      \* the `applied` flag of the replay
  resyncCount,  \* self._resync_count
  fails,        \* failed connects so far
  published     \* the BookStates emitted, in emission order

venue == <<exId, bookAt, touched, sentUpTo>>
net == <<wire, conn, drops>>
builder == <<eventQ, firstU, pc, book, bookUpdateId, buffered, applied,
             resyncCount, fails, published>>
vars == <<venue, net, builder>>

PCs == {"idle", "waitFirst", "fetch", "replay", "bridge", "live", "backoff"}

(* A diff event as the venue sends it: the final quantity at u of every    *)
(* level that updates U..u changed.                                        *)
DiffEvent(U, u) ==
  [U |-> U, u |-> u,
   chg |-> [l \in {touched[i] : i \in U .. u} |-> bookAt[u][l]]]

(* The quantities of some of the levels: a diff's changes, a published    *)
(* top of book.                                                            *)
PartialBook == UNION {[S -> Qty] : S \in SUBSET Levels}

Event == [U : Ids, u : Ids, chg : PartialBook]

(* _apply_event: quantity 0 pops the level, any other replaces it.         *)
ApplyEvent(b, e) ==
  [l \in Levels |-> IF l \in DOMAIN e.chg THEN e.chg[l] ELSE b[l]]

(* The bid (ask) prices that are among the TopN highest (lowest) present.  *)
TopPrices(b, s) ==
  {p \in Prices :
     /\ b[<<s, p>>] > 0
     /\ \/ EmitFull
        \/ Cardinality({q \in Prices :
                          /\ b[<<s, q>>] > 0
                          /\ IF s = "bid" THEN q > p ELSE q < p}) < TopN}

(* What _emit_state publishes: the sorted, truncated sides.                *)
View(b) == [l \in {m \in Levels : m[2] \in TopPrices(b, m[1])} |-> b[l]]

(* _emit_state: nothing is published unless both sides are non-empty.     *)
Emit(b, id) ==
  IF TopPrices(b, "bid") # {} /\ TopPrices(b, "ask") # {}
  THEN published' = Append(published, [id |-> id, view |-> View(b)])
  ELSE UNCHANGED published

(* The finally of _run_once: the receiver is cancelled, the socket closed, *)
(* and the locals of the attempt (event_q, first_u, buffered) are gone.    *)
TearDown ==
  /\ conn' = "down"
  /\ wire' = <<>>
  /\ eventQ' = <<>>
  /\ firstU' = None
  /\ buffered' = <<>>
  /\ applied' = FALSE

(* An exception out of _run_once, caught by start: counted, then backoff. *)
Resync ==
  /\ TearDown
  /\ resyncCount' = resyncCount + 1
  /\ pc' = "backoff"

-----------------------------------------------------------------------------
(* The venue and the network.                                              *)

(* A level of the true book changes; it gets the next update id.           *)
VenueUpdate ==
  /\ exId < MaxId
  /\ \E l \in Levels, q \in Qty :
       /\ q # bookAt[exId][l]
       /\ exId' = exId + 1
       /\ bookAt' = [i \in 0 .. exId + 1 |->
                       IF i = exId + 1 THEN [bookAt[exId] EXCEPT ![l] = q]
                       ELSE bookAt[i]]
       /\ touched' = [i \in 1 .. exId + 1 |->
                        IF i = exId + 1 THEN l ELSE touched[i]]
  /\ UNCHANGED <<sentUpTo, net, builder>>

(* The venue streams the updates since the last diff as one diff event;    *)
(* only an open connection receives it.                                    *)
VenueSendDiff ==
  /\ sentUpTo < exId
  /\ sentUpTo' = exId
  /\ wire' = IF conn = "open" THEN Append(wire, DiffEvent(sentUpTo + 1, exId))
             ELSE wire
  /\ UNCHANGED <<exId, bookAt, touched, conn, drops, builder>>

(* A diff event in flight is lost.                                         *)
NetDrop ==
  /\ drops < MaxDrops
  /\ \E i \in 1 .. Len(wire) :
       wire' = SubSeq(wire, 1, i - 1) \o SubSeq(wire, i + 1, Len(wire))
  /\ drops' = drops + 1
  /\ UNCHANGED <<venue, conn, builder>>

(* The peer or the ping timeout closes the socket.                         *)
NetClose ==
  /\ conn = "open"
  /\ conn' = "closed"
  /\ UNCHANGED <<venue, wire, drops, builder>>

-----------------------------------------------------------------------------
(* The receiver task, _receiver: one frame into event_q.  It runs only     *)
(* while the builder is suspended, and ends with the socket's frames.      *)
Receive ==
  /\ conn \in {"open", "closed"}
  /\ wire # <<>>
  /\ pc \in {"waitFirst", "bridge", "live"}
  /\ eventQ' = Append(eventQ, Head(wire))
  /\ firstU' = IF firstU = None THEN Head(wire).U ELSE firstU
  /\ wire' = Tail(wire)
  /\ UNCHANGED <<venue, conn, drops, pc, book, bookUpdateId, buffered,
                 applied, resyncCount, fails, published>>

-----------------------------------------------------------------------------
(* The builder task.                                                       *)

(* start: a new attempt; _run_once clears the book and connects.  A failed *)
(* connect raises out of _run_once.                                        *)
Start ==
  /\ pc = "idle"
  /\ book' = EmptyBook
  /\ bookUpdateId' = 0
  /\ \/ /\ conn' = "open"
        /\ pc' = "waitFirst"
        /\ UNCHANGED <<wire, eventQ, firstU, buffered, applied,
                       resyncCount, fails>>
     \/ /\ fails < MaxFails
        /\ fails' = fails + 1
        /\ Resync
  /\ UNCHANGED <<venue, drops, published>>

(* The backoff sleep of start ends.                                        *)
Backoff ==
  /\ pc = "backoff"
  /\ pc' = "idle"
  /\ UNCHANGED <<venue, net, eventQ, firstU, book, bookUpdateId, buffered,
                 applied, resyncCount, fails, published>>

(* _fetch_snapshot, once first_u is known; again while lastUpdateId is     *)
(* below first_u.  A failed fetch returns from _run_once: no exception.    *)
(* A fresh enough snapshot is loaded and event_q drained into `buffered`,  *)
(* all without a suspension point.                                         *)
Fetch ==
  /\ \/ pc = "waitFirst" /\ firstU # None
     \/ pc = "fetch"
  /\ \/ /\ TearDown
        /\ pc' = "idle"
        /\ UNCHANGED <<book, bookUpdateId>>
     \/ \E k \in 0 .. exId :
          IF k < firstU
          THEN /\ pc' = "fetch"
               /\ UNCHANGED <<net, eventQ, firstU, book, bookUpdateId,
                              buffered, applied>>
          ELSE /\ book' = bookAt[k]
               /\ bookUpdateId' = k
               /\ buffered' = eventQ
               /\ eventQ' = <<>>
               /\ applied' = FALSE
               /\ pc' = "replay"
               /\ UNCHANGED <<net, firstU>>
  /\ UNCHANGED <<venue, drops, resyncCount, fails, published>>

(* Mutant of ReplayStep: the bridge test off by one, U <= id + 2.        *)
ReplayStepLooseBridge ==
  /\ pc = "replay"
  /\ buffered # <<>>
  /\ LET e == Head(buffered) IN
       \/ /\ e.u <= bookUpdateId
          /\ buffered' = Tail(buffered)
          /\ UNCHANGED <<net, eventQ, firstU, pc, book, bookUpdateId,
                         applied, resyncCount>>
       \/ /\ e.u > bookUpdateId
          /\ e.U <= bookUpdateId + 2
          /\ book' = ApplyEvent(book, e)
          /\ bookUpdateId' = e.u
          /\ applied' = TRUE
          /\ buffered' = Tail(buffered)
          /\ UNCHANGED <<net, eventQ, firstU, pc, resyncCount>>
       \/ /\ e.u > bookUpdateId
          /\ e.U > bookUpdateId + 2
          /\ Resync
          /\ UNCHANGED <<book, bookUpdateId>>
  /\ UNCHANGED <<venue, drops, fails, published>>

(* Mutant of ReplayStep: no skip of covered events, only the bridge test. *)
ReplayStepNoSkip ==
  /\ pc = "replay"
  /\ buffered # <<>>
  /\ LET e == Head(buffered) IN
       \/ /\ e.U <= bookUpdateId + 1
          /\ book' = ApplyEvent(book, e)
          /\ bookUpdateId' = e.u
          /\ applied' = TRUE
          /\ buffered' = Tail(buffered)
          /\ UNCHANGED <<net, eventQ, firstU, pc, resyncCount>>
       \/ /\ e.U > bookUpdateId + 1
          /\ Resync
          /\ UNCHANGED <<book, bookUpdateId>>
  /\ UNCHANGED <<venue, drops, fails, published>>

(* One buffered event of the replay loop: skip it if covered, apply it if  *)
(* it bridges, raise binance_l2_gap if it starts past the cursor.          *)
ReplayStep ==
  /\ pc = "replay"
  /\ buffered # <<>>
  /\ LET e == Head(buffered) IN
       \/ /\ e.u <= bookUpdateId
          /\ buffered' = Tail(buffered)
          /\ UNCHANGED <<net, eventQ, firstU, pc, book, bookUpdateId,
                         applied, resyncCount>>
       \/ /\ e.u > bookUpdateId
          /\ e.U <= bookUpdateId + 1
          /\ book' = ApplyEvent(book, e)
          /\ bookUpdateId' = e.u
          /\ applied' = TRUE
          /\ buffered' = Tail(buffered)
          /\ UNCHANGED <<net, eventQ, firstU, pc, resyncCount>>
       \/ /\ e.u > bookUpdateId
          /\ e.U > bookUpdateId + 1
          /\ Resync
          /\ UNCHANGED <<book, bookUpdateId>>
  /\ UNCHANGED <<venue, drops, fails, published>>

(* The replay loop is over: live if it applied an event, else wait for the *)
(* first bridging event.                                                   *)
ReplayDone ==
  /\ pc = "replay"
  /\ buffered = <<>>
  /\ pc' = IF applied THEN "live" ELSE "bridge"
  /\ UNCHANGED <<venue, net, eventQ, firstU, book, bookUpdateId, buffered,
                 applied, resyncCount, fails, published>>

(* Mutant of BridgeStep: the cursor set past the bridging event, to the    *)
(* next id expected.                                                       *)
BridgeStepCursorPastEvent ==
  /\ pc = "bridge"
  /\ eventQ # <<>>
  /\ LET e == Head(eventQ) IN
       \/ /\ e.u <= bookUpdateId
          /\ eventQ' = Tail(eventQ)
          /\ UNCHANGED <<net, firstU, pc, book, bookUpdateId, buffered,
                         applied, resyncCount>>
       \/ /\ e.u > bookUpdateId
          /\ e.U <= bookUpdateId + 1
          /\ book' = ApplyEvent(book, e)
          /\ bookUpdateId' = e.u + 1
          /\ eventQ' = Tail(eventQ)
          /\ pc' = "live"
          /\ UNCHANGED <<net, firstU, buffered, applied, resyncCount>>
       \/ /\ e.u > bookUpdateId
          /\ e.U > bookUpdateId + 1
          /\ Resync
          /\ UNCHANGED <<book, bookUpdateId>>
  /\ UNCHANGED <<venue, drops, fails, published>>

(* `if not applied`: one event of the loop awaiting the bridging event.    *)
(* The event it applies is not emitted.                                    *)
BridgeStep ==
  /\ pc = "bridge"
  /\ eventQ # <<>>
  /\ LET e == Head(eventQ) IN
       \/ /\ e.u <= bookUpdateId
          /\ eventQ' = Tail(eventQ)
          /\ UNCHANGED <<net, firstU, pc, book, bookUpdateId, buffered,
                         applied, resyncCount>>
       \/ /\ e.u > bookUpdateId
          /\ e.U <= bookUpdateId + 1
          /\ book' = ApplyEvent(book, e)
          /\ bookUpdateId' = e.u
          /\ eventQ' = Tail(eventQ)
          /\ pc' = "live"
          /\ UNCHANGED <<net, firstU, buffered, applied, resyncCount>>
       \/ /\ e.u > bookUpdateId
          /\ e.U > bookUpdateId + 1
          /\ Resync
          /\ UNCHANGED <<book, bookUpdateId>>
  /\ UNCHANGED <<venue, drops, fails, published>>

(* Mutant of LiveStep: _emit_state called before _apply_event.             *)
LiveStepEmitsBeforeApply ==
  /\ pc = "live"
  /\ eventQ # <<>>
  /\ LET e == Head(eventQ) IN
       \/ /\ e.u <= bookUpdateId
          /\ eventQ' = Tail(eventQ)
          /\ UNCHANGED <<net, firstU, pc, book, bookUpdateId, buffered,
                         applied, resyncCount, published>>
       \/ /\ e.u > bookUpdateId
          /\ e.U > bookUpdateId + 1
          /\ Resync
          /\ UNCHANGED <<book, bookUpdateId, published>>
       \/ /\ e.u > bookUpdateId
          /\ e.U <= bookUpdateId + 1
          /\ book' = ApplyEvent(book, e)
          /\ bookUpdateId' = e.u
          /\ eventQ' = Tail(eventQ)
          /\ Emit(book, e.u)
          /\ UNCHANGED <<net, firstU, pc, buffered, applied, resyncCount>>
  /\ UNCHANGED <<venue, drops, fails>>

(* One event of the live loop: skip, gap, or apply and _emit_state.        *)
LiveStep ==
  /\ pc = "live"
  /\ eventQ # <<>>
  /\ LET e == Head(eventQ) IN
       \/ /\ e.u <= bookUpdateId
          /\ eventQ' = Tail(eventQ)
          /\ UNCHANGED <<net, firstU, pc, book, bookUpdateId, buffered,
                         applied, resyncCount, published>>
       \/ /\ e.u > bookUpdateId
          /\ e.U > bookUpdateId + 1
          /\ Resync
          /\ UNCHANGED <<book, bookUpdateId, published>>
       \/ /\ e.u > bookUpdateId
          /\ e.U <= bookUpdateId + 1
          /\ book' = ApplyEvent(book, e)
          /\ bookUpdateId' = e.u
          /\ eventQ' = Tail(eventQ)
          /\ Emit(ApplyEvent(book, e), e.u)
          /\ UNCHANGED <<net, firstU, pc, buffered, applied, resyncCount>>
  /\ UNCHANGED <<venue, drops, fails>>

-----------------------------------------------------------------------------
Init ==
  /\ exId = 0
  /\ bookAt \in [{0} -> Book]
  /\ touched = [i \in {} |-> <<"bid", CHOOSE p \in Prices : TRUE>>]
  /\ sentUpTo = 0
  /\ wire = <<>>
  /\ conn = "down"
  /\ drops = 0
  /\ eventQ = <<>>
  /\ firstU = None
  /\ pc = "idle"
  /\ book = EmptyBook
  /\ bookUpdateId = 0
  /\ buffered = <<>>
  /\ applied = FALSE
  /\ resyncCount = 0
  /\ fails = 0
  /\ published = <<>>

Venue == VenueUpdate \/ VenueSendDiff
Network == NetDrop \/ NetClose
Builder == Start \/ Backoff \/ Fetch \/ ReplayStep \/ ReplayDone
           \/ BridgeStep \/ LiveStep

Next == Venue \/ Network \/ Receive \/ Builder

(* asyncio runs every ready task eventually: the builder and the receiver  *)
(* are weakly fair.  The venue and the network are not.                    *)
Fairness == WF_vars(Builder) /\ WF_vars(Receive)

Spec == Init /\ [][Next]_vars /\ Fairness

-----------------------------------------------------------------------------
(* The type invariant.                                                     *)
TypeOK ==
  /\ exId \in Ids
  /\ bookAt \in [0 .. exId -> Book]
  /\ touched \in [1 .. exId -> Levels]
  /\ sentUpTo \in 0 .. exId
  /\ wire \in Seq(Event)
  /\ conn \in {"down", "open", "closed"}
  /\ drops \in 0 .. MaxDrops
  /\ eventQ \in Seq(Event)
  /\ firstU \in Ids \cup {None}
  /\ pc \in PCs
  /\ book \in Book
  /\ bookUpdateId \in Ids
  /\ buffered \in Seq(Event)
  /\ applied \in BOOLEAN
  /\ resyncCount \in Nat
  /\ fails \in 0 .. MaxFails
  /\ published \in Seq([id : Nat, view : PartialBook])

(* The mirror is the venue's book: once a snapshot is loaded, through the  *)
(* replay, the wait for the bridging event and the live loop, self.bids    *)
(* and self.asks are the venue's book at self.book_update_id.  Stale       *)
(* snapshots, lost diffs, covered and overlapping events and resyncs all   *)
(* have to be handled for this to hold.                                    *)
BookMatchesVenue ==
  pc \in {"replay", "bridge", "live"} =>
    /\ bookUpdateId <= exId
    /\ book = bookAt[bookUpdateId]

(* What reaches the bus is the venue's book: every BookState the live     *)
(* loop hands to _emit_state carries the top levels of the venue's book at *)
(* the update id of the diff it was built from (spec 4.2 step 6).  Breaks  *)
(* if an event is applied over a gap, a stale snapshot is kept, or the     *)
(* state is emitted before the diff is applied.                            *)
PublishedMatchesVenue ==
  \A i \in 1 .. Len(published) :
    /\ published[i].id <= exId
    /\ published[i].view = View(bookAt[published[i].id])

(* The builder implements the abstract mirror L2Mirror: the venue's       *)
(* history is bookAt, and the BookStates are published at strictly         *)
(* increasing update ids, each the venue's view at its id (spec 5: within  *)
(* one venue, BookStates in strictly increasing applied-sequence order).   *)
(* Across a resync this needs the refetch rule and the new stream: the     *)
(* snapshot is never older than first_u, which is past every id the old    *)
(* epoch published.                                                        *)
Mirror == INSTANCE L2Mirror WITH top <- exId, hist <- bookAt

ImplementsMirror == Mirror!Spec

(* binance_l2.py promises to abort the epoch on "any error (... disconnect)"*)
(* (spec 4.2): a connection the peer has closed is eventually torn down    *)
(* and the builder reconnects.  The receiver task just ends when the       *)
(* socket closes and nothing tells the builder, which awaits event_q.get() *)
(* with no timeout.                                                        *)
ClosedConnectionIsTornDown == conn = "closed" ~> conn = "down"

(* Every attempt that ends is a retry with backoff and a counted resync    *)
(* (spec 7: snapshot failures are retried with backoff and logged with the *)
(* resync counter).  A failed _fetch_snapshot returns from _run_once and   *)
(* start() reconnects at once, uncounted.                                  *)
EveryRetryBacksOff ==
  [][pc' = "idle" /\ pc # "idle" => pc = "backoff"]_vars

=============================================================================
