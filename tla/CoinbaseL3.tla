----------------------------- MODULE CoinbaseL3 -----------------------------
(***************************************************************************)
(* The order-stream ("L3") book builder of                                 *)
(* src/backtest/bots/l2l3_orderbook/exchanges/coinbase_l3.py, together     *)
(* with the venue whose full channel it mirrors.                           *)
(*                                                                         *)
(* The venue keeps its resting orders; every message (received, open,      *)
(* match, done, change) gets the next sequence number and is streamed to   *)
(* a subscribed connection.  The REST level-3 snapshot returns the orders  *)
(* at some sequence number, possibly a stale one, or fails.  The network   *)
(* may lose a message.  An order id is used once; its side is part of the  *)
(* id (Buys), its price and size are chosen when it opens.                 *)
(*                                                                         *)
(* The client side is two asyncio tasks: the receiver, which moves frames  *)
(* from the socket into event_q, and the builder (start/_run_once).  The  *)
(* receiver only runs while the builder is suspended: in the live loop's   *)
(* `await event_q.get()` and in the fallback's sleep.  From the creation   *)
(* of the receiver to the live loop (the synchronous urllib fetch, the     *)
(* load, the drain and the buffered replay) the builder never suspends.    *)
(***************************************************************************)
EXTENDS Naturals, Sequences, SequencesExt

CONSTANTS
  OrderIds,      \* the orders of the model
  Buys,          \* the ids of buy orders; the others sell
  Prices,        \* prices of the model
  MaxSize,       \* order sizes are 1 .. MaxSize
  MaxSeq,        \* the venue sends at most MaxSeq messages
  MaxDrops,      \* the network loses at most MaxDrops messages
  MaxFails,      \* connects and snapshot fetches fail at most MaxFails times
  TopN,          \* top_n
  FallbackAfter, \* the literal 3 of `_snapshot_failures >= 3`
  AllowFallback, \* allow_l2_fallback
  InitOrders,    \* the venue's resting orders at sequence number 0
  None           \* no BookState published yet

ASSUME OrdersAssumption == Buys \subseteq OrderIds
ASSUME PricesL3Assumption == Prices \subseteq Nat \ {0} /\ Prices # {}
ASSUME SizeAssumption == MaxSize \in Nat \ {0}
ASSUME BoundsL3Assumption == {MaxSeq, MaxDrops, MaxFails} \subseteq Nat
ASSUME TopNL3Assumption == TopN \in Nat \ {0}
ASSUME FallbackAssumption ==
  FallbackAfter \in Nat \ {0} /\ AllowFallback \in BOOLEAN

Sides == {"buy", "sell"}
Side(o) == IF o \in Buys THEN "buy" ELSE "sell"
Sizes == 1 .. MaxSize
Seqs == 0 .. MaxSeq

(* self.orders: order_id -> {side, price, size}, for the orders it holds.  *)
Order == [side : Sides, price : Prices, size : Sizes]
OrderMap == UNION {[D -> Order] : D \in SUBSET OrderIds}

(* self.levels: side -> {price -> size}, with positive sizes.              *)
IsLevelMap(lv) ==
  /\ DOMAIN lv = Sides
  /\ \A s \in Sides : /\ DOMAIN lv[s] \subseteq Prices
                     /\ \A p \in DOMAIN lv[s] : lv[s][p] \in Nat \ {0}
NoLevels == [s \in Sides |-> <<>>]

MsgTypes == {"received", "open", "match", "done", "change"}
ASSUME InitOrdersAssumption == InitOrders \in OrderMap
ASSUME NoneL3Assumption == None \notin [kind : {"L2", "L3"}, seq : Seqs]

Msg == [seq : 1 .. MaxSeq, type : MsgTypes, o : OrderIds,
        price : Prices \cup {0}, size : Sizes \cup {0}]

VARIABLES
  vseq,        \* the venue's last sequence number
  vAt,         \* vAt[i]: the venue's resting orders after message i
  vstatus,     \* the life-cycle of each order id at the venue
  wire,        \* messages sent on the socket, not yet read
  conn,        \* the websocket of the attempt is open
  drops,       \* messages lost so far
  fails,       \* failed connects and fetches so far
  recvAlive,   \* the receiver task of the attempt runs
  eventQ,      \* event_q of the current _run_once
  pc,          \* where the builder task is
  orders,      \* self.orders
  levels,      \* self.levels
  lastSeq,     \* self.last_sequence
  snapFails,   \* self._snapshot_failures
  streak,      \* history: snapshot fetches failed since the last success
  pub          \* the BookState last published, or None

venue == <<vseq, vAt, vstatus>>
net == <<wire, conn, drops, fails>>
builder == <<recvAlive, eventQ, pc, orders, levels, lastSeq, snapFails,
             streak, pub>>
vars == <<venue, net, builder>>

PCs == {"idle", "fetch", "live", "backoff", "rest"}

-----------------------------------------------------------------------------
(* The order book of the builder (_add_order, _remove_order,               *)
(* _apply_message) as operators on a pair [orders, levels].                *)

LevelAt(lv, s, p) == IF p \in DOMAIN lv[s] THEN lv[s][p] ELSE 0
SetLevel(lv, s, p, q) == [lv EXCEPT ![s] = (p :> q) @@ lv[s]]
PopLevel(lv, s, p) == [lv EXCEPT ![s] = Restrict(lv[s], DOMAIN lv[s] \ {p})]
DropOrder(ord, o) == Restrict(ord, DOMAIN ord \ {o})

(* self.orders[order_id] = {...}: the order is added or replaced.          *)
SetOrder(ord, o, r) == [x \in DOMAIN ord \cup {o} |-> IF x = o THEN r ELSE ord[x]]

(* _add_order: the order is (re)set and its size added to its level.      *)
AddOrder(st, o, s, p, q) ==
  [orders |-> SetOrder(st.orders, o, [side |-> s, price |-> p, size |-> q]),
   levels |-> SetLevel(st.levels, s, p, LevelAt(st.levels, s, p) + q)]

(* Mutant of RemoveOrder: the level is stored even when nothing is left.  *)
RemoveOrderKeepsEmptyLevel(st, o) ==
  IF o \notin DOMAIN st.orders THEN st
  ELSE LET r == st.orders[o]
       IN [orders |-> DropOrder(st.orders, o),
           levels |-> SetLevel(st.levels, r.side, r.price,
                               LevelAt(st.levels, r.side, r.price) - r.size)]

(* _remove_order: an unknown id is ignored; the level loses the order's    *)
(* size and is popped when nothing positive is left.                       *)
RemoveOrder(st, o) ==
  IF o \notin DOMAIN st.orders THEN st
  ELSE LET r == st.orders[o]
           rest == LevelAt(st.levels, r.side, r.price) - r.size
       IN [orders |-> DropOrder(st.orders, o),
           levels |-> IF rest <= 0 THEN PopLevel(st.levels, r.side, r.price)
                      ELSE SetLevel(st.levels, r.side, r.price, rest)]

(* max(0.0, x) on the level arithmetic.                                    *)
Clamp(x) == IF x < 0 THEN 0 ELSE x

(* Mutant of PartialFill: the order shrinks, its level does not.           *)
PartialFillKeepsLevel(st, o, t) ==
  [st EXCEPT !.orders[o].size = st.orders[o].size - t]

(* A partial fill of a resting maker order.                                *)
PartialFill(st, o, t) ==
  LET r == st.orders[o]
  IN [orders |-> [st.orders EXCEPT ![o].size = r.size - t],
      levels |-> SetLevel(st.levels, r.side, r.price,
                          Clamp(LevelAt(st.levels, r.side, r.price) - t))]

(* A change of a resting order's size to q > 0: only the delta is applied  *)
(* to the level.                                                           *)
Resize(st, o, q) ==
  LET r == st.orders[o]
  IN [orders |-> [st.orders EXCEPT ![o].size = q],
      levels |-> SetLevel(st.levels, r.side, r.price,
                          Clamp(LevelAt(st.levels, r.side, r.price) + q - r.size))]

(* _apply_message.                                                         *)
ApplyMessage(st, m) ==
  CASE m.type = "received" -> st
    [] m.type = "open" -> AddOrder(st, m.o, Side(m.o), m.price, m.size)
    [] m.type = "match" ->
         IF m.o \notin DOMAIN st.orders THEN st
         ELSE IF m.size >= st.orders[m.o].size THEN RemoveOrder(st, m.o)
         ELSE PartialFill(st, m.o, m.size)
    [] m.type = "done" -> RemoveOrder(st, m.o)
    [] m.type = "change" ->
         IF m.o \notin DOMAIN st.orders THEN st
         ELSE IF m.size <= 0 THEN RemoveOrder(st, m.o)
         ELSE Resize(st, m.o, m.size)

(* _load_snapshot: clear, then _add_order for every bid and ask.           *)
LoadSnapshot(snap) ==
  [orders |-> snap,
   levels |-> [s \in Sides |->
                 [p \in {snap[o].price : o \in {x \in DOMAIN snap : snap[x].side = s}} |->
                    MapThenSumSet(LAMBDA o : snap[o].size,
                                  {o \in DOMAIN snap : snap[o].side = s /\ snap[o].price = p})]]]

-----------------------------------------------------------------------------
(* What _emit_state publishes.                                             *)

Pairs(lv, s) == {<<p, lv[s][p]>> : p \in DOMAIN lv[s]}
Take(s, n) == SubSeq(s, 1, IF n < Len(s) THEN n ELSE Len(s))

(* _top_levels: bids by price descending, asks ascending, cut at top_n.    *)
TopBids(lv) == Take(SetToSortSeq(Pairs(lv, "buy"), LAMBDA a, b : a[1] > b[1]), TopN)
TopAsks(lv) == Take(SetToSortSeq(Pairs(lv, "sell"), LAMBDA a, b : a[1] < b[1]), TopN)

(* Mutant of EmitState: the sides are not cut at top_n.                    *)
EmitStateUncut(st, seq, old) ==
  LET bids == SetToSortSeq(Pairs(st.levels, "buy"), LAMBDA a, b : a[1] > b[1])
      asks == SetToSortSeq(Pairs(st.levels, "sell"), LAMBDA a, b : a[1] < b[1])
  IN IF bids # <<>> /\ asks # <<>>
     THEN [kind |-> "L3", seq |-> seq, bids |-> bids, asks |-> asks,
           count |-> Cardinality(DOMAIN st.orders)]
     ELSE old

(* _emit_state after the message with sequence number seq: the BookState  *)
(* published last is this one, or still old when a side is empty.         *)
EmitState(st, seq, old) ==
  IF TopBids(st.levels) # <<>> /\ TopAsks(st.levels) # <<>>
  THEN [kind |-> "L3", seq |-> seq, bids |-> TopBids(st.levels),
        asks |-> TopAsks(st.levels), count |-> Cardinality(DOMAIN st.orders)]
  ELSE old

(* One message of the buffered replay (lines 82-88): stale ones are        *)
(* skipped, every other one is applied, with no gap check, and emitted.    *)
(* acc is [orders, levels, lastSeq, pub].                                  *)
ReplayOne(acc, m) ==
  IF m.seq <= acc.lastSeq THEN acc
  ELSE LET st == ApplyMessage(acc, m)
       IN [orders |-> st.orders, levels |-> st.levels, lastSeq |-> m.seq,
           pub |-> EmitState(st, m.seq, acc.pub)]

-----------------------------------------------------------------------------
(* The venue and the network.                                              *)

(* The venue's next message: its book after m is b, and a subscribed       *)
(* connection receives m.                                                  *)
VenueSends(type, o, p, q, b) ==
  /\ vseq < MaxSeq
  /\ vseq' = vseq + 1
  /\ vAt' = [i \in 0 .. vseq + 1 |-> IF i = vseq + 1 THEN b ELSE vAt[i]]
  /\ wire' = IF conn
             THEN Append(wire, [seq |-> vseq + 1, type |-> type, o |-> o,
                                price |-> p, size |-> q])
             ELSE wire

VenueBook == vAt[vseq]

VenueReceived(o) ==
  /\ vstatus[o] = "new"
  /\ vstatus' = [vstatus EXCEPT ![o] = "received"]
  /\ VenueSends("received", o, 0, 0, VenueBook)

VenueOpen(o, p, q) ==
  /\ vstatus[o] = "received"
  /\ vstatus' = [vstatus EXCEPT ![o] = "open"]
  /\ VenueSends("open", o, p, q,
                SetOrder(VenueBook, o, [side |-> Side(o), price |-> p, size |-> q]))

(* A trade against resting maker order o; a full fill takes it off the   *)
(* book, and its done message follows later.                               *)
VenueMatch(o, t) ==
  /\ vstatus[o] = "open"
  /\ t <= VenueBook[o].size
  /\ IF t = VenueBook[o].size
     THEN /\ vstatus' = [vstatus EXCEPT ![o] = "filled"]
          /\ VenueSends("match", o, 0, t, DropOrder(VenueBook, o))
     ELSE /\ UNCHANGED vstatus
          /\ VenueSends("match", o, 0, t,
                        [VenueBook EXCEPT ![o].size = VenueBook[o].size - t])

(* A resting order's size is reduced to q.                                 *)
VenueChange(o, q) ==
  /\ vstatus[o] = "open"
  /\ q < VenueBook[o].size
  /\ UNCHANGED vstatus
  /\ VenueSends("change", o, 0, q, [VenueBook EXCEPT ![o].size = q])

(* The order leaves the venue: cancelled, filled, or never rested.         *)
VenueDone(o) ==
  /\ vstatus[o] \in {"received", "open", "filled"}
  /\ vstatus' = [vstatus EXCEPT ![o] = "gone"]
  /\ VenueSends("done", o, 0, 0, DropOrder(VenueBook, o))

VenueStep ==
  /\ \E o \in OrderIds :
       \/ VenueReceived(o)
       \/ \E p \in Prices, q \in Sizes : VenueOpen(o, p, q)
       \/ \E t \in Sizes : VenueMatch(o, t)
       \/ \E q \in Sizes : VenueChange(o, q)
       \/ VenueDone(o)
  /\ UNCHANGED <<conn, drops, fails, builder>>

(* A message in flight is lost.                                            *)
NetDrop ==
  /\ drops < MaxDrops
  /\ \E i \in 1 .. Len(wire) : wire' = RemoveAt(wire, i)
  /\ drops' = drops + 1
  /\ UNCHANGED <<venue, conn, fails, builder>>

(* Mutant of Receive: the receiver also runs during the snapshot fetch, as *)
(* it would if the fetch were awaited (e.g. in an executor).               *)
ReceiveDuringFetch ==
  /\ recvAlive
  /\ wire # <<>>
  /\ pc \in {"fetch", "live", "rest"}
  /\ eventQ' = Append(eventQ, Head(wire))
  /\ wire' = Tail(wire)
  /\ UNCHANGED <<venue, conn, drops, fails, recvAlive, pc, orders, levels,
                 lastSeq, snapFails, streak, pub>>

-----------------------------------------------------------------------------
(* The receiver task, _receiver: one frame into the unbounded event_q.     *)
(* It runs only while the builder is suspended; it is cancelled by the     *)
(* finally of _run_once.                                                   *)
Receive ==
  /\ recvAlive
  /\ wire # <<>>
  /\ pc \in {"live", "rest"}
  /\ eventQ' = Append(eventQ, Head(wire))
  /\ wire' = Tail(wire)
  /\ UNCHANGED <<venue, conn, drops, fails, recvAlive, pc, orders, levels,
                 lastSeq, snapFails, streak, pub>>

-----------------------------------------------------------------------------
(* The builder task.                                                       *)

(* An exception out of _run_once: the finally cancels the receiver, the   *)
(* `async with` closes the socket, and start sleeps resync_backoff.        *)
Resync ==
  /\ recvAlive' = FALSE
  /\ conn' = FALSE
  /\ wire' = <<>>
  /\ eventQ' = <<>>
  /\ pc' = "backoff"

(* _run_once up to the fetch: the book is cleared, the socket connects,    *)
(* the subscription is sent and the receiver task created.  A failed       *)
(* connect raises.                                                         *)
Connect ==
  /\ pc = "idle"
  /\ orders' = <<>>
  /\ levels' = NoLevels
  /\ lastSeq' = 0
  /\ \/ /\ conn' = TRUE
        /\ recvAlive' = TRUE
        /\ eventQ' = <<>>
        /\ pc' = "fetch"
        /\ UNCHANGED <<wire, fails>>
     \/ /\ fails < MaxFails
        /\ fails' = fails + 1
        /\ Resync
  /\ UNCHANGED <<venue, drops, snapFails, streak, pub>>

(* The synchronous _fetch_snapshot and what follows it without a          *)
(* suspension point.  A failure is counted in _snapshot_failures; from     *)
(* the FallbackAfter-th on, the builder runs _run_rest_only with the       *)
(* receiver still running, otherwise it raises.  A snapshot at sequence k  *)
(* is loaded, event_q is drained and the drained messages replayed.        *)
Fetch ==
  /\ pc = "fetch"
  /\ \/ /\ fails < MaxFails
        /\ fails' = fails + 1
        /\ snapFails' = snapFails + 1
        /\ streak' = streak + 1
        /\ IF AllowFallback /\ snapFails + 1 >= FallbackAfter
           THEN /\ pc' = "rest"
                /\ UNCHANGED <<wire, conn, recvAlive, eventQ>>
           ELSE Resync
        /\ UNCHANGED <<orders, levels, lastSeq, pub>>
     \/ /\ \E k \in 0 .. vseq :
             LET snap == LoadSnapshot(vAt[k])
                 acc == FoldLeft(ReplayOne,
                                 [orders |-> snap.orders, levels |-> snap.levels,
                                  lastSeq |-> k, pub |-> pub],
                                 eventQ)
             IN /\ orders' = acc.orders
                /\ levels' = acc.levels
                /\ lastSeq' = acc.lastSeq
                /\ pub' = acc.pub
        /\ eventQ' = <<>>
        /\ pc' = "live"
        /\ streak' = 0
        /\ UNCHANGED <<wire, conn, fails, recvAlive, snapFails>>
  /\ UNCHANGED <<venue, drops>>

(* One pass of the live loop: skip a stale message, raise on a gap, apply  *)
(* a contiguous one and emit.                                              *)
LiveStep ==
  /\ pc = "live"
  /\ eventQ # <<>>
  /\ LET m == Head(eventQ)
          st == ApplyMessage([orders |-> orders, levels |-> levels], m)
     IN \/ /\ m.seq <= lastSeq
           /\ eventQ' = Tail(eventQ)
           /\ UNCHANGED <<net, recvAlive, pc, orders, levels, lastSeq, pub>>
        \/ /\ m.seq > lastSeq + 1
           /\ Resync
           /\ UNCHANGED <<drops, fails, orders, levels, lastSeq, pub>>
        \/ /\ m.seq = lastSeq + 1
           /\ eventQ' = Tail(eventQ)
           /\ orders' = st.orders
           /\ levels' = st.levels
           /\ lastSeq' = m.seq
           /\ pub' = EmitState(st, m.seq, pub)
           /\ UNCHANGED <<net, recvAlive, pc>>
  /\ UNCHANGED <<venue, snapFails, streak>>

(* The backoff sleep of start ends.                                        *)
Backoff ==
  /\ pc = "backoff"
  /\ pc' = "idle"
  /\ UNCHANGED <<venue, net, recvAlive, eventQ, orders, levels, lastSeq,
                 snapFails, streak, pub>>

(* One round of _run_rest_only: the level-2 snapshot (the venue's         *)
(* aggregated book now) is published by _emit_state_l2, then it sleeps.   *)
(* A failed fetch publishes nothing and changes no state.                  *)
RestPoll ==
  /\ pc = "rest"
  /\ LET lv == LoadSnapshot(VenueBook).levels
     IN /\ TopBids(lv) # <<>> /\ TopAsks(lv) # <<>>
        /\ pub' = [kind |-> "L2", seq |-> vseq, bids |-> TopBids(lv),
                   asks |-> TopAsks(lv), count |-> 0]
  /\ UNCHANGED <<venue, net, recvAlive, eventQ, pc, orders, levels, lastSeq,
                 snapFails, streak>>

-----------------------------------------------------------------------------
Init ==
  /\ vseq = 0
  /\ vAt = [i \in {0} |-> InitOrders]
  /\ vstatus = [o \in OrderIds |-> IF o \in DOMAIN InitOrders THEN "open" ELSE "new"]
  /\ wire = <<>>
  /\ conn = FALSE
  /\ drops = 0
  /\ fails = 0
  /\ recvAlive = FALSE
  /\ eventQ = <<>>
  /\ pc = "idle"
  /\ orders = <<>>
  /\ levels = NoLevels
  /\ lastSeq = 0
  /\ snapFails = 0
  /\ streak = 0
  /\ pub = None

Builder == Connect \/ Fetch \/ LiveStep \/ Backoff \/ RestPoll

Next == VenueStep \/ NetDrop \/ Receive \/ Builder

Spec == Init /\ [][Next]_vars

-----------------------------------------------------------------------------
BookState == [kind : {"L2", "L3"}, seq : Seqs,
              bids : Seq(Prices \X (Nat \ {0})), asks : Seq(Prices \X (Nat \ {0})),
              count : Nat]

TypeOK ==
  /\ vseq \in Seqs
  /\ vAt \in [0 .. vseq -> OrderMap]
  /\ vstatus \in [OrderIds -> {"new", "received", "open", "filled", "gone"}]
  /\ wire \in Seq(Msg)
  /\ conn \in BOOLEAN
  /\ drops \in 0 .. MaxDrops
  /\ fails \in 0 .. MaxFails
  /\ recvAlive \in BOOLEAN
  /\ eventQ \in Seq(Msg)
  /\ pc \in PCs
  /\ orders \in OrderMap
  /\ IsLevelMap(levels)
  /\ lastSeq \in Seqs
  /\ snapFails \in Nat
  /\ streak \in Nat
  /\ pub \in BookState \cup {None}

(* The venue's aggregated book: the total size resting at each price of a  *)
(* side, for the prices where some order rests.                            *)
Resting(book, s, p) == {o \in DOMAIN book : book[o].side = s /\ book[o].price = p}
TotalAt(book, s, p) == MapThenSumSet(LAMBDA o : book[o].size, Resting(book, s, p))
VenuePrices(book, s) == {p \in Prices : Resting(book, s, p) # {}}

(* Whatever the messages did to them (opens at a price that already has    *)
(* orders, partial fills, size changes, fills and cancels in any order),   *)
(* levels is the aggregate of the orders map: a price is present exactly   *)
(* when some held order rests there, with the sum of their sizes (spec     *)
(* 4.3: levels derived from the order map).                                *)
LevelsAggregateOrders ==
  \A s \in Sides :
    /\ DOMAIN levels[s] = VenuePrices(orders, s)
    /\ \A p \in DOMAIN levels[s] : levels[s][p] = TotalAt(orders, s, p)

(* From the load of a snapshot on, the order map is the venue's order set *)
(* at last_sequence: stale snapshots, lost messages and late subscriptions *)
(* are all caught by the sequence rules before a message is misapplied.    *)
OrdersMatchVenue ==
  pc = "live" => orders = vAt[lastSeq]

(* The best TopN prices of a side of a book with their total sizes, best   *)
(* first.                                                                  *)
Better(s, p, q) == IF s = "buy" THEN p > q ELSE p < q
BestOf(book, s) ==
  {p \in VenuePrices(book, s) :
     Cardinality({q \in VenuePrices(book, s) : Better(s, q, p)}) < TopN}
ShowsTop(side, book, s) ==
  /\ ToSet(side) = {<<p, TotalAt(book, s, p)>> : p \in BestOf(book, s)}
  /\ \A i, j \in DOMAIN side : i < j => Better(s, side[i][1], side[j][1])

(* Every L3 BookState shows the venue's top of book, and its order count,  *)
(* as they were at the sequence number of the message it follows.          *)
PublishedMatchesVenue ==
  pub # None /\ pub.kind = "L3" =>
    /\ ShowsTop(pub.bids, vAt[pub.seq], "buy")
    /\ ShowsTop(pub.asks, vAt[pub.seq], "sell")
    /\ pub.count = Cardinality(DOMAIN vAt[pub.seq])

(* The L2 fallback is entered only after FallbackAfter fetches failed in a *)
(* row: a retry budget (spec 4.3 step 2, spec 7) is spent by repeated     *)
(* failures, not by failures spread over a long healthy run.               *)
FallbackAfterRepeatedFailures == pc = "rest" => streak >= FallbackAfter

(* The fallback is level-2 polling only: no order message of the full     *)
(* channel is taken in while it runs (spec 4.3 step 2: no delta           *)
(* application).  The receiver is left running and queues every message.  *)
FallbackTakesNoMessages == pc = "rest" => eventQ = <<>>
=============================================================================
