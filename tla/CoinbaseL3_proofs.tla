-------------------------- MODULE CoinbaseL3_proofs --------------------------
(***************************************************************************)
(* Proofs about the order-stream builder of CoinbaseL3, for every set of   *)
(* order ids, prices and sizes and every bound on messages, losses and     *)
(* failures: from the load of a snapshot on, the builder's order map is    *)
(* the venue's order set at last_sequence (OrdersMatchVenue).              *)
(*                                                                         *)
(* The argument: every message on the socket or in event_q is one the      *)
(* venue sent, and applying it to the venue's orders before it gives the   *)
(* venue's orders after it; the live loop applies a message only at        *)
(* last_sequence + 1; and event_q is empty when the snapshot is loaded,    *)
(* because the receiver never runs between its creation and the drain.     *)
(* The level map and the published states are sums over the orders         *)
(* (MapThenSumSet) and are left to TLC.                                    *)
(***************************************************************************)
EXTENDS CoinbaseL3, SequenceLemmas, TLAPS

Statuses == {"new", "received", "open", "filled", "gone"}

(* What a message does to an order map: the orders component of          *)
(* ApplyMessage, whatever the levels.                                      *)
OrderEffect(ord, m) ==
  CASE m.type = "received" -> ord
    [] m.type = "open" ->
         SetOrder(ord, m.o, [side |-> Side(m.o), price |-> m.price, size |-> m.size])
    [] m.type = "match" ->
         IF m.o \notin DOMAIN ord THEN ord
         ELSE IF m.size >= ord[m.o].size THEN DropOrder(ord, m.o)
         ELSE [ord EXCEPT ![m.o].size = ord[m.o].size - m.size]
    [] m.type = "done" ->
         IF m.o \notin DOMAIN ord THEN ord ELSE DropOrder(ord, m.o)
    [] m.type = "change" ->
         IF m.o \notin DOMAIN ord THEN ord
         ELSE IF m.size <= 0 THEN DropOrder(ord, m.o)
         ELSE [ord EXCEPT ![m.o].size = m.size]

(* The types the argument needs; levels and pub are not among them.       *)
OTypeOK ==
  /\ vseq \in Seqs
  /\ vAt \in [0 .. vseq -> OrderMap]
  /\ vstatus \in [OrderIds -> Statuses]
  /\ wire \in Seq(Msg)
  /\ eventQ \in Seq(Msg)
  /\ pc \in PCs
  /\ lastSeq \in Seqs
  /\ conn \in BOOLEAN
  /\ drops \in 0 .. MaxDrops
  /\ fails \in 0 .. MaxFails

(* An open order rests on the venue's book.                                *)
OpenRests == \A o \in OrderIds : vstatus[o] = "open" => o \in DOMAIN vAt[vseq]

(* m is the venue's message m.seq: applied to the venue's orders before    *)
(* it, it gives the venue's orders after it.                               *)
VenueSent(m) == m.seq \in 1 .. vseq /\ OrderEffect(vAt[m.seq - 1], m) = vAt[m.seq]

MsgsSent == \A m \in Elems(wire) \cup Elems(eventQ) : VenueSent(m)

(* event_q is empty while the snapshot is fetched.                         *)
FetchDrained == pc = "fetch" => eventQ = <<>>

(* The live loop's cursor is a version of the venue, and the orders are    *)
(* that version.                                                           *)
LiveCursor == pc = "live" => lastSeq <= vseq /\ orders = vAt[lastSeq]

(* The inductive invariant.                                                *)
IInv == OTypeOK /\ OpenRests /\ MsgsSent /\ FetchDrained /\ LiveCursor
-----------------------------------------------------------------------------
(* Order maps: functions from some of the order ids to orders.             *)
LEMMA OrderMapElim ==
  ASSUME NEW f \in OrderMap
  PROVE  /\ f = [x \in DOMAIN f |-> f[x]]
         /\ DOMAIN f \subseteq OrderIds
         /\ \A x \in DOMAIN f : f[x] \in Order
BY DEF OrderMap

LEMMA OrderMapIntro ==
  ASSUME NEW D \in SUBSET OrderIds, NEW f \in [D -> Order]
  PROVE  f \in OrderMap
BY DEF OrderMap

(* _remove_order of an id the map does not hold leaves it as it is.        *)
LEMMA DropAbsent ==
  ASSUME NEW f \in OrderMap, NEW o, o \notin DOMAIN f
  PROVE  DropOrder(f, o) = f
<1>1. DOMAIN f \ {o} = DOMAIN f
  OBVIOUS
<1>. QED
  BY <1>1, OrderMapElim DEF DropOrder, Restrict

(* The replay of an empty event_q leaves the book as loaded.               *)
LEMMA ReplayEmpty ==
  ASSUME NEW base
  PROVE  FoldLeft(ReplayOne, base, <<>>) = base
<1> DEFINE g == [s \in SUBSET {} |-> base]
<1>1. DOMAIN <<>> = {} /\ SUBSET {} = {{}}
  OBVIOUS
<1>2. g = [s \in SUBSET {} |-> IF s = {} THEN base
                                ELSE ReplayOne(g[s \ {Max(s)}], <<>>[Max(s)])]
  BY <1>1
<1>. QED
  BY <1>1, <1>2 DEF FoldLeft, MapThenFoldSet

(* The orders component of _apply_message does not depend on the levels.  *)
LEMMA ApplyOrders ==
  ASSUME NEW ord, NEW lv, NEW m \in Msg
  PROVE  ApplyMessage([orders |-> ord, levels |-> lv], m).orders = OrderEffect(ord, m)
<1> DEFINE st == [orders |-> ord, levels |-> lv]
<1>1. st.orders = ord
  OBVIOUS
<1>2. CASE m.type = "received"
  BY <1>2 DEF ApplyMessage, OrderEffect
<1>3. CASE m.type = "open"
  BY <1>3 DEF ApplyMessage, OrderEffect, AddOrder
<1>4. CASE m.type = "match"
  BY <1>4 DEF ApplyMessage, OrderEffect, RemoveOrder, PartialFill
<1>5. CASE m.type = "done"
  BY <1>5 DEF ApplyMessage, OrderEffect, RemoveOrder
<1>6. CASE m.type = "change"
  BY <1>6 DEF ApplyMessage, OrderEffect, RemoveOrder, Resize
<1>. QED
  BY <1>2, <1>3, <1>4, <1>5, <1>6 DEF Msg, MsgTypes
-----------------------------------------------------------------------------
(* The venue's steps.                                                      *)

(* The message the venue sends next.                                       *)
SentMsg(type, o, p, q) ==
  [seq |-> vseq + 1, type |-> type, o |-> o, price |-> p, size |-> q]

(* A message whose effect on the venue's current orders is the new book b *)
(* keeps everything but the statuses and OpenRests.                        *)
LEMMA VenueSendsKeeps ==
  ASSUME IInv, NEW type \in MsgTypes, NEW o \in OrderIds,
         NEW p \in Prices \cup {0}, NEW q \in Sizes \cup {0}, NEW b \in OrderMap,
         VenueSends(type, o, p, q, b),
         OrderEffect(vAt[vseq], SentMsg(type, o, p, q)) = b,
         UNCHANGED <<conn, drops, fails, builder>>
  PROVE  /\ vseq' = vseq + 1
         /\ vAt'[vseq'] = b
         /\ vstatus' \in [OrderIds -> Statuses] /\ OpenRests' => IInv'
<1> DEFINE m == SentMsg(type, o, p, q)
<1>1. vseq \in Nat /\ vseq + 1 <= MaxSeq /\ MaxSeq \in Nat
  BY BoundsL3Assumption DEF IInv, OTypeOK, Seqs, VenueSends
<1>2. vseq' = vseq + 1 /\ vseq' \in Seqs
  BY <1>1 DEF VenueSends, Seqs
<1>3. \A i \in 0 .. vseq : vAt'[i] = vAt[i]
  BY <1>1 DEF VenueSends
<1>4. vAt'[vseq + 1] = b
  BY <1>1 DEF VenueSends
<1>5. vAt' \in [0 .. vseq' -> OrderMap]
  BY <1>1, <1>2, <1>3, <1>4 DEF VenueSends, IInv, OTypeOK
<1>6. m \in Msg
  BY <1>1 DEF SentMsg, Msg
<1>7. wire' \in Seq(Msg) /\ Elems(wire') \subseteq Elems(wire) \cup {m}
  <2>1. CASE conn
    BY <2>1, <1>6, ElemsAppend DEF VenueSends, SentMsg, IInv, OTypeOK
  <2>2. CASE ~conn
    BY <2>2 DEF VenueSends, IInv, OTypeOK
  <2>. QED
    BY <2>1, <2>2
<1>8. ASSUME NEW x \in Elems(wire) \cup Elems(eventQ)
      PROVE  VenueSent(x)'
  <2>1. VenueSent(x)
    BY <1>8 DEF IInv, MsgsSent
  <2>2. x.seq \in 1 .. vseq /\ x.seq - 1 \in 0 .. vseq
    BY <2>1, <1>1 DEF VenueSent
  <2>3. vAt'[x.seq - 1] = vAt[x.seq - 1] /\ vAt'[x.seq] = vAt[x.seq]
    BY <2>2, <1>3
  <2>4. x.seq \in 1 .. vseq'
    BY <2>2, <1>1, <1>2
  <2>5. OrderEffect(vAt[x.seq - 1], x) = vAt[x.seq]
    BY <2>1 DEF VenueSent
  <2>. QED
    BY <2>3, <2>4, <2>5, Zenon DEF VenueSent
<1>9. ASSUME NEW x, x = m
      PROVE  VenueSent(x)'
  <2>1. x.seq = vseq + 1 /\ x.seq - 1 = vseq /\ vseq \in 0 .. vseq
    BY <1>1, <1>9 DEF SentMsg
  <2>2. vAt'[x.seq - 1] = vAt[vseq] /\ vAt'[x.seq] = b
    BY <2>1, <1>3, <1>4
  <2>3. x.seq \in 1 .. vseq'
    BY <2>1, <1>1, <1>2
  <2>4. OrderEffect(vAt[vseq], x) = b
    BY <1>9
  <2>. QED
    BY <2>2, <2>3, <2>4, Zenon DEF VenueSent
<1>10. MsgsSent'
  <2>1. eventQ' = eventQ
    BY DEF builder
  <2>. QED
    BY <2>1, <1>7, <1>8, <1>9 DEF MsgsSent
<1>11. FetchDrained' /\ LiveCursor'
  BY <1>1, <1>2, <1>3 DEF FetchDrained, LiveCursor, IInv, OTypeOK, builder, Seqs
<1>12. OTypeOK' <=> vstatus' \in [OrderIds -> Statuses]
  BY <1>2, <1>5, <1>7 DEF OTypeOK, IInv, builder
<1>. QED
  BY <1>2, <1>4, <1>10, <1>11, <1>12 DEF IInv

(* The new books of the venue's steps are order maps.                      *)
LEMMA DropType ==
  ASSUME NEW f \in OrderMap, NEW o
  PROVE  /\ DropOrder(f, o) \in OrderMap
         /\ DOMAIN DropOrder(f, o) = DOMAIN f \ {o}
<1>1. DropOrder(f, o) \in [DOMAIN f \ {o} -> Order]
  BY OrderMapElim DEF DropOrder, Restrict
<1>2. DOMAIN f \ {o} \in SUBSET OrderIds
  BY OrderMapElim
<1>. QED
  BY <1>1, <1>2, OrderMapIntro DEF DropOrder, Restrict

LEMMA ResizeType ==
  ASSUME NEW f \in OrderMap, NEW o \in DOMAIN f, NEW n \in Sizes
  PROVE  /\ [f EXCEPT ![o].size = n] \in OrderMap
         /\ DOMAIN [f EXCEPT ![o].size = n] = DOMAIN f
<1>1. f \in [DOMAIN f -> Order] /\ DOMAIN f \in SUBSET OrderIds
  BY OrderMapElim
<1>2. [f EXCEPT ![o].size = n] \in [DOMAIN f -> Order]
  BY <1>1 DEF Order
<1>. QED
  BY <1>1, <1>2, OrderMapIntro

LEMMA OpenType ==
  ASSUME NEW f \in OrderMap, NEW o \in OrderIds, NEW p \in Prices, NEW q \in Sizes
  PROVE  LET g == SetOrder(f, o, [side |-> Side(o), price |-> p, size |-> q])
         IN  g \in OrderMap /\ DOMAIN g = DOMAIN f \cup {o}
<1> DEFINE g == SetOrder(f, o, [side |-> Side(o), price |-> p, size |-> q])
<1>1. f \in [DOMAIN f -> Order] /\ DOMAIN f \in SUBSET OrderIds
  BY OrderMapElim
<1>2. [side |-> Side(o), price |-> p, size |-> q] \in Order
  BY DEF Order, Side, Sides
<1>3. g \in [DOMAIN f \cup {o} -> Order]
  BY <1>1, <1>2 DEF SetOrder
<1>. QED
  BY <1>1, <1>3, OrderMapIntro

(* Facts about the venue's current book used by every venue step.          *)
LEMMA VenueBookType ==
  ASSUME IInv
  PROVE  /\ VenueBook \in OrderMap
         /\ \A o \in DOMAIN VenueBook : VenueBook[o] \in Order
         /\ vstatus \in [OrderIds -> Statuses]
<1>1. vseq \in 0 .. vseq
  BY BoundsL3Assumption DEF IInv, OTypeOK, Seqs
<1>. QED
  BY <1>1, OrderMapElim DEF IInv, OTypeOK, VenueBook

(* Each of the venue's steps keeps the invariant.                          *)
LEMMA VenueReceivedKeeps ==
  ASSUME IInv, NEW o \in OrderIds, VenueReceived(o),
         UNCHANGED <<conn, drops, fails, builder>>
  PROVE  IInv'
<1>1. OrderEffect(vAt[vseq], SentMsg("received", o, 0, 0)) = VenueBook
  BY DEF OrderEffect, SentMsg, VenueBook
<1>2. /\ vseq' = vseq + 1
      /\ vAt'[vseq'] = VenueBook
      /\ vstatus' \in [OrderIds -> Statuses] /\ OpenRests' => IInv'
  BY <1>1, VenueBookType, VenueSendsKeeps DEF VenueReceived, MsgTypes
<1>3. vstatus' \in [OrderIds -> Statuses]
  BY VenueBookType DEF VenueReceived, Statuses
<1>4. OpenRests'
  BY <1>2, VenueBookType DEF VenueReceived, OpenRests, IInv, VenueBook
<1>. QED
  BY <1>2, <1>3, <1>4

LEMMA VenueOpenKeeps ==
  ASSUME IInv, NEW o \in OrderIds, NEW p \in Prices, NEW q \in Sizes,
         VenueOpen(o, p, q), UNCHANGED <<conn, drops, fails, builder>>
  PROVE  IInv'
<1> DEFINE b == SetOrder(VenueBook, o, [side |-> Side(o), price |-> p, size |-> q])
<1>1. b \in OrderMap /\ DOMAIN b = DOMAIN VenueBook \cup {o}
  BY VenueBookType, OpenType
<1>2. OrderEffect(vAt[vseq], SentMsg("open", o, p, q)) = b
  BY DEF OrderEffect, SentMsg, VenueBook
<1>3. /\ vseq' = vseq + 1
      /\ vAt'[vseq'] = b
      /\ vstatus' \in [OrderIds -> Statuses] /\ OpenRests' => IInv'
  BY <1>1, <1>2, VenueSendsKeeps DEF VenueOpen, MsgTypes
<1>4. vstatus' \in [OrderIds -> Statuses]
  BY VenueBookType DEF VenueOpen, Statuses
<1>5. OpenRests'
  BY <1>1, <1>3, VenueBookType DEF VenueOpen, OpenRests, IInv, VenueBook
<1>. QED
  BY <1>3, <1>4, <1>5

(* An open order is on the venue's book, with a size in Sizes.            *)
LEMMA OpenOrder ==
  ASSUME IInv, NEW o \in OrderIds, vstatus[o] = "open"
  PROVE  o \in DOMAIN VenueBook /\ VenueBook[o] \in Order
         /\ VenueBook[o].size \in Sizes
<1>1. o \in DOMAIN VenueBook
  BY DEF IInv, OpenRests, VenueBook
<1>. QED
  BY <1>1, VenueBookType DEF Order

LEMMA VenueMatchKeeps ==
  ASSUME IInv, NEW o \in OrderIds, NEW t \in Sizes, VenueMatch(o, t),
         UNCHANGED <<conn, drops, fails, builder>>
  PROVE  IInv'
<1>1. o \in DOMAIN VenueBook /\ VenueBook[o].size \in Sizes
  BY OpenOrder DEF VenueMatch
<1>2. CASE t = VenueBook[o].size
  <2> DEFINE b == DropOrder(VenueBook, o)
  <2>1. b \in OrderMap /\ DOMAIN b = DOMAIN VenueBook \ {o}
    BY VenueBookType, DropType
  <2>2. OrderEffect(vAt[vseq], SentMsg("match", o, 0, t)) = b
    BY <1>1, <1>2, SizeAssumption DEF OrderEffect, SentMsg, VenueBook, Sizes
  <2>3. /\ vseq' = vseq + 1
        /\ vAt'[vseq'] = b
        /\ vstatus' \in [OrderIds -> Statuses] /\ OpenRests' => IInv'
    BY <1>2, <2>1, <2>2, VenueSendsKeeps DEF VenueMatch, MsgTypes
  <2>4. vstatus' = [vstatus EXCEPT ![o] = "filled"]
    BY <1>2 DEF VenueMatch
  <2>5. vstatus' \in [OrderIds -> Statuses]
    BY <2>4, VenueBookType DEF Statuses
  <2>6. OpenRests'
    BY <2>1, <2>3, <2>4, VenueBookType DEF OpenRests, IInv, VenueBook
  <2>. QED
    BY <2>3, <2>5, <2>6
<1>3. CASE t # VenueBook[o].size
  <2> DEFINE b == [VenueBook EXCEPT ![o].size = VenueBook[o].size - t]
  <2>0. VenueBook[o].size - t \in Sizes
    BY <1>1, <1>3, SizeAssumption DEF VenueMatch, Sizes
  <2>1. b \in OrderMap /\ DOMAIN b = DOMAIN VenueBook
    BY <1>1, <2>0, VenueBookType, ResizeType
  <2>2. OrderEffect(vAt[vseq], SentMsg("match", o, 0, t)) = b
    BY <1>1, <1>3 DEF OrderEffect, SentMsg, VenueBook, VenueMatch, Sizes
  <2>3. /\ vseq' = vseq + 1
        /\ vAt'[vseq'] = b
        /\ vstatus' \in [OrderIds -> Statuses] /\ OpenRests' => IInv'
    BY <1>3, <2>1, <2>2, VenueSendsKeeps DEF VenueMatch, MsgTypes
  <2>4. vstatus' = vstatus
    BY <1>3 DEF VenueMatch
  <2>5. OpenRests'
    BY <2>1, <2>3, <2>4 DEF OpenRests, IInv, VenueBook
  <2>. QED
    BY <2>3, <2>4, <2>5, VenueBookType
<1>. QED
  BY <1>2, <1>3

LEMMA VenueChangeKeeps ==
  ASSUME IInv, NEW o \in OrderIds, NEW q \in Sizes, VenueChange(o, q),
         UNCHANGED <<conn, drops, fails, builder>>
  PROVE  IInv'
<1> DEFINE b == [VenueBook EXCEPT ![o].size = q]
<1>1. o \in DOMAIN VenueBook /\ VenueBook[o].size \in Sizes
  BY OpenOrder DEF VenueChange
<1>2. b \in OrderMap /\ DOMAIN b = DOMAIN VenueBook
  BY <1>1, VenueBookType, ResizeType
<1>3. OrderEffect(vAt[vseq], SentMsg("change", o, 0, q)) = b
  BY <1>1 DEF OrderEffect, SentMsg, VenueBook, Sizes
<1>4. /\ vseq' = vseq + 1
      /\ vAt'[vseq'] = b
      /\ vstatus' \in [OrderIds -> Statuses] /\ OpenRests' => IInv'
  BY <1>2, <1>3, VenueSendsKeeps DEF VenueChange, MsgTypes
<1>5. OpenRests'
  BY <1>2, <1>4 DEF VenueChange, OpenRests, IInv, VenueBook
<1>. QED
  BY <1>4, <1>5, VenueBookType DEF VenueChange

LEMMA VenueDoneKeeps ==
  ASSUME IInv, NEW o \in OrderIds, VenueDone(o),
         UNCHANGED <<conn, drops, fails, builder>>
  PROVE  IInv'
<1> DEFINE b == DropOrder(VenueBook, o)
<1>1. b \in OrderMap /\ DOMAIN b = DOMAIN VenueBook \ {o}
  BY VenueBookType, DropType
<1>2. OrderEffect(vAt[vseq], SentMsg("done", o, 0, 0)) = b
  <2>1. CASE o \in DOMAIN VenueBook
    BY <2>1 DEF OrderEffect, SentMsg, VenueBook
  <2>2. CASE o \notin DOMAIN VenueBook
    BY <2>2, VenueBookType, DropAbsent DEF OrderEffect, SentMsg, VenueBook
  <2>. QED
    BY <2>1, <2>2
<1>3. /\ vseq' = vseq + 1
      /\ vAt'[vseq'] = b
      /\ vstatus' \in [OrderIds -> Statuses] /\ OpenRests' => IInv'
  BY <1>1, <1>2, VenueSendsKeeps DEF VenueDone, MsgTypes
<1>4. vstatus' \in [OrderIds -> Statuses]
  BY VenueBookType DEF VenueDone, Statuses
<1>5. OpenRests'
  BY <1>1, <1>3, VenueBookType DEF VenueDone, OpenRests, IInv, VenueBook
<1>. QED
  BY <1>3, <1>4, <1>5
-----------------------------------------------------------------------------
(* The network's and the builder's steps leave the venue alone.            *)
LEMMA VenueFixed ==
  ASSUME UNCHANGED venue
  PROVE  /\ \A x : VenueSent(x)' <=> VenueSent(x)
         /\ OpenRests' <=> OpenRests
BY DEF venue, VenueSent, OpenRests

(* A step that leaves the venue, the statuses and event_q alone, and      *)
(* whose socket only loses frames, keeps MsgsSent.                         *)
LEMMA MsgsKept ==
  ASSUME MsgsSent, UNCHANGED venue,
         Elems(wire') \subseteq Elems(wire), Elems(eventQ') \subseteq Elems(eventQ)
  PROVE  MsgsSent'
BY VenueFixed DEF MsgsSent

LEMMA NetDropKeeps ==
  ASSUME IInv, NetDrop
  PROVE  IInv'
<1>1. PICK i \in 1 .. Len(wire) : wire' = RemoveAt(wire, i)
  BY DEF NetDrop
<1>2. wire \in Seq(Msg)
  BY DEF IInv, OTypeOK
<1>3. wire' \in Seq(Msg) /\ Elems(wire') \subseteq Elems(wire)
  BY <1>1, <1>2, RemoveType, ElemsRemove DEF RemoveAt
<1>4. UNCHANGED <<venue, eventQ, pc, orders, lastSeq>>
  BY DEF NetDrop, builder
<1>5. MsgsSent'
  BY <1>3, <1>4, MsgsKept DEF IInv
<1>. QED
  BY <1>3, <1>4, <1>5, VenueFixed, BoundsL3Assumption
     DEF NetDrop, IInv, OTypeOK, FetchDrained, LiveCursor, venue

LEMMA ReceiveKeeps ==
  ASSUME IInv, Receive
  PROVE  IInv'
<1>1. wire \in Seq(Msg) /\ wire # <<>> /\ eventQ \in Seq(Msg)
  BY DEF IInv, OTypeOK, Receive
<1>2. /\ Head(wire) \in Msg /\ Tail(wire) \in Seq(Msg)
      /\ Elems(Tail(wire)) \subseteq Elems(wire) /\ Head(wire) \in Elems(wire)
  BY <1>1, ElemsTail, HeadTailProperties, EmptySeq
<1>3. Elems(Append(eventQ, Head(wire))) = Elems(eventQ) \cup {Head(wire)}
      /\ Append(eventQ, Head(wire)) \in Seq(Msg)
  BY <1>1, <1>2, ElemsAppend, AppendProperties
<1>4. MsgsSent'
  BY <1>2, <1>3, VenueFixed DEF Receive, MsgsSent, IInv
<1>. QED
  BY <1>2, <1>3, <1>4, VenueFixed
     DEF Receive, IInv, OTypeOK, FetchDrained, LiveCursor, venue

(* An exception out of _run_once empties the socket and event_q.           *)
LEMMA ResyncKeeps ==
  ASSUME IInv, Resync, UNCHANGED <<venue, lastSeq, orders>>,
         drops' \in 0 .. MaxDrops, fails' \in 0 .. MaxFails
  PROVE  IInv'
<1>1. MsgsSent'
  BY ElemsEmpty, VenueFixed DEF Resync, MsgsSent
<1>. QED
  BY <1>1, VenueFixed, EmptySeq
     DEF Resync, IInv, OTypeOK, FetchDrained, LiveCursor, venue, PCs

LEMMA ConnectKeeps ==
  ASSUME IInv, Connect
  PROVE  IInv'
<1>1. lastSeq' \in Seqs /\ pc' # "live"
  BY BoundsL3Assumption DEF Connect, Seqs, Resync
<1>2. CASE /\ conn' = TRUE /\ recvAlive' = TRUE /\ eventQ' = <<>>
           /\ pc' = "fetch" /\ UNCHANGED <<wire, fails>>
  <2>0. UNCHANGED venue
    BY DEF Connect
  <2>1. MsgsSent'
    BY <1>2, <2>0, ElemsEmpty, VenueFixed DEF IInv, MsgsSent
  <2>. QED
    BY <1>1, <1>2, <2>0, <2>1, VenueFixed, EmptySeq
       DEF Connect, IInv, OTypeOK, FetchDrained, LiveCursor, venue, PCs
<1>3. CASE /\ fails < MaxFails /\ fails' = fails + 1 /\ Resync
  <2>1. fails' \in 0 .. MaxFails /\ drops' \in 0 .. MaxDrops
    BY <1>3, BoundsL3Assumption DEF Connect, IInv, OTypeOK
  <2>2. MsgsSent'
    BY <1>3, ElemsEmpty, VenueFixed DEF Connect, Resync, MsgsSent
  <2>. QED
    BY <1>1, <1>3, <2>1, <2>2, VenueFixed, EmptySeq
       DEF Connect, Resync, IInv, OTypeOK, FetchDrained, LiveCursor, venue, PCs
<1>. QED
  BY <1>2, <1>3 DEF Connect

LEMMA BackoffKeeps ==
  ASSUME IInv, Backoff
  PROVE  IInv'
<1>1. UNCHANGED venue /\ UNCHANGED <<wire, eventQ, conn, drops, fails>>
  BY DEF Backoff, net
<1>2. MsgsSent'
  BY <1>1, VenueFixed DEF IInv, MsgsSent
<1>. QED
  BY <1>1, <1>2, VenueFixed DEF Backoff, IInv, OTypeOK, FetchDrained, LiveCursor, PCs, venue

LEMMA RestPollKeeps ==
  ASSUME IInv, RestPoll
  PROVE  IInv'
<1>1. UNCHANGED venue /\ UNCHANGED <<wire, eventQ, conn, drops, fails>>
  BY DEF RestPoll, net
<1>2. MsgsSent'
  BY <1>1, VenueFixed DEF IInv, MsgsSent
<1>. QED
  BY <1>1, <1>2, VenueFixed DEF RestPoll, IInv, OTypeOK, FetchDrained, LiveCursor, venue

(* The fetch: a failure falls back or raises; a snapshot at k is loaded    *)
(* and the replay of the (empty) event_q leaves it as loaded.              *)
LEMMA FetchKeeps ==
  ASSUME IInv, Fetch
  PROVE  IInv'
<1>0. pc = "fetch" /\ eventQ = <<>> /\ UNCHANGED <<venue, drops>>
  BY DEF Fetch, IInv, FetchDrained, venue
<1>1. CASE /\ fails < MaxFails
           /\ fails' = fails + 1
           /\ snapFails' = snapFails + 1
           /\ streak' = streak + 1
           /\ IF AllowFallback /\ snapFails + 1 >= FallbackAfter
              THEN /\ pc' = "rest"
                   /\ UNCHANGED <<wire, conn, recvAlive, eventQ>>
              ELSE Resync
           /\ UNCHANGED <<orders, levels, lastSeq, pub>>
  <2>0. fails' \in 0 .. MaxFails /\ drops' \in 0 .. MaxDrops
    BY <1>0, <1>1, BoundsL3Assumption DEF IInv, OTypeOK
  <2>1. CASE AllowFallback /\ snapFails + 1 >= FallbackAfter
    <3>1. pc' = "rest" /\ UNCHANGED <<wire, conn, eventQ>>
      BY <1>1, <2>1
    <3>2. MsgsSent'
      BY <1>0, <3>1, VenueFixed DEF IInv, MsgsSent
    <3>. QED
      BY <1>0, <1>1, <2>0, <3>1, <3>2, VenueFixed
         DEF IInv, OTypeOK, FetchDrained, LiveCursor, PCs, venue
  <2>2. CASE ~(AllowFallback /\ snapFails + 1 >= FallbackAfter)
    BY <1>0, <1>1, <2>0, <2>2, ResyncKeeps
  <2>. QED
    BY <2>1, <2>2
<1>2. CASE /\ \E k \in 0 .. vseq :
                LET snap == LoadSnapshot(vAt[k])
                    acc == FoldLeft(ReplayOne,
                                    [orders |-> snap.orders, levels |-> snap.levels,
                                     lastSeq |-> k, pub |-> pub],
                                    eventQ)
                IN /\ orders' = acc.orders
                   /\ levels' = acc.levels
                   /\ lastSeq' = acc.lastSeq
                   /\ pub' = acc.pub
           /\ eventQ' = <<>>
           /\ pc' = "live"
           /\ streak' = 0
           /\ UNCHANGED <<wire, conn, fails, recvAlive, snapFails>>
  <2>1. PICK k \in 0 .. vseq :
          LET snap == LoadSnapshot(vAt[k])
              acc == FoldLeft(ReplayOne,
                              [orders |-> snap.orders, levels |-> snap.levels,
                               lastSeq |-> k, pub |-> pub],
                              eventQ)
          IN /\ orders' = acc.orders
             /\ lastSeq' = acc.lastSeq
    BY <1>2
  <2> DEFINE base == [orders |-> LoadSnapshot(vAt[k]).orders,
                      levels |-> LoadSnapshot(vAt[k]).levels,
                      lastSeq |-> k, pub |-> pub]
  <2>2. FoldLeft(ReplayOne, base, <<>>) = base
    BY ReplayEmpty
  <2>3. orders' = vAt[k] /\ lastSeq' = k
    BY <1>0, <2>1, <2>2 DEF LoadSnapshot
  <2>4. k \in Seqs /\ k <= vseq
    BY BoundsL3Assumption DEF IInv, OTypeOK, Seqs
  <2>5. MsgsSent'
    BY <1>0, <1>2, ElemsEmpty, VenueFixed DEF IInv, MsgsSent
  <2>. QED
    BY <1>0, <1>2, <2>3, <2>4, <2>5, VenueFixed, EmptySeq
       DEF IInv, OTypeOK, FetchDrained, LiveCursor, PCs, venue
<1>. QED
  BY <1>1, <1>2 DEF Fetch

(* The live loop: the head of event_q was sent by the venue, so applying   *)
(* it when it is the next sequence number moves the book to the venue's    *)
(* book at that number.                                                    *)
LEMMA LiveStepKeeps ==
  ASSUME IInv, LiveStep
  PROVE  IInv'
<1> DEFINE m == Head(eventQ)
<1>0. /\ pc = "live" /\ eventQ # <<>> /\ eventQ \in Seq(Msg)
      /\ UNCHANGED venue
  BY DEF LiveStep, IInv, OTypeOK
<1>1. /\ m \in Msg /\ Tail(eventQ) \in Seq(Msg)
      /\ Elems(Tail(eventQ)) \subseteq Elems(eventQ) /\ m \in Elems(eventQ)
  BY <1>0, ElemsTail, HeadTailProperties
<1>2. VenueSent(m)
  BY <1>1 DEF IInv, MsgsSent
<1>3. lastSeq <= vseq /\ orders = vAt[lastSeq]
  BY <1>0 DEF IInv, LiveCursor
<1>4. CASE /\ m.seq <= lastSeq
           /\ eventQ' = Tail(eventQ)
           /\ UNCHANGED <<net, recvAlive, pc, orders, levels, lastSeq, pub>>
  <2>1. MsgsSent'
    BY <1>0, <1>1, <1>4, MsgsKept DEF IInv, net
  <2>. QED
    BY <1>0, <1>1, <1>4, <2>1, VenueFixed
       DEF IInv, OTypeOK, FetchDrained, LiveCursor, venue, net
<1>5. CASE /\ m.seq > lastSeq + 1
           /\ Resync
           /\ UNCHANGED <<drops, fails, orders, levels, lastSeq, pub>>
  BY <1>0, <1>5, ResyncKeeps DEF IInv, OTypeOK
<1>6. CASE /\ m.seq = lastSeq + 1
           /\ eventQ' = Tail(eventQ)
           /\ orders' = ApplyMessage([orders |-> orders, levels |-> levels], m).orders
           /\ lastSeq' = m.seq
           /\ UNCHANGED <<net, recvAlive, pc>>
  <2>1. m.seq \in 1 .. vseq /\ OrderEffect(vAt[m.seq - 1], m) = vAt[m.seq]
    BY <1>2 DEF VenueSent
  <2>2. vAt[m.seq - 1] = orders
    BY <1>3, <1>6, BoundsL3Assumption DEF IInv, OTypeOK, Seqs
  <2>3. orders' = vAt[lastSeq']
    BY <1>1, <1>6, <2>1, <2>2, ApplyOrders
  <2>4. lastSeq' \in Seqs /\ lastSeq' <= vseq
    BY <1>6, <2>1, BoundsL3Assumption DEF IInv, OTypeOK, Seqs
  <2>5. MsgsSent'
    BY <1>0, <1>1, <1>6, MsgsKept DEF IInv, net
  <2>. QED
    BY <1>0, <1>1, <1>6, <2>3, <2>4, <2>5, VenueFixed
       DEF IInv, OTypeOK, FetchDrained, LiveCursor, venue, net
<1>. QED
  BY <1>4, <1>5, <1>6 DEF LiveStep

-----------------------------------------------------------------------------
(* The initial state: the venue's book is the initial order set, whose    *)
(* orders are open, nothing is in flight and the builder is idle.          *)
LEMMA InitIInv ==
  ASSUME Init
  PROVE  IInv
<1>1. 0 .. 0 = {0} /\ 0 \in Seqs
  BY BoundsL3Assumption DEF Seqs
<1>2. vAt \in [0 .. vseq -> OrderMap]
  BY <1>1, InitOrdersAssumption DEF Init
<1>3. vstatus \in [OrderIds -> Statuses]
  BY DEF Init, Statuses
<1>4. wire \in Seq(Msg) /\ eventQ \in Seq(Msg)
  BY EmptySeq DEF Init
<1>5. OTypeOK
  BY <1>1, <1>2, <1>3, <1>4, BoundsL3Assumption DEF Init, OTypeOK, PCs
<1>6. OpenRests
  BY DEF Init, OpenRests, VenueBook
<1>7. MsgsSent
  BY ElemsEmpty DEF Init, MsgsSent
<1>. QED
  BY <1>5, <1>6, <1>7 DEF Init, IInv, FetchDrained, LiveCursor

(* Every step of the venue, the network or the builder, and a stutter,     *)
(* keeps IInv.                                                             *)
LEMMA NextIInv ==
  ASSUME IInv, [Next]_vars
  PROVE  IInv'
<1>1. CASE VenueStep
  <2>1. UNCHANGED <<conn, drops, fails, builder>>
    BY <1>1 DEF VenueStep
  <2>2. PICK o \in OrderIds :
          \/ VenueReceived(o)
          \/ \E p \in Prices, q \in Sizes : VenueOpen(o, p, q)
          \/ \E t \in Sizes : VenueMatch(o, t)
          \/ \E q \in Sizes : VenueChange(o, q)
          \/ VenueDone(o)
    BY <1>1 DEF VenueStep
  <2>3. CASE VenueReceived(o)
    BY <2>1, <2>3, VenueReceivedKeeps
  <2>4. CASE \E p \in Prices, q \in Sizes : VenueOpen(o, p, q)
    BY <2>1, <2>4, VenueOpenKeeps
  <2>5. CASE \E t \in Sizes : VenueMatch(o, t)
    BY <2>1, <2>5, VenueMatchKeeps
  <2>6. CASE \E q \in Sizes : VenueChange(o, q)
    BY <2>1, <2>6, VenueChangeKeeps
  <2>7. CASE VenueDone(o)
    BY <2>1, <2>7, VenueDoneKeeps
  <2>. QED
    BY <2>2, <2>3, <2>4, <2>5, <2>6, <2>7
<1>2. CASE NetDrop
  BY <1>2, NetDropKeeps
<1>3. CASE Receive
  BY <1>3, ReceiveKeeps
<1>4. CASE Connect
  BY <1>4, ConnectKeeps
<1>5. CASE Fetch
  BY <1>5, FetchKeeps
<1>6. CASE LiveStep
  BY <1>6, LiveStepKeeps
<1>7. CASE Backoff
  BY <1>7, BackoffKeeps
<1>8. CASE RestPoll
  BY <1>8, RestPollKeeps
<1>9. CASE UNCHANGED vars
  <2>1. UNCHANGED venue
    BY <1>9 DEF vars
  <2>. QED
    BY <1>9, <2>1, VenueFixed
       DEF vars, venue, net, builder, IInv, OTypeOK, MsgsSent, FetchDrained,
           LiveCursor
<1>. QED
  BY <1>1, <1>2, <1>3, <1>4, <1>5, <1>6, <1>7, <1>8, <1>9 DEF Next, Builder

(* IInv holds in every reachable state of the level-3 builder and venue.   *)
THEOREM OrdersInvariant == Spec => []IInv
<1>1. Init => IInv
  BY InitIInv
<1>2. IInv /\ [Next]_vars => IInv'
  BY NextIInv
<1>. QED
  BY <1>1, <1>2, PTL DEF Spec

(* OrdersMatchVenue: whenever _run_live holds a loaded book, its order map *)
(* is the venue's order set at last_sequence, across lost frames, failed   *)
(* snapshots, reconnects and the REST fallback.                            *)
THEOREM OrdersCorrect == Spec => []OrdersMatchVenue
<1>1. IInv => OrdersMatchVenue
  BY DEF IInv, LiveCursor, OrdersMatchVenue
<1>. QED
  BY <1>1, OrdersInvariant, PTL
=============================================================================
