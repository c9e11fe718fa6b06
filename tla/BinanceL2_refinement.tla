------------------------ MODULE BinanceL2_refinement ------------------------
(***************************************************************************)
(* The L2 builder of BinanceL2 implements the abstract mirror L2Mirror,    *)
(* for every choice of prices, quantities and bounds: the venue's history  *)
(* is bookAt, and every BookState is published at an update id above all   *)
(* ids published before it.                                               *)
(*                                                                         *)
(* The order of published ids survives resyncs because of where ids come   *)
(* from.  A published id is the end u of a diff the venue sent, so it is   *)
(* at most sentUpTo; a new connection only receives diffs that start past  *)
(* sentUpTo; first_u is the start of the first of them, and the snapshot   *)
(* the builder keeps is never older than first_u.                          *)
(***************************************************************************)
EXTENDS BinanceL2_proofs, SequenceLemmas

(* Every BookState published so far has an id below n.                     *)
PubBelow(n) == \A r \in Elems(published) : r.id < n

(* Every diff in the sequence s ends at an id the venue has streamed.      *)
FramesUpTo(s) == \A e \in Elems(s) : e.u <= sentUpTo

(* The ordering invariant: wherever the next published id can come from,  *)
(* it is above every id published so far.                                  *)
FramesSent ==
  FramesUpTo(wire) /\ FramesUpTo(eventQ) /\ FramesUpTo(buffered)

PublishedSent == PubBelow(sentUpTo + 1)

(* Before first_u is set, every frame on the socket starts past every      *)
(* published id: the connection was opened after the venue streamed them.  *)
NewStreamAhead == firstU = None => \A e \in Elems(wire) : PubBelow(e.U)

FirstAhead == pc \in {"waitFirst", "fetch"} /\ firstU # None => PubBelow(firstU)

CursorAhead == pc \in {"replay", "bridge", "live"} => PubBelow(bookUpdateId + 1)

(* first_u is a local of one attempt of _run_once.                         *)
EpochShape ==
  /\ pc \in {"fetch", "replay", "bridge", "live"} => firstU # None
  /\ pc \in {"idle", "backoff"} => firstU = None

Ordered ==
  /\ FramesSent /\ PublishedSent /\ NewStreamAhead /\ FirstAhead
  /\ CursorAhead /\ EpochShape

RInv == IInv /\ Ordered
-----------------------------------------------------------------------------
-----------------------------------------------------------------------------
(* The types the ordering argument relies on.                              *)
LEMMA OrderTypes ==
  ASSUME TypeOK
  PROVE  /\ exId \in Nat /\ sentUpTo \in Nat /\ bookUpdateId \in Nat
         /\ sentUpTo <= exId
         /\ firstU \in Nat \cup {None} /\ None \notin Nat
         /\ wire \in Seq(Event) /\ eventQ \in Seq(Event)
         /\ buffered \in Seq(Event) /\ published \in Seq(PubRec)
BY BoundsAssumption, NoneAssumption DEF TypeOK, Ids, PubRec

(* The elements of a sequence are of its element type.                     *)
LEMMA ElemsType ==
  ASSUME NEW T, NEW s \in Seq(T) PROVE Elems(s) \subseteq T
BY DEF Elems

(* Ids and update ids are numbers.                                         *)
LEMMA ElemsNat ==
  ASSUME TypeOK
  PROVE  /\ \A r \in Elems(published) : r.id \in Nat
         /\ \A e \in Elems(wire) \cup Elems(eventQ) \cup Elems(buffered) :
              e \in Event /\ e.U \in Nat /\ e.u \in Nat
<1>1. Ids \subseteq Nat
  BY BoundsAssumption DEF Ids
<1>2. /\ Elems(published) \subseteq PubRec
      /\ Elems(wire) \cup Elems(eventQ) \cup Elems(buffered) \subseteq Event
  BY OrderTypes, ElemsType
<1>. QED
  BY <1>1, <1>2 DEF PubRec, Event

(* _emit_state appends at most the one BookState it builds.               *)
LEMMA EmitElems ==
  ASSUME published \in Seq(PubRec), NEW b \in Book, NEW id \in Nat, Emit(b, id)
  PROVE  Elems(published') \subseteq
           Elems(published) \cup {[id |-> id, view |-> View(b)]}
<1>1. [id |-> id, view |-> View(b)] \in PubRec
  BY ViewType DEF PubRec
<1>2. CASE TopPrices(b, "bid") # {} /\ TopPrices(b, "ask") # {}
  <2>1. published' = Append(published, [id |-> id, view |-> View(b)])
    BY <1>2 DEF Emit
  <2>. QED
    BY <1>1, <2>1, ElemsAppend
<1>3. CASE ~(TopPrices(b, "bid") # {} /\ TopPrices(b, "ask") # {})
  BY <1>3 DEF Emit
<1>. QED
  BY <1>2, <1>3

LEMMA OrderedInit == Init => Ordered
<1> SUFFICES ASSUME Init PROVE Ordered
  OBVIOUS
<1>1. Elems(wire) = {} /\ Elems(eventQ) = {} /\ Elems(buffered) = {}
      /\ Elems(published) = {}
  BY ElemsEmpty DEF Init
<1>. QED
  BY <1>1 DEF Init, Ordered, FramesSent, FramesUpTo, PublishedSent, PubBelow,
     NewStreamAhead, FirstAhead, CursorAhead, EpochShape

(* A teardown of the attempt (a failed connect or fetch, a gap) leaves     *)
(* nothing of the epoch behind that could publish an old id.               *)
LEMMA TearDownOrdered ==
  ASSUME Ordered, TearDown, pc' \in {"idle", "backoff"},
         UNCHANGED <<sentUpTo, published>>
  PROVE  Ordered'
<1>1. Elems(wire') = {} /\ Elems(eventQ') = {} /\ Elems(buffered') = {}
  BY ElemsEmpty DEF TearDown
<1>. QED
  BY <1>1 DEF TearDown, Ordered, FramesSent, FramesUpTo, PublishedSent,
     PubBelow, NewStreamAhead, FirstAhead, CursorAhead, EpochShape

-----------------------------------------------------------------------------
(* The venue, the network and the receiver keep the order.                 *)
LEMMA OrderedVenueUpdate ==
  ASSUME Ordered, VenueUpdate PROVE Ordered'
BY DEF VenueUpdate, net, builder, Ordered, FramesSent, FramesUpTo,
   PublishedSent, PubBelow, NewStreamAhead, FirstAhead, CursorAhead,
   EpochShape

LEMMA OrderedSendDiff ==
  ASSUME IInv, Ordered, VenueSendDiff PROVE Ordered'
<1> DEFINE d == DiffEvent(sentUpTo + 1, exId)
<1>1. /\ exId \in Nat /\ sentUpTo \in Nat /\ wire \in Seq(Event)
      /\ sentUpTo' = exId /\ sentUpTo < exId
  BY OrderTypes DEF IInv, VenueSendDiff
<1>2. d \in Event /\ d.U = sentUpTo + 1 /\ d.u = exId
  <2>1. d \in Event
    BY <1>1, DiffEventType DEF IInv
  <2>2. d.U = sentUpTo + 1 /\ d.u = exId
    BY DEF DiffEvent
  <2>. QED
    BY <2>1, <2>2
<1>3. Elems(wire') \subseteq Elems(wire) \cup {d}
  BY <1>1, <1>2, ElemsAppend DEF VenueSendDiff
<1>4. UNCHANGED <<eventQ, buffered, published, firstU, pc, bookUpdateId>>
  BY DEF VenueSendDiff, builder
<1>0. /\ \A r \in Elems(published) : r.id \in Nat
      /\ \A e \in Elems(wire) \cup Elems(eventQ) \cup Elems(buffered) :
           e \in Event /\ e.U \in Nat /\ e.u \in Nat
  BY ElemsNat DEF IInv
<1>5. FramesSent'
  BY <1>0, <1>1, <1>2, <1>3, <1>4 DEF Ordered, FramesSent, FramesUpTo
<1>6. PublishedSent'
  BY <1>0, <1>1, <1>4 DEF Ordered, PublishedSent, PubBelow
<1>7. NewStreamAhead'
  BY <1>2, <1>3, <1>4 DEF Ordered, PublishedSent, NewStreamAhead, PubBelow
<1>8. FirstAhead' /\ CursorAhead' /\ EpochShape'
  BY <1>4 DEF Ordered, FirstAhead, CursorAhead, EpochShape, PubBelow
<1>. QED
  BY <1>5, <1>6, <1>7, <1>8 DEF Ordered

LEMMA OrderedNetDrop ==
  ASSUME IInv, Ordered, NetDrop PROVE Ordered'
<1>1. wire \in Seq(Event)
  BY OrderTypes DEF IInv
<1>2. Elems(wire') \subseteq Elems(wire)
  BY <1>1, ElemsRemove DEF NetDrop
<1>3. UNCHANGED <<sentUpTo, eventQ, buffered, published, firstU, pc,
                 bookUpdateId>>
  BY DEF NetDrop, venue, builder
<1>. QED
  BY <1>2, <1>3
  DEF Ordered, FramesSent, FramesUpTo, PublishedSent, PubBelow,
      NewStreamAhead, FirstAhead, CursorAhead, EpochShape

LEMMA OrderedNetClose ==
  ASSUME Ordered, NetClose PROVE Ordered'
BY DEF NetClose, venue, builder, Ordered, FramesSent, FramesUpTo,
   PublishedSent, PubBelow, NewStreamAhead, FirstAhead, CursorAhead,
   EpochShape

LEMMA OrderedReceive ==
  ASSUME IInv, Ordered, Receive PROVE Ordered'
<1>1. /\ wire \in Seq(Event) /\ eventQ \in Seq(Event) /\ wire # <<>>
      /\ None \notin Nat
  BY OrderTypes DEF IInv, Receive
<1>2. Elems(Tail(wire)) \subseteq Elems(wire) /\ Head(wire) \in Elems(wire)
  BY <1>1, ElemsTail
<1>3. Head(wire) \in Event /\ Head(wire).U \in Nat
  <2>1. Head(wire) \in Event
    BY <1>1, HeadTailProperties
  <2>2. Ids \subseteq Nat
    BY BoundsAssumption DEF Ids
  <2>. QED
    BY <2>1, <2>2 DEF Event
<1>4. Elems(eventQ') = Elems(eventQ) \cup {Head(wire)}
  BY <1>1, <1>3, ElemsAppend DEF Receive
<1>5. /\ wire' = Tail(wire)
      /\ firstU' = IF firstU = None THEN Head(wire).U ELSE firstU
      /\ UNCHANGED <<sentUpTo, buffered, published, pc, bookUpdateId>>
      /\ pc \in {"waitFirst", "bridge", "live"}
  BY DEF Receive, venue
<1>6. FramesSent'
  BY <1>2, <1>4, <1>5 DEF Ordered, FramesSent, FramesUpTo
<1>7. NewStreamAhead'
  BY <1>1, <1>2, <1>3, <1>5 DEF Ordered, NewStreamAhead
<1>8. FirstAhead'
  <2>1. CASE firstU = None
    <3>1. firstU' = Head(wire).U /\ PubBelow(Head(wire).U)
      BY <1>2, <1>5, <2>1 DEF Ordered, NewStreamAhead
    <3>. QED
      BY <1>5, <3>1 DEF FirstAhead, PubBelow
  <2>2. CASE firstU # None
    BY <1>5, <2>2 DEF Ordered, FirstAhead, PubBelow
  <2>. QED
    BY <2>1, <2>2
<1>9. PublishedSent' /\ CursorAhead'
  BY <1>5 DEF Ordered, PublishedSent, CursorAhead, PubBelow
<1>10. EpochShape'
  BY <1>1, <1>3, <1>5 DEF EpochShape
<1>. QED
  BY <1>6, <1>7, <1>8, <1>9, <1>10 DEF Ordered
-----------------------------------------------------------------------------
(* The builder keeps the order.                                            *)
LEMMA OrderedStart ==
  ASSUME IInv, Ordered, Start PROVE Ordered'
<1>1. pc = "idle" /\ firstU = None /\ UNCHANGED <<sentUpTo, published>>
  BY DEF Start, Ordered, EpochShape, venue
<1>2. CASE conn' = "open" /\ pc' = "waitFirst"
           /\ UNCHANGED <<wire, eventQ, firstU, buffered>>
  BY <1>1, <1>2 DEF Ordered, FramesSent, FramesUpTo, PublishedSent, PubBelow,
     NewStreamAhead, FirstAhead, CursorAhead, EpochShape
<1>3. CASE Resync
  BY <1>1, <1>3, TearDownOrdered DEF Resync
<1>. QED
  BY <1>2, <1>3 DEF Start

LEMMA OrderedBackoff ==
  ASSUME Ordered, Backoff PROVE Ordered'
BY DEF Backoff, venue, net, Ordered, FramesSent, FramesUpTo, PublishedSent,
   PubBelow, NewStreamAhead, FirstAhead, CursorAhead, EpochShape

LEMMA OrderedFetch ==
  ASSUME IInv, Ordered, Fetch PROVE Ordered'
<1>0. /\ exId \in Nat /\ firstU \in Nat \cup {None}
      /\ \A r \in Elems(published) : r.id \in Nat
  BY OrderTypes, ElemsNat DEF IInv
<1>1. /\ pc \in {"waitFirst", "fetch"} /\ firstU # None /\ PubBelow(firstU)
      /\ UNCHANGED <<sentUpTo, published>>
  BY DEF Fetch, Ordered, FirstAhead, EpochShape, venue
<1>2. CASE TearDown /\ pc' = "idle"
  BY <1>1, <1>2, TearDownOrdered
<1>3. CASE \E k \in 0 .. exId :
             IF k < firstU
             THEN /\ pc' = "fetch"
                  /\ UNCHANGED <<net, eventQ, firstU, book, bookUpdateId,
                                 buffered, applied>>
             ELSE /\ book' = bookAt[k]
                  /\ bookUpdateId' = k
                  /\ buffered' = eventQ
                  /\ eventQ' = <<>>
                  /\ applied' = FALSE
                  /\ pc' = "replay"
                  /\ UNCHANGED <<net, firstU>>
  <2>1. PICK k \in 0 .. exId :
             IF k < firstU
             THEN /\ pc' = "fetch"
                  /\ UNCHANGED <<net, eventQ, firstU, book, bookUpdateId,
                                 buffered, applied>>
             ELSE /\ book' = bookAt[k]
                  /\ bookUpdateId' = k
                  /\ buffered' = eventQ
                  /\ eventQ' = <<>>
                  /\ applied' = FALSE
                  /\ pc' = "replay"
                  /\ UNCHANGED <<net, firstU>>
    BY <1>3
  <2>2. CASE k < firstU
    BY <1>1, <2>1, <2>2 DEF net, Ordered, FramesSent, FramesUpTo,
       PublishedSent, PubBelow, NewStreamAhead, FirstAhead, CursorAhead,
       EpochShape
  <2>3. CASE ~(k < firstU)
    <3>1. /\ bookUpdateId' = k /\ buffered' = eventQ /\ eventQ' = <<>>
          /\ pc' = "replay" /\ UNCHANGED <<wire, firstU>>
      BY <2>1, <2>3 DEF net
    <3>2. Elems(eventQ') = {}
      BY <3>1, ElemsEmpty
    <3>3. PubBelow(k + 1)'
      BY <1>0, <1>1, <2>3 DEF PubBelow
    <3>. QED
      BY <1>1, <3>1, <3>2, <3>3 DEF Ordered, FramesSent, FramesUpTo,
         PublishedSent, PubBelow, NewStreamAhead, FirstAhead, CursorAhead,
         EpochShape
  <2>. QED
    BY <2>2, <2>3
<1>. QED
  BY <1>2, <1>3 DEF Fetch

LEMMA OrderedReplayDone ==
  ASSUME Ordered, ReplayDone PROVE Ordered'
BY DEF ReplayDone, venue, net, Ordered, FramesSent, FramesUpTo, PublishedSent,
   PubBelow, NewStreamAhead, FirstAhead, CursorAhead, EpochShape

(* The replay loop moves the cursor forward or resyncs.                    *)
LEMMA OrderedReplayStep ==
  ASSUME IInv, Ordered, ReplayStep PROVE Ordered'
<1> DEFINE e == Head(buffered)
<1>0. /\ buffered \in Seq(Event) /\ buffered # <<>> /\ bookUpdateId \in Nat
      /\ \A r \in Elems(published) : r.id \in Nat
      /\ e.u \in Nat
  BY OrderTypes, ElemsNat, ElemsTail DEF IInv, ReplayStep
<1>1. Elems(Tail(buffered)) \subseteq Elems(buffered)
  BY <1>0, ElemsTail
<1>2. pc = "replay" /\ firstU # None /\ UNCHANGED <<sentUpTo, published>>
  BY DEF ReplayStep, Ordered, EpochShape, venue
<1>3. CASE /\ e.u <= bookUpdateId
           /\ buffered' = Tail(buffered)
           /\ UNCHANGED <<net, eventQ, firstU, pc, book, bookUpdateId>>
  BY <1>1, <1>2, <1>3 DEF net, Ordered, FramesSent, FramesUpTo,
     PublishedSent, PubBelow, NewStreamAhead, FirstAhead, CursorAhead,
     EpochShape
<1>4. CASE /\ e.u > bookUpdateId
           /\ bookUpdateId' = e.u
           /\ buffered' = Tail(buffered)
           /\ UNCHANGED <<net, eventQ, firstU, pc>>
  BY <1>0, <1>1, <1>2, <1>4 DEF net, Ordered, FramesSent, FramesUpTo,
     PublishedSent, PubBelow, NewStreamAhead, FirstAhead, CursorAhead,
     EpochShape
<1>5. CASE Resync
  BY <1>2, <1>5, TearDownOrdered DEF Resync
<1>. QED
  BY <1>3, <1>4, <1>5 DEF ReplayStep

(* The wait for the bridging event moves the cursor forward or resyncs.    *)
LEMMA OrderedBridgeStep ==
  ASSUME IInv, Ordered, BridgeStep PROVE Ordered'
<1> DEFINE e == Head(eventQ)
<1>0. /\ eventQ \in Seq(Event) /\ eventQ # <<>> /\ bookUpdateId \in Nat
      /\ \A r \in Elems(published) : r.id \in Nat
      /\ e.u \in Nat
  BY OrderTypes, ElemsNat, ElemsTail DEF IInv, BridgeStep
<1>1. Elems(Tail(eventQ)) \subseteq Elems(eventQ)
  BY <1>0, ElemsTail
<1>2. pc = "bridge" /\ firstU # None /\ UNCHANGED <<sentUpTo, published>>
  BY DEF BridgeStep, Ordered, EpochShape, venue
<1>3. CASE /\ e.u <= bookUpdateId
           /\ eventQ' = Tail(eventQ)
           /\ UNCHANGED <<net, firstU, pc, book, bookUpdateId, buffered>>
  BY <1>1, <1>2, <1>3 DEF net, Ordered, FramesSent, FramesUpTo,
     PublishedSent, PubBelow, NewStreamAhead, FirstAhead, CursorAhead,
     EpochShape
<1>4. CASE /\ e.u > bookUpdateId
           /\ bookUpdateId' = e.u
           /\ eventQ' = Tail(eventQ)
           /\ pc' = "live"
           /\ UNCHANGED <<net, firstU, buffered>>
  BY <1>0, <1>1, <1>2, <1>4 DEF net, Ordered, FramesSent, FramesUpTo,
     PublishedSent, PubBelow, NewStreamAhead, FirstAhead, CursorAhead,
     EpochShape
<1>5. CASE Resync
  BY <1>2, <1>5, TearDownOrdered DEF Resync
<1>. QED
  BY <1>3, <1>4, <1>5 DEF BridgeStep

(* The live loop publishes at the id of the diff it applied, above the     *)
(* cursor and within what the venue streamed.                              *)
LEMMA OrderedLiveStep ==
  ASSUME IInv, Ordered, LiveStep PROVE Ordered'
<1> DEFINE e == Head(eventQ)
           rec == [id |-> e.u, view |-> View(ApplyEvent(book, e))]
<1>0. /\ eventQ \in Seq(Event) /\ eventQ # <<>> /\ bookUpdateId \in Nat
      /\ published \in Seq(PubRec) /\ book \in Book
      /\ \A x \in Elems(published) : x.id \in Nat
      /\ e \in Event /\ e.u \in Nat /\ e.u <= sentUpTo /\ sentUpTo \in Nat
  <2>1. eventQ \in Seq(Event) /\ eventQ # <<>>
    BY OrderTypes DEF IInv, LiveStep
  <2>2. e \in Elems(eventQ)
    BY <2>1, ElemsTail
  <2>. QED
    BY <2>1, <2>2, OrderTypes, ElemsNat DEF IInv, TypeOK, Ordered,
       FramesSent, FramesUpTo
<1>1. Elems(Tail(eventQ)) \subseteq Elems(eventQ)
  BY <1>0, ElemsTail
<1>2. pc = "live" /\ firstU # None /\ UNCHANGED sentUpTo
  BY DEF LiveStep, Ordered, EpochShape, venue
<1>3. CASE /\ e.u <= bookUpdateId
           /\ eventQ' = Tail(eventQ)
           /\ UNCHANGED <<net, firstU, pc, book, bookUpdateId, buffered,
                          published>>
  BY <1>1, <1>2, <1>3 DEF net, Ordered, FramesSent, FramesUpTo,
     PublishedSent, PubBelow, NewStreamAhead, FirstAhead, CursorAhead,
     EpochShape
<1>4. CASE Resync /\ UNCHANGED published
  BY <1>2, <1>4, TearDownOrdered DEF Resync
<1>5. CASE /\ e.u > bookUpdateId
           /\ bookUpdateId' = e.u
           /\ eventQ' = Tail(eventQ)
           /\ Emit(ApplyEvent(book, e), e.u)
           /\ UNCHANGED <<net, firstU, pc, buffered>>
  <2>1. ApplyEvent(book, e) \in Book
    BY <1>0, ApplyEventType
  <2>2. Elems(published') \subseteq Elems(published) \cup {rec}
    BY <1>0, <1>5, <2>1, EmitElems
  <2>3. rec.id = e.u
    OBVIOUS
  <2>4. \A x \in Elems(published') : x.id <= e.u
    <3>1. \A x \in Elems(published) : x.id < bookUpdateId + 1
      BY <1>2 DEF Ordered, CursorAhead, PubBelow
    <3>2. SUFFICES ASSUME NEW x \in Elems(published') PROVE x.id <= e.u
      OBVIOUS
    <3>3. CASE x \in Elems(published)
      <4>1. x.id \in Nat /\ x.id < bookUpdateId + 1
        BY <1>0, <3>1, <3>3
      <4>. QED
        BY <1>0, <1>5, <4>1
    <3>4. CASE x = rec
      BY <1>0, <2>3, <3>4
    <3>. QED
      BY <2>2, <3>3, <3>4
  <2>5. PublishedSent' /\ CursorAhead'
    <3>1. e.u < sentUpTo' + 1 /\ e.u < bookUpdateId' + 1
      BY <1>0, <1>2, <1>5
    <3>2. \A x \in Elems(published') : x.id \in Nat
      BY <1>0, <2>2, <2>3
    <3>. QED
      BY <1>0, <1>2, <1>5, <2>4, <3>1, <3>2 DEF PublishedSent, CursorAhead, PubBelow
  <2>6. FramesSent' /\ NewStreamAhead' /\ FirstAhead' /\ EpochShape'
    BY <1>1, <1>2, <1>5 DEF net, Ordered, FramesSent, FramesUpTo,
       NewStreamAhead, FirstAhead, EpochShape
  <2>. QED
    BY <2>5, <2>6 DEF Ordered
<1>. QED
  BY <1>3, <1>4, <1>5 DEF LiveStep

(* Every step of the system keeps the order, given the mirror invariant.   *)
LEMMA OrderedStep == IInv /\ Ordered /\ [Next]_vars => Ordered'
<1> SUFFICES ASSUME IInv, Ordered, [Next]_vars PROVE Ordered'
  OBVIOUS
<1>1. CASE VenueUpdate BY <1>1, OrderedVenueUpdate
<1>2. CASE VenueSendDiff BY <1>2, OrderedSendDiff
<1>3. CASE NetDrop BY <1>3, OrderedNetDrop
<1>4. CASE NetClose BY <1>4, OrderedNetClose
<1>5. CASE Receive BY <1>5, OrderedReceive
<1>6. CASE Start BY <1>6, OrderedStart
<1>7. CASE Backoff BY <1>7, OrderedBackoff
<1>8. CASE Fetch BY <1>8, OrderedFetch
<1>9. CASE ReplayStep BY <1>9, OrderedReplayStep
<1>10. CASE ReplayDone BY <1>10, OrderedReplayDone
<1>11. CASE BridgeStep BY <1>11, OrderedBridgeStep
<1>12. CASE LiveStep BY <1>12, OrderedLiveStep
<1>13. CASE UNCHANGED vars
  BY <1>13 DEF vars, venue, net, builder, Ordered, FramesSent, FramesUpTo,
     PublishedSent, PubBelow, NewStreamAhead, FirstAhead, CursorAhead,
     EpochShape
<1>. QED
  BY <1>1, <1>2, <1>3, <1>4, <1>5, <1>6, <1>7, <1>8, <1>9, <1>10, <1>11,
     <1>12, <1>13 DEF Next, Venue, Network, Builder

(* In every reachable state, through reconnects, stale snapshots, lost     *)
(* diffs and resyncs, every id a later BookState can be published at is    *)
(* above every id published so far.                                        *)
THEOREM RefinementInvariant == Spec => []RInv
<1>1. Init => Ordered
  BY OrderedInit
<1>2. IInv /\ Ordered /\ [Next]_vars => Ordered'
  BY OrderedStep
<1>. QED
  BY <1>1, <1>2, MirrorInvariant, PTL DEF Spec, RInv
-----------------------------------------------------------------------------
(* The refinement mapping: the venue's update id is the mirror's current   *)
(* version and bookAt its history; the published BookStates are the same. *)
LEMMA MirrorInit == Init => Mirror!Init
BY DEF Init, Mirror!Init

(* A venue update is a new version of the book.                            *)
LEMMA UpdateIsChange ==
  ASSUME TypeOK, VenueUpdate PROVE Mirror!Change
<1>1. PICK l \in Levels, q \in Qty :
            /\ exId' = exId + 1
            /\ bookAt' = [i \in 0 .. exId + 1 |->
                           IF i = exId + 1 THEN [bookAt[exId] EXCEPT ![l] = q]
                           ELSE bookAt[i]]
  BY DEF VenueUpdate
<1>2. [bookAt[exId] EXCEPT ![l] = q] \in Book
  BY <1>1, BoundsAssumption DEF TypeOK, Book, Ids
<1>3. UNCHANGED published
  BY DEF VenueUpdate, builder
<1>. QED
  BY <1>1, <1>2, <1>3 DEF Mirror!Change

(* The live loop's _emit_state publishes the view of the venue's book at  *)
(* the diff's id, newer than the last one published, or nothing.          *)
LEMMA LiveIsPublish ==
  ASSUME IInv, Ordered, LiveStep
  PROVE  Mirror!Publish \/ UNCHANGED Mirror!mvars
<1> DEFINE e == Head(eventQ)
<1>0. /\ eventQ \in Seq(SentDiffs) /\ eventQ # <<>>
      /\ published \in Seq(PubRec) /\ bookUpdateId \in Nat
  BY OrderTypes DEF IInv, AllWellFormed, LiveStep
<1>1. e \in SentDiffs
  BY <1>0, HeadTailProperties
<1>2. pc = "live" /\ UNCHANGED <<exId, bookAt>>
  BY DEF LiveStep, venue
<1>3. CASE /\ e.u > bookUpdateId
           /\ e.U <= bookUpdateId + 1
           /\ Emit(ApplyEvent(book, e), e.u)
  <2>1. ApplyEvent(book, e) = bookAt[e.u] /\ e.u \in 0 .. exId
    BY <1>1, <1>2, <1>3, ApplyKeepsMirror
  <2>2. Mirror!Newer(e.u)
    <3>1. CASE published # <<>>
      <4>1. published[Len(published)] \in Elems(published)
        BY <1>0, <3>1, EmptySeq, LenProperties DEF Elems
      <4>2. published[Len(published)].id \in Nat
            /\ published[Len(published)].id < bookUpdateId + 1
        BY <1>0, <1>2, <4>1, ElemsType DEF Ordered, CursorAhead, PubBelow,
           PubRec
      <4>. QED
        BY <1>0, <1>3, <2>1, <4>2 DEF Mirror!Newer
    <3>2. CASE published = <<>>
      BY <3>2 DEF Mirror!Newer
    <3>. QED
      BY <3>1, <3>2
  <2>3. CASE TopPrices(bookAt[e.u], "bid") # {}
             /\ TopPrices(bookAt[e.u], "ask") # {}
    <3>1. published' = Append(published, [id |-> e.u, view |-> View(bookAt[e.u])])
      BY <1>3, <2>1, <2>3 DEF Emit
    <3>. QED
      BY <1>2, <2>1, <2>2, <3>1 DEF Mirror!Publish
  <2>4. CASE ~(TopPrices(bookAt[e.u], "bid") # {}
               /\ TopPrices(bookAt[e.u], "ask") # {})
    BY <1>2, <1>3, <2>1, <2>4 DEF Emit, Mirror!mvars
  <2>. QED
    BY <2>3, <2>4
<1>4. CASE UNCHANGED published
  BY <1>2, <1>4 DEF Mirror!mvars
<1>. QED
  BY <1>3, <1>4 DEF LiveStep, Resync

(* Every step of the builder is a step of the mirror or leaves its state   *)
(* alone.                                                                  *)
LEMMA MirrorStep ==
  IInv /\ Ordered /\ [Next]_vars => [Mirror!Next]_Mirror!mvars
<1> SUFFICES ASSUME IInv, Ordered, [Next]_vars
             PROVE  [Mirror!Next]_Mirror!mvars
  OBVIOUS
<1>1. CASE VenueUpdate
  BY <1>1, UpdateIsChange DEF IInv, Mirror!Next
<1>2. CASE LiveStep
  BY <1>2, LiveIsPublish DEF Mirror!Next
<1>3. CASE VenueSendDiff \/ NetDrop \/ NetClose \/ Receive
  BY <1>3 DEF VenueSendDiff, NetDrop, NetClose, Receive, venue, builder,
     Mirror!mvars
<1>4. CASE Start \/ Backoff \/ Fetch \/ ReplayDone
  BY <1>4 DEF Start, Backoff, Fetch, ReplayDone, venue, Mirror!mvars
<1>5. CASE ReplayStep \/ BridgeStep
  BY <1>5 DEF ReplayStep, BridgeStep, venue, Mirror!mvars
<1>6. CASE UNCHANGED vars
  BY <1>6 DEF vars, venue, builder, Mirror!mvars
<1>. QED
  BY <1>1, <1>2, <1>3, <1>4, <1>5, <1>6 DEF Next, Venue, Network, Builder

(* The builder implements the abstract mirror, for every instance: the     *)
(* BookStates it publishes are views of versions of the venue's book, at   *)
(* strictly increasing ids (spec 4.2 step 6, spec 5).                      *)
THEOREM Refinement == Spec => ImplementsMirror
<1>1. Spec => []RInv
  BY RefinementInvariant
<1>2. Init => Mirror!Init
  BY MirrorInit
<1>3. RInv /\ [Next]_vars => [Mirror!Next]_Mirror!mvars
  BY MirrorStep DEF RInv
<1>. QED
  BY <1>1, <1>2, <1>3, PTL DEF Spec, ImplementsMirror, Mirror!Spec
=============================================================================
