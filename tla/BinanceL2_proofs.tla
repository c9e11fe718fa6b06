-------------------------- MODULE BinanceL2_proofs --------------------------
(***************************************************************************)
(* Proofs about the L2 builder of BinanceL2: the type invariant, and that  *)
(* the mirror equals the venue's book at book_update_id in every state,    *)
(* for every choice of prices, quantities and bounds.                      *)
(***************************************************************************)
EXTENDS BinanceL2, SequenceTheorems, TLAPS

(* Every diff event in flight, in event_q or buffered is one the venue     *)
(* sent: a range within the venue's ids, with the venue's quantities.      *)
WellFormed(e) ==
  /\ e.U \in 1 .. exId
  /\ e.u \in e.U .. exId
  /\ e = DiffEvent(e.U, e.u)

SentDiffs == {e \in Event : WellFormed(e)}

AllWellFormed ==
  /\ wire \in Seq(SentDiffs)
  /\ eventQ \in Seq(SentDiffs)
  /\ buffered \in Seq(SentDiffs)

(* A level no update in a+1..b touched has the same quantity at a and b.   *)
Frame ==
  \A a, b \in 0 .. exId, l \in Levels :
    (a <= b /\ \A i \in a + 1 .. b : touched[i] # l) => bookAt[b][l] = bookAt[a][l]

(* The effect of VenueUpdate on the venue's history, for level l and       *)
(* quantity q.                                                             *)
VenueUpdateBy(l, q) ==
  /\ exId' = exId + 1
  /\ bookAt' = [i \in 0 .. exId + 1 |->
                  IF i = exId + 1 THEN [bookAt[exId] EXCEPT ![l] = q]
                  ELSE bookAt[i]]
  /\ touched' = [i \in 1 .. exId + 1 |->
                   IF i = exId + 1 THEN l ELSE touched[i]]

(* The inductive invariant.                                                *)
IInv ==
  /\ TypeOK
  /\ AllWellFormed
  /\ Frame
  /\ BookMatchesVenue
  /\ PublishedMatchesVenue

(* The type of a published BookState: its update id and its view.         *)
PubRec == [id : Nat, view : PartialBook]
-----------------------------------------------------------------------------
(* A diff event built from the venue's history has the type of an event.   *)
LEMMA DiffEventType ==
  ASSUME TypeOK, NEW U \in 1 .. exId, NEW u \in 0 .. exId
  PROVE  DiffEvent(U, u) \in Event
<1> DEFINE S == {touched[i] : i \in U .. u}
<1>1. S \subseteq Levels
  BY BoundsAssumption DEF TypeOK, Ids
<1>2. [l \in S |-> bookAt[u][l]] \in [S -> Qty]
  BY <1>1 DEF TypeOK, Book
<1>3. [l \in S |-> bookAt[u][l]] \in PartialBook
  BY <1>1, <1>2, Zenon DEF PartialBook
<1>4. U \in Ids /\ u \in Ids
  BY BoundsAssumption DEF TypeOK, Ids
<1>. QED
  BY <1>3, <1>4 DEF DiffEvent, Event

(* Applying an event to a book gives a book.                               *)
LEMMA ApplyEventType ==
  ASSUME NEW b \in Book, NEW e \in Event
  PROVE  ApplyEvent(b, e) \in Book
<1>1. PICK S \in SUBSET Levels : e.chg \in [S -> Qty]
  BY DEF Event, PartialBook
<1>. QED
  BY <1>1 DEF ApplyEvent, Book

(* Every top-of-book view has the type of a published view.                *)
LEMMA ViewType ==
  ASSUME NEW b \in Book
  PROVE  View(b) \in PartialBook
<1> DEFINE S == {m \in Levels : m[2] \in TopPrices(b, m[1])}
<1>1. View(b) \in [S -> Qty]
  BY DEF View, Book
<1>. QED
  BY <1>1 DEF PartialBook

(* What _emit_state leaves in published has the type of published.         *)
LEMMA EmitType ==
  ASSUME NEW b \in Book, NEW id \in Nat,
         published \in Seq([id : Nat, view : PartialBook]),
         Emit(b, id)
  PROVE  published' \in Seq([id : Nat, view : PartialBook])
<1>1. [id |-> id, view |-> View(b)] \in [id : Nat, view : PartialBook]
  BY ViewType
<1>2. CASE TopPrices(b, "bid") # {} /\ TopPrices(b, "ask") # {}
  <2>1. published' = Append(published, [id |-> id, view |-> View(b)])
    BY <1>2 DEF Emit
  <2>. QED
    BY <1>1, <2>1, AppendProperties
<1>3. CASE ~(TopPrices(b, "bid") # {} /\ TopPrices(b, "ask") # {})
  BY <1>3 DEF Emit
<1>. QED
  BY <1>2, <1>3

-----------------------------------------------------------------------------
(* Removing one element keeps a sequence of the same type.                 *)
LEMMA RemoveAtType ==
  ASSUME NEW T, NEW s \in Seq(T), NEW i \in 1 .. Len(s)
  PROVE  SubSeq(s, 1, i - 1) \o SubSeq(s, i + 1, Len(s)) \in Seq(T)
<1>1. SubSeq(s, 1, i - 1) \in Seq(T)
  BY SubSeqProperties
<1>2. SubSeq(s, i + 1, Len(s)) \in Seq(T)
  BY SubSeqProperties
<1>. QED
  BY <1>1, <1>2, ConcatProperties

(* The state a teardown leaves has the type of the attempt's locals.       *)
LEMMA TearDownType ==
  ASSUME TearDown
  PROVE  /\ conn' \in {"down", "open", "closed"}
         /\ wire' \in Seq(Event) /\ eventQ' \in Seq(Event)
         /\ buffered' \in Seq(Event)
         /\ firstU' \in Ids \cup {None} /\ applied' \in BOOLEAN
<1>1. conn' \in {"down", "open", "closed"}
  BY DEF TearDown
<1>2. wire' \in Seq(Event) /\ eventQ' \in Seq(Event) /\ buffered' \in Seq(Event)
  BY DEF TearDown
<1>3. firstU' \in Ids \cup {None} /\ applied' \in BOOLEAN
  BY Zenon DEF TearDown
<1>. QED
  BY <1>1, <1>2, <1>3

-----------------------------------------------------------------------------
(* The heart of the bridging rule of _run_once: a diff [U, u] the venue    *)
(* sent, with U <= id + 1 <= u, applied to the venue's book at id gives    *)
(* the venue's book at u.  The levels it carries get their quantity at u;  *)
(* every other level was not touched in id+1..u, which lies inside U..u.   *)
LEMMA ApplyBridge ==
  ASSUME TypeOK, Frame,
         NEW id \in 0 .. exId, NEW U \in 1 .. exId, NEW u \in U .. exId,
         id < u, U <= id + 1
  PROVE  ApplyEvent(bookAt[id], DiffEvent(U, u)) = bookAt[u]
<1> DEFINE S == {touched[i] : i \in U .. u}
<1>1. ApplyEvent(bookAt[id], DiffEvent(U, u))
        = [l \in Levels |-> IF l \in S THEN bookAt[u][l] ELSE bookAt[id][l]]
  BY DEF ApplyEvent, DiffEvent
<1>2. ASSUME NEW l \in Levels, l \notin S
      PROVE  bookAt[id][l] = bookAt[u][l]
  <2>1. \A i \in id + 1 .. u : touched[i] # l
    BY <1>2, BoundsAssumption DEF TypeOK, Ids
  <2>2. id \in 0 .. exId /\ u \in 0 .. exId /\ id <= u
    BY BoundsAssumption DEF TypeOK, Ids
  <2>. QED
    BY <2>1, <2>2 DEF Frame
<1>3. bookAt[u] \in [Levels -> Qty]
  BY BoundsAssumption DEF TypeOK, Ids, Book
<1>. QED
  BY <1>1, <1>2, <1>3

(* A venue update leaves the history up to exId as it was, so a diff the  *)
(* venue sent earlier is still the diff of its range.                      *)
LEMMA DiffEventStable ==
  ASSUME TypeOK, NEW l \in Levels, NEW q \in Qty, VenueUpdateBy(l, q),
         NEW U \in 1 .. exId, NEW u \in U .. exId
  PROVE  DiffEvent(U, u)' = DiffEvent(U, u)
<1>1. exId \in Nat
  BY BoundsAssumption DEF TypeOK, Ids
<1>2. {touched'[i] : i \in U .. u} = {touched[i] : i \in U .. u}
  BY <1>1 DEF VenueUpdateBy
<1>3. \A m \in {touched[i] : i \in U .. u} : bookAt'[u][m] = bookAt[u][m]
  BY <1>1 DEF VenueUpdateBy
<1>. QED
  BY <1>2, <1>3 DEF DiffEvent

(* A venue update keeps every frame the venue sent well formed.            *)
LEMMA WellFormedStable ==
  ASSUME TypeOK, NEW l \in Levels, NEW q \in Qty, VenueUpdateBy(l, q),
         NEW e, WellFormed(e)
  PROVE  WellFormed(e)'
<1>1. exId \in Nat /\ exId' = exId + 1
  BY BoundsAssumption DEF TypeOK, Ids, VenueUpdateBy
<1>2. e.U \in 1 .. exId /\ e.u \in e.U .. exId /\ e = DiffEvent(e.U, e.u)
  BY DEF WellFormed
<1>3. DiffEvent(e.U, e.u)' = DiffEvent(e.U, e.u)
  BY <1>2, DiffEventStable
<1>. QED
  BY <1>1, <1>2, <1>3 DEF WellFormed

(* A venue update keeps the frame condition: the new update touches only   *)
(* its own level.                                                          *)
LEMMA FrameStable ==
  ASSUME TypeOK, Frame, NEW l \in Levels, NEW q \in Qty, VenueUpdateBy(l, q)
  PROVE  Frame'
<1>1. exId \in Nat /\ exId' = exId + 1
  BY BoundsAssumption DEF TypeOK, Ids, VenueUpdateBy
<1>2. ASSUME NEW a \in 0 .. exId + 1, NEW b \in 0 .. exId + 1,
             NEW m \in Levels, a <= b,
             \A i \in a + 1 .. b : touched'[i] # m
      PROVE  bookAt'[b][m] = bookAt'[a][m]
  <2>1. CASE b <= exId
    <3>1. \A i \in a + 1 .. b : touched[i] # m
      BY <1>1, <1>2, <2>1 DEF VenueUpdateBy
    <3>2. bookAt[b][m] = bookAt[a][m]
      BY <1>1, <1>2, <2>1, <3>1 DEF Frame
    <3>. QED
      BY <1>1, <1>2, <2>1, <3>2 DEF VenueUpdateBy
  <2>2. CASE b = exId + 1 /\ a = exId + 1
    BY <2>2
  <2>3. CASE b = exId + 1 /\ a <= exId
    <3>1. m # l
      BY <1>1, <1>2, <2>3 DEF VenueUpdateBy
    <3>2. \A i \in a + 1 .. exId : touched[i] # m
      BY <1>1, <1>2, <2>3 DEF VenueUpdateBy
    <3>3. bookAt[exId][m] = bookAt[a][m]
      BY <1>1, <1>2, <2>3, <3>2 DEF Frame
    <3>4. bookAt'[b][m] = bookAt[exId][m]
      BY <1>1, <2>3, <3>1 DEF VenueUpdateBy, TypeOK, Book
    <3>. QED
      BY <1>1, <1>2, <2>3, <3>3, <3>4 DEF VenueUpdateBy
  <2>. QED
    BY <1>1, <1>2, <2>1, <2>2, <2>3
<1>. QED
  BY <1>1, <1>2 DEF Frame

(* A venue update only adds to the diffs the venue may have sent.          *)
LEMMA SentDiffsGrow ==
  ASSUME TypeOK, NEW l \in Levels, NEW q \in Qty, VenueUpdateBy(l, q)
  PROVE  SentDiffs \subseteq SentDiffs'
<1> SUFFICES ASSUME NEW e \in SentDiffs PROVE e \in SentDiffs'
  OBVIOUS
<1>1. e \in Event /\ WellFormed(e)
  BY DEF SentDiffs
<1>2. WellFormed(e)'
  BY <1>1, WellFormedStable
<1>. QED
  BY <1>1, <1>2 DEF SentDiffs

(* A venue update leaves the books at the ids already issued.              *)
LEMMA HistoryStable ==
  ASSUME TypeOK, NEW l \in Levels, NEW q \in Qty, VenueUpdateBy(l, q)
  PROVE  /\ exId' = exId + 1
         /\ \A i \in 0 .. exId : bookAt'[i] = bookAt[i]
<1>1. exId \in Nat
  BY BoundsAssumption DEF TypeOK, Ids
<1>. QED
  BY <1>1 DEF VenueUpdateBy

(* Steps that leave the venue's history alone leave the frame condition    *)
(* and the diffs it may have sent alone.                                   *)
LEMMA VenueUnchanged ==
  ASSUME exId' = exId, bookAt' = bookAt, touched' = touched
  PROVE  /\ Frame' <=> Frame
         /\ SentDiffs' = SentDiffs
<1>1. Frame' <=> Frame
  BY DEF Frame
<1>2. \A e : WellFormed(e)' <=> WellFormed(e)
  BY DEF WellFormed, DiffEvent
<1>. QED
  BY <1>1, <1>2 DEF SentDiffs

(* The initial state is well typed.                                       *)
LEMMA InitType == Init => TypeOK
<2> SUFFICES ASSUME Init PROVE TypeOK
  OBVIOUS
<2>1. EmptyBook \in Book
  BY QtyAssumption DEF EmptyBook, Book, Qty
<2>2. bookAt \in [0 .. exId -> Book]
  BY DEF Init
<2>3. touched \in [1 .. exId -> Levels]
  BY DEF Init
<2>4. exId \in Ids /\ sentUpTo \in 0 .. exId /\ drops \in 0 .. MaxDrops
      /\ fails \in 0 .. MaxFails
  BY BoundsAssumption DEF Init, Ids
<2>. QED
  BY <2>1, <2>2, <2>3, <2>4 DEF Init, TypeOK, PCs

(* The apply branch of the replay, bridge and live loops, in a state of   *)
(* the invariant: the event is one the venue sent, so applying it to the   *)
(* mirror gives the venue's book at its end id.                            *)
LEMMA ApplyKeepsMirror ==
  ASSUME IInv, pc \in {"replay", "bridge", "live"},
         NEW e \in SentDiffs, e.u > bookUpdateId, e.U <= bookUpdateId + 1
  PROVE  /\ ApplyEvent(book, e) = bookAt[e.u]
         /\ e.u \in 0 .. exId
<1>1. TypeOK /\ Frame
  BY DEF IInv
<1>2. bookUpdateId \in 0 .. exId /\ book = bookAt[bookUpdateId]
  BY BoundsAssumption DEF IInv, BookMatchesVenue, TypeOK, Ids
<1>3. e.U \in 1 .. exId /\ e.u \in e.U .. exId /\ e = DiffEvent(e.U, e.u)
  BY DEF SentDiffs, WellFormed
<1>4. ApplyEvent(bookAt[bookUpdateId], DiffEvent(e.U, e.u)) = bookAt[e.u]
  BY <1>1, <1>2, <1>3, ApplyBridge
<1>5. e.u \in 0 .. exId
  BY <1>3
<1>. QED
  BY <1>2, <1>3, <1>4, <1>5

(* _emit_state of the venue's book at an id the venue has reached, with    *)
(* the venue unchanged, keeps every published state the venue's top of     *)
(* book at its id.                                                         *)
LEMMA EmitKeepsPublished ==
  ASSUME published \in Seq([id : Nat, view : PartialBook]),
         PublishedMatchesVenue, exId \in Nat,
         exId' = exId, bookAt' = bookAt,
         NEW id \in 0 .. exId, NEW b \in Book, b = bookAt[id],
         Emit(b, id)
  PROVE  PublishedMatchesVenue'
<1> DEFINE r == [id |-> id, view |-> View(b)]
<1>1. r \in [id : Nat, view : PartialBook]
  BY ViewType
<1>2. CASE TopPrices(b, "bid") # {} /\ TopPrices(b, "ask") # {}
  <2>1. published' = Append(published, r)
    BY <1>2 DEF Emit
  <2>2. /\ Len(published') = Len(published) + 1
        /\ \A i \in 1 .. Len(published) : published'[i] = published[i]
        /\ published'[Len(published) + 1] = r
    BY <1>1, <2>1, AppendProperties
  <2>3. SUFFICES ASSUME NEW i \in 1 .. Len(published')
                 PROVE  /\ published'[i].id <= exId'
                        /\ published'[i].view = View(bookAt'[published'[i].id])
    BY DEF PublishedMatchesVenue
  <2>4. CASE i \in 1 .. Len(published)
    BY <2>2, <2>4 DEF PublishedMatchesVenue
  <2>5. CASE i = Len(published) + 1
    BY <2>2, <2>5
  <2>. QED
    BY <2>2, <2>4, <2>5
<1>3. CASE ~(TopPrices(b, "bid") # {} /\ TopPrices(b, "ask") # {})
  BY <1>3 DEF Emit, PublishedMatchesVenue
<1>. QED
  BY <1>2, <1>3

(* Every step of the system preserves the type invariant.                 *)
LEMMA TypeStep == TypeOK /\ [Next]_vars => TypeOK'
<2> SUFFICES ASSUME TypeOK, [Next]_vars PROVE TypeOK'
  OBVIOUS
<2>0. /\ exId \in Nat /\ sentUpTo \in Nat /\ drops \in Nat /\ fails \in Nat
      /\ MaxId \in Nat /\ MaxDrops \in Nat /\ MaxFails \in Nat
  BY BoundsAssumption DEF TypeOK, Ids
<2>1. CASE VenueUpdate
  <3>1. PICK l \in Levels, q \in Qty :
              /\ exId' = exId + 1
              /\ bookAt' = [i \in 0 .. exId + 1 |->
                             IF i = exId + 1 THEN [bookAt[exId] EXCEPT ![l] = q]
                             ELSE bookAt[i]]
              /\ touched' = [i \in 1 .. exId + 1 |->
                               IF i = exId + 1 THEN l ELSE touched[i]]
    BY <2>1 DEF VenueUpdate
  <3>2. bookAt' \in [0 .. exId' -> Book]
    BY <2>0, <3>1 DEF TypeOK, Book
  <3>3. exId' \in Ids /\ touched' \in [1 .. exId' -> Levels]
    BY <2>0, <2>1, <3>1 DEF VenueUpdate, TypeOK, Ids
  <3>4. UNCHANGED <<sentUpTo, net, builder>> /\ exId' = exId + 1
    BY <2>1 DEF VenueUpdate
  <3>. QED
    BY <2>0, <3>2, <3>3, <3>4 DEF TypeOK, net, builder
<2>2. CASE VenueSendDiff
  <3>0. sentUpTo + 1 \in 1 .. exId /\ exId \in 0 .. exId
    BY <2>0, <2>2 DEF VenueSendDiff
  <3>1. DiffEvent(sentUpTo + 1, exId) \in Event
    BY <3>0, DiffEventType
  <3>. QED
    BY <2>0, <2>2, <3>1, AppendProperties DEF VenueSendDiff, TypeOK, builder
<2>3. CASE NetDrop
  BY <2>0, <2>3, RemoveAtType DEF NetDrop, TypeOK, venue, builder
<2>4. CASE NetClose
  BY <2>4 DEF NetClose, TypeOK, venue, builder
<2>5. CASE Receive
  <3>1. Head(wire) \in Event /\ Tail(wire) \in Seq(Event)
    BY <2>5, HeadTailProperties DEF Receive, TypeOK
  <3>2. Head(wire).U \in Ids
    BY <3>1 DEF Event
  <3>. QED
    BY <2>5, <3>1, <3>2, AppendProperties DEF Receive, TypeOK, venue
<2>6. CASE Start
  <3>1. EmptyBook \in Book
    BY QtyAssumption DEF EmptyBook, Book, Qty
  <3>. QED
    BY <2>0, <2>6, <3>1, TearDownType DEF Start, Resync, TypeOK, PCs, Ids, venue
<2>7. CASE Backoff
  BY <2>7 DEF Backoff, TypeOK, PCs, venue, net
<2>8. CASE Fetch
  <3>1. UNCHANGED <<venue, drops, resyncCount, fails, published>>
    BY <2>8 DEF Fetch, venue
  <3>2. CASE TearDown /\ pc' = "idle" /\ UNCHANGED <<book, bookUpdateId>>
    BY <2>0, <3>1, <3>2, TearDownType DEF TypeOK, PCs, venue
  <3>3. CASE \E k \in 0 .. exId :
               IF k < firstU
               THEN /\ pc' = "fetch"
                    /\ UNCHANGED <<net, eventQ, firstU, book, bookUpdateId,
                                   buffered, applied>>
               ELSE /\ book' = bookAt[k]
                    /\ bookUpdateId' = k
                    /\ buffered' = eventQ
                    /\ eventQ' = <<>>
                    /\ applied' = FALSE
                    /\ pc' = "replay"
                    /\ UNCHANGED <<net, firstU>>
    <4>1. PICK k \in 0 .. exId :
               IF k < firstU
               THEN /\ pc' = "fetch"
                    /\ UNCHANGED <<net, eventQ, firstU, book, bookUpdateId,
                                   buffered, applied>>
               ELSE /\ book' = bookAt[k]
                    /\ bookUpdateId' = k
                    /\ buffered' = eventQ
                    /\ eventQ' = <<>>
                    /\ applied' = FALSE
                    /\ pc' = "replay"
                    /\ UNCHANGED <<net, firstU>>
      BY <3>3
    <4>2. bookAt[k] \in Book
      BY <2>0 DEF TypeOK
    <4>3. CASE k < firstU
      BY <2>0, <3>1, <4>1, <4>3 DEF TypeOK, PCs, venue, net
    <4>4. CASE ~(k < firstU)
      <5>1. /\ book' = bookAt[k] /\ bookUpdateId' = k /\ buffered' = eventQ
            /\ eventQ' = <<>> /\ applied' = FALSE /\ pc' = "replay"
            /\ UNCHANGED <<net, firstU>>
        BY <4>1, <4>4
      <5>2. bookUpdateId' \in Ids /\ eventQ' \in Seq(Event)
        BY <2>0, <5>1 DEF TypeOK, Ids
      <5>. QED
        BY <3>1, <4>2, <5>1, <5>2, Zenon DEF TypeOK, PCs, venue, net
    <4>. QED
      BY <4>3, <4>4
  <3>. QED
    BY <2>8, <3>2, <3>3, Zenon DEF Fetch
<2>9. CASE ReplayStep
  <3> DEFINE e == Head(buffered)
  <3>1. e \in Event /\ Tail(buffered) \in Seq(Event)
    BY <2>9, HeadTailProperties DEF ReplayStep, TypeOK
  <3>2. e.U \in Ids /\ e.u \in Ids /\ ApplyEvent(book, e) \in Book
    <4>1. e.U \in Ids /\ e.u \in Ids
      BY <3>1 DEF Event
    <4>2. ApplyEvent(book, e) \in Book
      BY <3>1, ApplyEventType DEF TypeOK
    <4>. QED
      BY <4>1, <4>2
  <3>3. resyncCount + 1 \in Nat
    BY DEF TypeOK
  <3>. QED
    BY <2>0, <2>9, <3>1, <3>2, <3>3, TearDownType, Zenon
    DEF ReplayStep, Resync, TypeOK, PCs, venue, net
<2>10. CASE ReplayDone
  BY <2>10 DEF ReplayDone, TypeOK, PCs, venue, net
<2>11. CASE BridgeStep
  <3> DEFINE e == Head(eventQ)
  <3>1. e \in Event /\ Tail(eventQ) \in Seq(Event)
    BY <2>11, HeadTailProperties DEF BridgeStep, TypeOK
  <3>2. e.U \in Ids /\ e.u \in Ids /\ ApplyEvent(book, e) \in Book
    <4>1. e.U \in Ids /\ e.u \in Ids
      BY <3>1 DEF Event
    <4>2. ApplyEvent(book, e) \in Book
      BY <3>1, ApplyEventType DEF TypeOK
    <4>. QED
      BY <4>1, <4>2
  <3>3. resyncCount + 1 \in Nat
    BY DEF TypeOK
  <3>. QED
    BY <2>0, <2>11, <3>1, <3>2, <3>3, TearDownType, Zenon
    DEF BridgeStep, Resync, TypeOK, PCs, venue, net
<2>12. CASE LiveStep
  <3> DEFINE e == Head(eventQ)
  <3>1. e \in Event /\ Tail(eventQ) \in Seq(Event)
    BY <2>12, HeadTailProperties DEF LiveStep, TypeOK
  <3>2. e.U \in Ids /\ e.u \in Ids /\ ApplyEvent(book, e) \in Book
    <4>1. e.U \in Ids /\ e.u \in Ids
      BY <3>1 DEF Event
    <4>2. ApplyEvent(book, e) \in Book
      BY <3>1, ApplyEventType DEF TypeOK
    <4>. QED
      BY <4>1, <4>2
  <3>3. resyncCount + 1 \in Nat
    BY DEF TypeOK
  <3>4. UNCHANGED <<venue, drops, fails>>
    BY <2>12 DEF LiveStep
  <3>5. CASE /\ e.u <= bookUpdateId
             /\ eventQ' = Tail(eventQ)
             /\ UNCHANGED <<net, firstU, pc, book, bookUpdateId, buffered,
                            applied, resyncCount, published>>
    BY <3>1, <3>4, <3>5, Zenon DEF TypeOK, venue, net
  <3>6. CASE /\ e.u > bookUpdateId
             /\ e.U > bookUpdateId + 1
             /\ Resync
             /\ UNCHANGED <<book, bookUpdateId, published>>
    BY <3>3, <3>4, <3>6, TearDownType, Zenon DEF Resync, TypeOK, PCs, venue
  <3>7. CASE /\ e.u > bookUpdateId
             /\ e.U <= bookUpdateId + 1
             /\ book' = ApplyEvent(book, e)
             /\ bookUpdateId' = e.u
             /\ eventQ' = Tail(eventQ)
             /\ Emit(ApplyEvent(book, e), e.u)
             /\ UNCHANGED <<net, firstU, pc, buffered, applied, resyncCount>>
    <4>1. e.u \in Nat
      BY <3>2 DEF Ids
    <4>2. published \in Seq([id : Nat, view : PartialBook])
      BY DEF TypeOK
    <4>3. published' \in Seq([id : Nat, view : PartialBook])
      BY <3>2, <3>7, <4>1, <4>2, EmitType, Zenon
    <4>. QED
      BY <3>1, <3>2, <3>4, <3>7, <4>3, Zenon DEF TypeOK, venue, net
  <3>. QED
    BY <2>12, <3>5, <3>6, <3>7 DEF LiveStep
<2>13. CASE UNCHANGED vars
  BY <2>13 DEF vars, TypeOK, venue, net, builder
<2>. QED
  BY <2>1, <2>2, <2>3, <2>4, <2>5, <2>6, <2>7, <2>8, <2>9, <2>10, <2>11,
     <2>12, <2>13 DEF Next, Venue, Network, Builder

(* The type invariant holds in every state: the venue's history, the      *)
(* frames in flight, event_q, the builder's cursor and book and the        *)
(* published states keep their types through every step of the builder,   *)
(* the receiver, the venue and the network.                                *)
THEOREM TypeCorrect == Spec => []TypeOK
<1>1. Init => TypeOK
  BY InitType
<1>2. TypeOK /\ [Next]_vars => TypeOK'
  BY TypeStep
<1>. QED
  BY <1>1, <1>2, PTL DEF Spec

-----------------------------------------------------------------------------
(* The mirror is the venue's book, and so is everything published: in     *)
(* every state reachable through connects, lost frames, closes, stale      *)
(* snapshots, replays, bridges, gaps and resyncs, the book of the replay,  *)
(* bridge and live loops is the venue's book at book_update_id, and every  *)
(* state _emit_state has produced is the venue's top of book at its id.    *)
THEOREM MirrorInvariant == Spec => []IInv
<1>1. Init => IInv
  <2> SUFFICES ASSUME Init PROVE IInv
    OBVIOUS
  <2>1. TypeOK
    BY InitType
  <2>2. AllWellFormed
    BY EmptySeq DEF Init, AllWellFormed
  <2>3. Frame
    BY DEF Init, Frame
  <2>. QED
    BY <2>1, <2>2, <2>3 DEF Init, IInv, BookMatchesVenue, PublishedMatchesVenue
<1>2. IInv /\ [Next]_vars => IInv'
  <2> SUFFICES ASSUME IInv, [Next]_vars PROVE IInv'
    OBVIOUS
  <2>0. TypeOK /\ TypeOK'
    BY TypeStep DEF IInv
  <2>1. CASE VenueUpdate
    <3>1. PICK l \in Levels, q \in Qty : VenueUpdateBy(l, q)
      BY <2>1 DEF VenueUpdate, VenueUpdateBy
    <3>2. UNCHANGED <<sentUpTo, net, builder>>
      BY <2>1 DEF VenueUpdate
    <3>3. AllWellFormed'
      <4>1. SentDiffs \subseteq SentDiffs'
        BY <2>0, <3>1, SentDiffsGrow
      <4>2. wire \in Seq(SentDiffs) /\ eventQ \in Seq(SentDiffs)
            /\ buffered \in Seq(SentDiffs)
        BY DEF IInv, AllWellFormed
      <4>3. wire \in Seq(SentDiffs') /\ eventQ \in Seq(SentDiffs')
            /\ buffered \in Seq(SentDiffs')
        BY <4>1, <4>2, SeqMonotonic, Zenon
      <4>. QED
        BY <3>2, <4>3 DEF AllWellFormed, net, builder
    <3>4. Frame'
      BY <2>0, <3>1, FrameStable DEF IInv
    <3>5. /\ exId' = exId + 1
          /\ \A i \in 0 .. exId : bookAt'[i] = bookAt[i]
      BY <2>0, <3>1, HistoryStable
    <3>6. BookMatchesVenue'
      BY <2>0, <3>2, <3>5 DEF IInv, BookMatchesVenue, builder, TypeOK, Ids
    <3>7. PublishedMatchesVenue'
      <4>1. published' = published
        BY <3>2 DEF builder
      <4>2. SUFFICES ASSUME NEW i \in 1 .. Len(published)
                     PROVE  /\ published[i].id <= exId'
                            /\ published[i].view = View(bookAt'[published[i].id])
        BY <4>1 DEF PublishedMatchesVenue
      <4>3. published[i].id \in Nat /\ exId \in Nat
        <5>0. published \in Seq(PubRec)
          BY <2>0 DEF TypeOK, PubRec
        <5>1. published[i] \in PubRec
          BY <5>0
        <5>2. published[i].id \in Nat
          BY <5>1, Zenon DEF PubRec
        <5>3. exId \in Nat
          BY <2>0, BoundsAssumption DEF TypeOK, Ids
        <5>. QED
          BY <5>2, <5>3
      <4>4. /\ published[i].id <= exId
            /\ published[i].view = View(bookAt[published[i].id])
        BY DEF IInv, PublishedMatchesVenue
      <4>5. published[i].id \in 0 .. exId
        BY <4>3, <4>4
      <4>. QED
        BY <3>5, <4>3, <4>4, <4>5
    <3>. QED
      BY <2>0, <3>3, <3>4, <3>6, <3>7 DEF IInv
  <2>2. CASE VenueSendDiff
    <3>1. UNCHANGED <<exId, bookAt, touched>>
      BY <2>2 DEF VenueSendDiff
    <3>2. DiffEvent(sentUpTo + 1, exId) \in SentDiffs
      <4>1. sentUpTo + 1 \in 1 .. exId
        BY <2>0, <2>2, BoundsAssumption DEF VenueSendDiff, TypeOK, Ids
      <4>2. DiffEvent(sentUpTo + 1, exId) \in Event
        <5>1. exId \in 0 .. exId
          BY <2>0, BoundsAssumption DEF TypeOK, Ids
        <5>. QED
          BY <2>0, <4>1, <5>1, DiffEventType
      <4>3. WellFormed(DiffEvent(sentUpTo + 1, exId))
        BY <2>0, <4>1, BoundsAssumption DEF WellFormed, DiffEvent, TypeOK, Ids
      <4>. QED
        BY <4>2, <4>3 DEF SentDiffs
    <3>3. wire' \in Seq(SentDiffs)
      BY <2>2, <3>2, AppendProperties DEF VenueSendDiff, IInv, AllWellFormed
    <3>4. Frame' /\ SentDiffs' = SentDiffs
      BY <3>1, VenueUnchanged DEF IInv
    <3>. QED
      BY <2>0, <2>2, <3>3, <3>4
      DEF VenueSendDiff, IInv, AllWellFormed, BookMatchesVenue,
          PublishedMatchesVenue, builder
  <2>3. CASE NetDrop
    <3>1. wire' \in Seq(SentDiffs)
      BY <2>3, RemoveAtType DEF NetDrop, IInv, AllWellFormed
    <3>2. Frame' /\ SentDiffs' = SentDiffs
      BY <2>3, VenueUnchanged DEF NetDrop, IInv, venue
    <3>. QED
      BY <2>0, <2>3, <3>1, <3>2
      DEF NetDrop, IInv, AllWellFormed, BookMatchesVenue,
          PublishedMatchesVenue, venue, builder
  <2>4. CASE NetClose
    <3>1. Frame' /\ SentDiffs' = SentDiffs
      BY <2>4, VenueUnchanged DEF NetClose, IInv, venue
    <3>. QED
      BY <2>0, <2>4, <3>1
      DEF NetClose, IInv, AllWellFormed, BookMatchesVenue,
          PublishedMatchesVenue, venue, builder
  <2>5. CASE Receive
    <3>1. Head(wire) \in SentDiffs /\ Tail(wire) \in Seq(SentDiffs)
      BY <2>5, HeadTailProperties DEF Receive, IInv, AllWellFormed
    <3>2. eventQ' \in Seq(SentDiffs)
      BY <2>5, <3>1, AppendProperties DEF Receive, IInv, AllWellFormed
    <3>3. Frame' /\ SentDiffs' = SentDiffs
      BY <2>5, VenueUnchanged DEF Receive, IInv, venue
    <3>. QED
      BY <2>0, <2>5, <3>1, <3>2, <3>3
      DEF Receive, IInv, AllWellFormed, BookMatchesVenue,
          PublishedMatchesVenue, venue
  <2>6. CASE Start
    <3>1. Frame' /\ SentDiffs' = SentDiffs
      BY <2>6, VenueUnchanged DEF Start, IInv, venue
    <3>2. pc' \notin {"replay", "bridge", "live"}
      BY <2>6 DEF Start, Resync
    <3>3. AllWellFormed'
      BY <2>6, <3>1, EmptySeq DEF Start, Resync, TearDown, IInv, AllWellFormed
    <3>4. PublishedMatchesVenue'
      BY <2>6 DEF Start, IInv, PublishedMatchesVenue, venue
    <3>. QED
      BY <2>0, <3>1, <3>2, <3>3, <3>4 DEF IInv, BookMatchesVenue
  <2>7. CASE Backoff
    <3>1. Frame' /\ SentDiffs' = SentDiffs
      BY <2>7, VenueUnchanged DEF Backoff, IInv, venue
    <3>. QED
      BY <2>0, <2>7, <3>1
      DEF Backoff, IInv, AllWellFormed, BookMatchesVenue,
          PublishedMatchesVenue, venue, net
  <2>8. CASE Fetch
    <3>1. Frame' /\ SentDiffs' = SentDiffs
      BY <2>8, VenueUnchanged DEF Fetch, IInv, venue
    <3>2. UNCHANGED <<venue, published>>
      BY <2>8 DEF Fetch
    <3>3. PublishedMatchesVenue'
      BY <3>2 DEF IInv, PublishedMatchesVenue, venue
    <3>4. CASE TearDown /\ pc' = "idle" /\ UNCHANGED <<book, bookUpdateId>>
      <4>1. AllWellFormed'
        BY <3>1, <3>4, EmptySeq DEF TearDown, AllWellFormed
      <4>. QED
        BY <2>0, <3>1, <3>3, <3>4, <4>1 DEF IInv, BookMatchesVenue
    <3>5. CASE \E k \in 0 .. exId :
                 IF k < firstU
                 THEN /\ pc' = "fetch"
                      /\ UNCHANGED <<net, eventQ, firstU, book, bookUpdateId,
                                     buffered, applied>>
                 ELSE /\ book' = bookAt[k]
                      /\ bookUpdateId' = k
                      /\ buffered' = eventQ
                      /\ eventQ' = <<>>
                      /\ applied' = FALSE
                      /\ pc' = "replay"
                      /\ UNCHANGED <<net, firstU>>
      <4>1. PICK k \in 0 .. exId :
                 IF k < firstU
                 THEN /\ pc' = "fetch"
                      /\ UNCHANGED <<net, eventQ, firstU, book, bookUpdateId,
                                     buffered, applied>>
                 ELSE /\ book' = bookAt[k]
                      /\ bookUpdateId' = k
                      /\ buffered' = eventQ
                      /\ eventQ' = <<>>
                      /\ applied' = FALSE
                      /\ pc' = "replay"
                      /\ UNCHANGED <<net, firstU>>
        BY <3>5
      <4>2. CASE k < firstU
        <5>1. pc' = "fetch" /\ UNCHANGED <<net, eventQ, buffered>>
          BY <4>1, <4>2
        <5>. QED
          BY <2>0, <3>1, <3>3, <5>1
          DEF IInv, AllWellFormed, BookMatchesVenue, net
      <4>3. CASE ~(k < firstU)
        <5>1. /\ book' = bookAt[k] /\ bookUpdateId' = k /\ buffered' = eventQ
              /\ eventQ' = <<>> /\ UNCHANGED net
          BY <4>1, <4>3
        <5>2. AllWellFormed'
          BY <3>1, <5>1, EmptySeq DEF IInv, AllWellFormed, net
        <5>3. BookMatchesVenue'
          BY <3>2, <5>1 DEF BookMatchesVenue, venue
        <5>. QED
          BY <2>0, <3>1, <3>3, <5>2, <5>3 DEF IInv
      <4>. QED
        BY <4>2, <4>3
    <3>. QED
      BY <2>8, <3>4, <3>5, Zenon DEF Fetch
  <2>9. CASE ReplayStep
    <3> DEFINE e == Head(buffered)
    <3>0. UNCHANGED <<venue, published>> /\ pc = "replay" /\ buffered # <<>>
      BY <2>9 DEF ReplayStep
    <3>1. Frame' /\ SentDiffs' = SentDiffs
      BY <2>0, <3>0, VenueUnchanged DEF venue, IInv
    <3>2. e \in SentDiffs /\ Tail(buffered) \in Seq(SentDiffs)
      BY <3>0, HeadTailProperties DEF IInv, AllWellFormed
    <3>4. CASE /\ e.u <= bookUpdateId
               /\ buffered' = Tail(buffered)
               /\ UNCHANGED <<net, eventQ, firstU, pc, book, bookUpdateId,
                              applied, resyncCount>>
      BY <2>0, <3>0, <3>1, <3>2, <3>4
      DEF IInv, AllWellFormed, BookMatchesVenue, PublishedMatchesVenue,
          net, venue
    <3>5. CASE /\ e.u > bookUpdateId
               /\ e.U <= bookUpdateId + 1
               /\ book' = ApplyEvent(book, e)
               /\ bookUpdateId' = e.u
               /\ applied' = TRUE
               /\ buffered' = Tail(buffered)
               /\ UNCHANGED <<net, eventQ, firstU, pc, resyncCount>>
      <4>1. ApplyEvent(book, e) = bookAt[e.u] /\ e.u \in 0 .. exId
        BY <3>0, <3>2, <3>5, ApplyKeepsMirror
      <4>2. BookMatchesVenue'
        BY <3>0, <3>5, <4>1 DEF BookMatchesVenue, venue
      <4>3. AllWellFormed'
        BY <3>1, <3>2, <3>5 DEF IInv, AllWellFormed, net
      <4>4. PublishedMatchesVenue'
        BY <3>0 DEF IInv, PublishedMatchesVenue, venue
      <4>. QED
        BY <2>0, <3>1, <4>2, <4>3, <4>4 DEF IInv
    <3>6. CASE /\ e.u > bookUpdateId
               /\ e.U > bookUpdateId + 1
               /\ Resync
               /\ UNCHANGED <<book, bookUpdateId>>
      <4>1. AllWellFormed'
        BY <3>1, <3>6, EmptySeq DEF Resync, TearDown, AllWellFormed
      <4>. QED
        BY <2>0, <3>0, <3>1, <3>6, <4>1
        DEF IInv, Resync, BookMatchesVenue, PublishedMatchesVenue, venue
    <3>. QED
      BY <2>9, <3>4, <3>5, <3>6 DEF ReplayStep
  <2>10. CASE ReplayDone
    <3>1. Frame' /\ SentDiffs' = SentDiffs
      BY <2>10, VenueUnchanged DEF ReplayDone, IInv, venue
    <3>. QED
      BY <2>0, <2>10, <3>1
      DEF ReplayDone, IInv, AllWellFormed, BookMatchesVenue,
          PublishedMatchesVenue, venue, net
  <2>11. CASE BridgeStep
    <3> DEFINE e == Head(eventQ)
    <3>0. UNCHANGED <<venue, published>> /\ pc = "bridge" /\ eventQ # <<>>
      BY <2>11 DEF BridgeStep
    <3>1. Frame' /\ SentDiffs' = SentDiffs
      BY <2>0, <3>0, VenueUnchanged DEF venue, IInv
    <3>2. e \in SentDiffs /\ Tail(eventQ) \in Seq(SentDiffs)
      BY <3>0, HeadTailProperties DEF IInv, AllWellFormed
    <3>4. CASE /\ e.u <= bookUpdateId
               /\ eventQ' = Tail(eventQ)
               /\ UNCHANGED <<net, firstU, pc, book, bookUpdateId, buffered,
                              applied, resyncCount>>
      BY <2>0, <3>0, <3>1, <3>2, <3>4
      DEF IInv, AllWellFormed, BookMatchesVenue, PublishedMatchesVenue,
          net, venue
    <3>5. CASE /\ e.u > bookUpdateId
               /\ e.U <= bookUpdateId + 1
               /\ book' = ApplyEvent(book, e)
               /\ bookUpdateId' = e.u
               /\ eventQ' = Tail(eventQ)
               /\ pc' = "live"
               /\ UNCHANGED <<net, firstU, buffered, applied, resyncCount>>
      <4>1. ApplyEvent(book, e) = bookAt[e.u] /\ e.u \in 0 .. exId
        BY <3>0, <3>2, <3>5, ApplyKeepsMirror
      <4>2. BookMatchesVenue'
        BY <3>0, <3>5, <4>1 DEF BookMatchesVenue, venue
      <4>3. AllWellFormed'
        BY <3>1, <3>2, <3>5 DEF IInv, AllWellFormed, net
      <4>4. PublishedMatchesVenue'
        BY <3>0 DEF IInv, PublishedMatchesVenue, venue
      <4>. QED
        BY <2>0, <3>1, <4>2, <4>3, <4>4 DEF IInv
    <3>6. CASE /\ e.u > bookUpdateId
               /\ e.U > bookUpdateId + 1
               /\ Resync
               /\ UNCHANGED <<book, bookUpdateId>>
      <4>1. AllWellFormed'
        BY <3>1, <3>6, EmptySeq DEF Resync, TearDown, AllWellFormed
      <4>. QED
        BY <2>0, <3>0, <3>1, <3>6, <4>1
        DEF IInv, Resync, BookMatchesVenue, PublishedMatchesVenue, venue
    <3>. QED
      BY <2>11, <3>4, <3>5, <3>6 DEF BridgeStep
  <2>12. CASE LiveStep
    <3> DEFINE e == Head(eventQ)
    <3>0. UNCHANGED venue /\ pc = "live" /\ eventQ # <<>>
      BY <2>12 DEF LiveStep
    <3>1. Frame' /\ SentDiffs' = SentDiffs
      BY <2>0, <3>0, VenueUnchanged DEF venue, IInv
    <3>2. e \in SentDiffs /\ Tail(eventQ) \in Seq(SentDiffs)
      BY <3>0, HeadTailProperties DEF IInv, AllWellFormed
    <3>4. CASE /\ e.u <= bookUpdateId
               /\ eventQ' = Tail(eventQ)
               /\ UNCHANGED <<net, firstU, pc, book, bookUpdateId, buffered,
                              applied, resyncCount, published>>
      BY <2>0, <3>0, <3>1, <3>2, <3>4
      DEF IInv, AllWellFormed, BookMatchesVenue, PublishedMatchesVenue,
          net, venue
    <3>5. CASE /\ e.u > bookUpdateId
               /\ e.U <= bookUpdateId + 1
               /\ book' = ApplyEvent(book, e)
               /\ bookUpdateId' = e.u
               /\ eventQ' = Tail(eventQ)
               /\ Emit(ApplyEvent(book, e), e.u)
               /\ UNCHANGED <<net, firstU, pc, buffered, applied, resyncCount>>
      <4>1. ApplyEvent(book, e) = bookAt[e.u] /\ e.u \in 0 .. exId
        BY <3>0, <3>2, <3>5, ApplyKeepsMirror
      <4>2. BookMatchesVenue'
        BY <3>0, <3>5, <4>1 DEF BookMatchesVenue, venue
      <4>3. AllWellFormed'
        BY <3>1, <3>2, <3>5 DEF IInv, AllWellFormed, net
      <4>4. ApplyEvent(book, e) \in Book
        BY <4>1, BoundsAssumption DEF IInv, TypeOK
      <4>5. /\ published \in Seq([id : Nat, view : PartialBook])
            /\ PublishedMatchesVenue /\ exId \in Nat
            /\ exId' = exId /\ bookAt' = bookAt
        BY <3>0, BoundsAssumption DEF IInv, TypeOK, Ids, venue
      <4>6. PublishedMatchesVenue'
        BY <3>5, <4>1, <4>4, <4>5, EmitKeepsPublished
      <4>. QED
        BY <2>0, <3>1, <4>2, <4>3, <4>6 DEF IInv
    <3>6. CASE /\ e.u > bookUpdateId
               /\ e.U > bookUpdateId + 1
               /\ Resync
               /\ UNCHANGED <<book, bookUpdateId, published>>
      <4>1. AllWellFormed'
        BY <3>1, <3>6, EmptySeq DEF Resync, TearDown, AllWellFormed
      <4>. QED
        BY <2>0, <3>0, <3>1, <3>6, <4>1
        DEF IInv, Resync, BookMatchesVenue, PublishedMatchesVenue, venue
    <3>. QED
      BY <2>12, <3>4, <3>5, <3>6 DEF LiveStep
  <2>13. CASE UNCHANGED vars
    <3>1. Frame' /\ SentDiffs' = SentDiffs
      BY <2>13, VenueUnchanged DEF vars, IInv, venue
    <3>. QED
      BY <2>0, <2>13, <3>1
      DEF vars, IInv, AllWellFormed, BookMatchesVenue,
          PublishedMatchesVenue, venue, net, builder
  <2>. QED
    BY <2>1, <2>2, <2>3, <2>4, <2>5, <2>6, <2>7, <2>8, <2>9, <2>10, <2>11,
       <2>12, <2>13 DEF Next, Venue, Network, Builder
<1>. QED
  BY <1>1, <1>2, PTL DEF Spec

(* The mirror invariant checked by the l2_safety run, for every instance.  *)
THEOREM MirrorCorrect == Spec => []BookMatchesVenue
BY MirrorInvariant, PTL DEF IInv

(* The published states are the venue's, for every instance.               *)
THEOREM PublishedCorrect == Spec => []PublishedMatchesVenue
BY MirrorInvariant, PTL DEF IInv

=============
