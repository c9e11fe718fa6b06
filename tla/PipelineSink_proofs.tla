-------------------------- MODULE PipelineSink_proofs --------------------------
(***************************************************************************)
(* The sink's side of the pipeline, for every capacity, window, clock and  *)
(* number of BookStates: the state keeps its types (TypeOK), and every     *)
(* parquet page holds rows of its own bucket only (PageHoldsItsBucket).    *)
(*                                                                         *)
(* Neither is inductive alone.  The row the sink builds from Head(queue)   *)
(* is a Row only if that BookState was emitted (QueueIssued, resting on    *)
(* Issued of the bus invariant IInv for the task that put it); and a page  *)
(* keeps its bucket only because the buffered rows all share the writer's *)
(* current bucket, which is what the flush writes them under (WriterOK).  *)
(***************************************************************************)
EXTENDS Pipeline_proofs, ParquetWriter_proofs, TLAPS

(* Every event on the bus is a BookState already emitted.                  *)
QueueIssued == \A i \in DOMAIN queue : queue[i] <= Len(emitted)

TInv == IInv /\ TypeOK /\ QueueIssued /\ WriterOK(writer)

(* What TInv adds to IInv.                                                 *)
SinkInv == TypeOK /\ QueueIssued /\ WriterOK(writer)

-----------------------------------------------------------------------------
(* TypeOK from the bus's types and the sink's.                             *)
LEMMA TypeParts ==
  ASSUME BTypeOK', Len(queue') <= Cap, now' \in Times,
         emitted' \in Seq(Times), Len(emitted') <= MaxStates,
         netWait' \in BOOLEAN, writer' \in Writer, lastFlush' \in Times,
         readFails' \in 0 .. MaxReadFails, stopped' \in BOOLEAN,
         taken' \in Seq(Publishers)
  PROVE  TypeOK'
BY DEF BTypeOK, TypeOK

(* A step that leaves the bus, the clock, the emitted BookStates and the   *)
(* sink alone: Poll, Dispatch, NetData, BuilderAwaits, SinkWaits and the  *)
(* shutdown.                                                               *)
LEMMA Quiet ==
  ASSUME TInv, IInv', UNCHANGED <<queue, now, emitted, sinkVars>>,
         netWait' \in BOOLEAN, stopped' \in BOOLEAN
  PROVE  SinkInv'
<1>1. BTypeOK'
  BY DEF IInv
<1>2. writer' = writer /\ WriterOK(writer)
  BY DEF TInv, sinkVars
<1>3. TypeOK'
  BY <1>1, <1>2, TypeParts DEF TInv, TypeOK, WriterOK, sinkVars
<1>4. QueueIssued'
  BY DEF TInv, QueueIssued
<1>. QED
  BY <1>2, <1>3, <1>4 DEF SinkInv

LEMMA TickSinkInv ==
  ASSUME TInv, IInv', Tick
  PROVE  SinkInv'
<1>1. UNCHANGED <<queue, emitted, netWait, stopped, sinkVars>>
  BY DEF Tick, busVars
<1>2. now' \in Times
  BY TimeAssumption DEF Tick, TInv, TypeOK, Times
<1>3. writer' = writer /\ WriterOK(writer)
  BY <1>1 DEF TInv, sinkVars
<1>4. TypeOK'
  BY <1>1, <1>2, <1>3, TypeParts DEF IInv, TInv, TypeOK, WriterOK, sinkVars
<1>5. QueueIssued'
  BY <1>1 DEF TInv, QueueIssued
<1>. QED
  BY <1>3, <1>4, <1>5 DEF SinkInv

(* _emit_state stamps the new BookState with the clock.                    *)
LEMMA EmitsSinkInv ==
  ASSUME TInv, IInv', BuilderEmits
  PROVE  SinkInv'
<1>1. /\ emitted' = Append(emitted, now) /\ now \in Times
      /\ emitted \in Seq(Times) /\ Len(emitted) < MaxStates
      /\ UNCHANGED <<queue, now, netWait, stopped, sinkVars>>
  BY DEF BuilderEmits, TInv, TypeOK, busVars
<1>2. emitted' \in Seq(Times) /\ Len(emitted') = Len(emitted) + 1
  BY <1>1, AppendProperties
<1>3. writer' = writer /\ WriterOK(writer)
  BY <1>1 DEF TInv, sinkVars
<1>4. Len(emitted') <= MaxStates
  BY <1>1, <1>2, TimeAssumption
<1>5. TypeOK'
  BY <1>1, <1>2, <1>3, <1>4, TypeParts
     DEF IInv, TInv, TypeOK, WriterOK, sinkVars
<1>6. QueueIssued'
  <2>1. \A i \in DOMAIN queue : queue[i] \in Nat /\ queue[i] <= Len(emitted)
    <3>1. queue \in Seq(Publishers) /\ QueueIssued
      BY DEF TInv, TypeOK
    <3>2. \A i \in DOMAIN queue : queue[i] \in 1 .. MaxStates
      BY <3>1, TimeAssumption DEF Publishers
    <3>. QED
      BY <3>1, <3>2 DEF QueueIssued
  <2>2. Len(emitted) \in Nat
    BY <1>1
  <2>. QED
    BY <1>1, <1>2, <2>1, <2>2 DEF QueueIssued
<1>. QED
  BY <1>3, <1>5, <1>6 DEF SinkInv

(* A publish task puts its own BookState, and only into a bus with room.  *)
LEMMA PublishSinkInv ==
  ASSUME TInv, IInv', NEW k \in Publishers, PublishStep(k)
  PROVE  SinkInv'
<1>1. UNCHANGED <<now, emitted, netWait, stopped, sinkVars>>
  BY DEF PublishStep
<1>2. /\ k <= Len(emitted) /\ queue \in Seq(Publishers) /\ Len(queue) <= Cap
      /\ QueueIssued /\ Len(emitted) \in Nat
  BY DEF PublishStep, TInv, IInv, Issued, TypeOK
<1>3. Len(queue') <= Cap /\ QueueIssued'
  <2>1. CASE ~Full /\ queue' = Append(queue, k)
    <3>1. Len(queue') = Len(queue) + 1 /\ Len(queue) < Cap
      BY <2>1, <1>2, AppendProperties, CapAssumption DEF Full
    <3>2. \A i \in DOMAIN queue' : queue'[i] <= Len(emitted')
      BY <1>1, <1>2, <2>1, AppendProperties DEF QueueIssued
    <3>. QED
      BY <3>1, <3>2, <1>2, CapAssumption DEF QueueIssued
  <2>2. CASE UNCHANGED queue
    BY <1>1, <1>2, <2>2 DEF QueueIssued
  <2>. QED
    BY <2>1, <2>2 DEF PublishStep, Put
<1>4. writer' = writer /\ WriterOK(writer)
  BY <1>1 DEF TInv, sinkVars
<1>5. TypeOK'
  BY <1>1, <1>3, <1>4, TypeParts DEF IInv, TInv, TypeOK, WriterOK, sinkVars
<1>. QED
  BY <1>3, <1>4, <1>5 DEF SinkInv

(* The row the sink builds from the oldest event is a Row.                 *)
LEMMA HeadRow ==
  ASSUME TInv, queue # <<>>
  PROVE  RowOf(Head(queue)) \in Row
<1>1. queue \in Seq(Publishers) /\ QueueIssued /\ emitted \in Seq(Times)
  BY DEF TInv, TypeOK
<1>2. Head(queue) \in 1 .. MaxStates /\ Head(queue) \in DOMAIN emitted
  BY <1>1, TimeAssumption, HeadTailProperties, EmptySeq DEF Publishers, QueueIssued
<1>. QED
  BY <1>1, <1>2 DEF RowOf, Row

(* The sink takes the oldest event, writes its row (flushing on a bucket   *)
(* change) and may flush on the timer; a failed read is swallowed.         *)
LEMMA TakesSinkInv ==
  ASSUME TInv, IInv', SinkTakes
  PROVE  SinkInv'
<1> DEFINE h == Head(queue)
<1>1. /\ queue # <<>> /\ queue' = Tail(queue)
      /\ taken' = Append(taken, h)
      /\ UNCHANGED <<now, emitted, netWait, stopped>>
  BY DEF SinkTakes, GetTakes
<1>2. /\ queue \in Seq(Publishers) /\ Len(queue) <= Cap /\ QueueIssued
      /\ emitted \in Seq(Times) /\ taken \in Seq(Publishers)
      /\ now \in Times /\ lastFlush \in Times
      /\ readFails \in 0 .. MaxReadFails /\ WriterOK(writer)
      /\ Len(emitted) <= MaxStates /\ netWait \in BOOLEAN /\ stopped \in BOOLEAN
  BY DEF TInv, TypeOK
<1>3. /\ h \in Publishers /\ h <= Len(emitted)
      /\ queue' \in Seq(Publishers) /\ Len(queue') = Len(queue) - 1
      /\ \A i \in DOMAIN queue' : queue'[i] = queue[i + 1]
  BY <1>1, <1>2, HeadTailProperties, EmptySeq DEF QueueIssued
<1>4. RowOf(h) \in Row
  BY <1>1, HeadRow
<1>5. PICK ok1 \in BOOLEAN, ok2 \in BOOLEAN :
        /\ writer' = IF now - lastFlush >= FlushEvery
                     THEN Flush(Write(writer, RowOf(h), ok1), ok2)
                     ELSE Write(writer, RowOf(h), ok1)
        /\ lastFlush' \in {now, lastFlush}
        /\ \E fails \in Nat : /\ readFails' = readFails + fails
                              /\ readFails + fails <= MaxReadFails
  BY DEF SinkTakes
<1>6. WriterOK(writer')
  <2>1. WriterOK(Write(writer, RowOf(h), ok1))
    BY <1>2, <1>4, WriteKeeps
  <2>2. WriterOK(Flush(Write(writer, RowOf(h), ok1), ok2))
    BY <2>1, FlushKeeps
  <2>. QED
    BY <1>5, <2>1, <2>2
<1>7. /\ lastFlush' \in Times /\ readFails' \in 0 .. MaxReadFails
      /\ taken' \in Seq(Publishers)
  BY <1>1, <1>2, <1>3, <1>5, AppendProperties
<1>8. QueueIssued'
  BY <1>1, <1>2, <1>3 DEF QueueIssued
<1>9. Len(queue') <= Cap /\ writer' \in Writer /\ BTypeOK'
  <2>1. Len(queue) \in Nat
    BY <1>2
  <2>2. Len(queue') <= Cap
    BY <1>2, <1>3, <2>1, CapAssumption
  <2>3. writer' \in Writer
    BY <1>6 DEF WriterOK
  <2>4. BTypeOK'
    BY DEF IInv
  <2>. QED
    BY <2>2, <2>3, <2>4
<1>10. TypeOK'
  BY <1>1, <1>2, <1>3, <1>7, <1>9, TypeParts
<1>. QED
  BY <1>6, <1>8, <1>10 DEF SinkInv

(* The steps that touch neither the bus's events nor the sink.            *)
LEMMA QuietSinkInv ==
  ASSUME TInv, IInv',
         \/ BuilderAwaits \/ NetData \/ SinkWaits \/ RunNext \/ Poll
         \/ Shutdown \/ UNCHANGED vars
  PROVE  SinkInv'
<1>1. UNCHANGED <<queue, now, emitted, sinkVars>>
  BY DEF BuilderAwaits, NetData, Select, SinkWaits, GetBlocks, RunNext,
         Dispatch, Poll, Shutdown, vars, busVars, sinkVars
<1>2. netWait' \in BOOLEAN /\ stopped' \in BOOLEAN
  BY DEF BuilderAwaits, NetData, SinkWaits, RunNext, Poll, Shutdown, vars,
         TInv, TypeOK
<1>. QED
  BY <1>1, <1>2, Quiet

-----------------------------------------------------------------------------
(* The clock starts at flush_sec, the writer empty.                        *)
LEMMA InitSinkInv ==
  ASSUME Init
  PROVE  SinkInv
<1>1. InitWriter \in Writer /\ WriterOK(InitWriter)
  BY EmptySeq DEF InitWriter, WriterOK, Writer
<1>2. BTypeOK
  BY InitIInv DEF IInv
<1>3. now \in Times /\ lastFlush \in Times /\ readFails \in 0 .. MaxReadFails
  BY PipelineAssumption, TimeAssumption DEF Init, Times
<1>4. /\ emitted \in Seq(Times) /\ Len(emitted) <= MaxStates
      /\ taken \in Seq(Publishers) /\ Len(queue) <= Cap
  BY EmptySeq, TimeAssumption, CapAssumption DEF Init
<1>5. TypeOK
  BY <1>1, <1>2, <1>3, <1>4 DEF Init, TypeOK, BTypeOK
<1>. QED
  BY <1>1, <1>5, EmptySeq DEF Init, SinkInv, QueueIssued

LEMMA NextTInv ==
  ASSUME TInv, [Next]_vars
  PROVE  TInv'
<1>1. IInv'
  BY NextIInv DEF TInv
<1>2. SinkInv'
  BY <1>1, EmitsSinkInv, PublishSinkInv, TakesSinkInv, TickSinkInv,
     QuietSinkInv DEF Next, TaskStep
<1>. QED
  BY <1>1, <1>2 DEF TInv, SinkInv

(* TInv holds in every reachable state.                                    *)
THEOREM SinkInvariant == Spec => []TInv
<1>1. Init => TInv
  BY InitIInv, InitSinkInv DEF TInv, SinkInv
<1>2. TInv /\ [Next]_vars => TInv'
  BY NextTInv
<1>. QED
  BY <1>1, <1>2, PTL DEF Spec

(* TypeOK: every variable of the pipeline keeps its type, the bus holds at *)
(* most maxsize events, and the failed reads stay within their bound, for  *)
(* every capacity, window, clock and number of BookStates.                 *)
THEOREM TypeCorrect == Spec => []TypeOK
<1>1. TInv => TypeOK
  BY DEF TInv
<1>. QED
  BY <1>1, SinkInvariant, PTL

(* PageHoldsItsBucket: every parquet page the writer has written, merged   *)
(* with an existing page or not, holds only rows whose ts falls in that    *)
(* page's window.                                                          *)
THEOREM PagesKeepTheirBucket == Spec => []PageHoldsItsBucket
<1>1. TInv => PageHoldsItsBucket
  BY DEF TInv, WriterOK, PageHoldsItsBucket
<1>. QED
  BY <1>1, SinkInvariant, PTL

-----------------------------------------------------------------------------
(* With no failed read allowed, both flushes of an iteration of the sink  *)
(* read the existing page whenever there is one.                          *)
LEMMA SinkReads ==
  ASSUME TInv, SinkTakes, MaxReadFails = 0
  PROVE  LET row == RowOf(Head(queue))
             timed == now - lastFlush >= FlushEvery
         IN  \E ok1, ok2 \in BOOLEAN :
               /\ writer' = IF timed THEN Flush(Write(writer, row, ok1), ok2)
                            ELSE Write(writer, row, ok1)
               /\ RollsOver(writer, row) /\ ReadsPage(writer) => ok1
               /\ timed /\ ReadsPage(Write(writer, row, ok1)) => ok2
<1>1. readFails = 0
  BY DEF TInv, TypeOK
<1>. QED
  BY <1>1 DEF SinkTakes

-----------------------------------------------------------------------------
(* NoStateLost, with a BookState buffered or stored read as the writer     *)
(* keeping its row.                                                        *)
KeptInv ==
  ~stopped =>
    \A k \in 1 .. Len(emitted) :
      InFlight(k) \/ k \in ToSet(queue) \/ Kept(writer, RowOf(k))

(* KeptInv is NoStateLost.                                                 *)
LEMMA KeptIsNoStateLost ==
  ASSUME KeptInv
  PROVE  NoStateLost
<1> SUFFICES ASSUME ~stopped, NEW k \in 1 .. Len(emitted),
                    Kept(writer, RowOf(k))
             PROVE  Buffered(k) \/ Stored(k)
  BY DEF KeptInv, NoStateLost
<1>1. CASE RowOf(k) \in ToSet(writer.rows)
  BY <1>1 DEF RowOf, ToSet, Buffered
<1>2. CASE RowOf(k).ts \in PageTs(writer.pages[BucketStart(RowOf(k).ts)])
  BY <1>2 DEF RowOf, PageTs, Stored
<1>. QED
  BY <1>1, <1>2 DEF Kept

LEMMA ConcatGrows ==
  ASSUME NEW S, NEW s \in Seq(S), NEW t \in Seq(S)
  PROVE  ToSet(s) \subseteq ToSet(s \o t)
BY ConcatProperties DEF ToSet

(* A step that moves no event and leaves the writer and the emitted       *)
(* BookStates alone keeps every publish task it does not run.              *)
LEMMA QuietKept ==
  ASSUME TInv, KeptInv, UNCHANGED <<queue, emitted, writer, stopped>>,
         \A k \in Publishers : InFlight(k) => InFlight(k)'
  PROVE  KeptInv'
<1> SUFFICES ASSUME ~stopped', NEW k \in 1 .. Len(emitted')
             PROVE  InFlight(k)' \/ k \in ToSet(queue') \/ Kept(writer', RowOf(k)')
  BY DEF KeptInv
<1>1. k \in Publishers /\ RowOf(k)' = RowOf(k)
  BY TimeAssumption DEF TInv, TypeOK, Publishers, RowOf
<1>. QED
  BY <1>1 DEF KeptInv

LEMMA TickKept ==
  ASSUME TInv, KeptInv, Tick
  PROVE  KeptInv'
BY QuietKept DEF Tick, InFlight, busVars, loopVars, sinkVars

LEMMA SelectKept ==
  ASSUME TInv, KeptInv, NEW io \in Seq(Tasks), Select(io),
         UNCHANGED <<emitted, stopped, sinkVars>>
  PROVE  KeptInv'
<1>1. ToSet(ready) \subseteq ToSet(ready')
  BY ConcatGrows DEF Select, TInv, TypeOK
<1>. QED
  BY <1>1, QuietKept DEF Select, InFlight, busVars, sinkVars

LEMMA HandsBackKept ==
  ASSUME TInv, KeptInv, running \in {Builder, Sink}, running' = Idle,
         UNCHANGED <<queue, putters, ready, emitted, stopped, writer>>
  PROVE  KeptInv'
BY NotPublisher, QuietKept DEF InFlight

LEMMA DispatchKept ==
  ASSUME TInv, KeptInv, RunNext
  PROVE  KeptInv'
<1>1. /\ running = Idle /\ ready # <<>> /\ ready \in Seq(Tasks)
      /\ running' = Head(ready) /\ ready' = Tail(ready)
      /\ UNCHANGED <<queue, putters, emitted, stopped, writer>>
  BY EmptySeq DEF RunNext, Dispatch, TInv, TypeOK, busVars, sinkVars
<1>2. ToSet(ready) = ToSet(ready') \cup {running'}
  BY <1>1, TailSet
<1>. QED
  BY <1>1, <1>2, NotPublisher, QuietKept DEF InFlight

LEMMA EmitsKept ==
  ASSUME TInv, KeptInv, BuilderEmits
  PROVE  KeptInv'
<1> SUFFICES ASSUME ~stopped', NEW k \in 1 .. Len(emitted')
             PROVE  InFlight(k)' \/ k \in ToSet(queue') \/ Kept(writer', RowOf(k)')
  BY DEF KeptInv
<1>1. /\ emitted' = Append(emitted, now) /\ ready' = Append(ready, Len(emitted) + 1)
      /\ UNCHANGED <<queue, putters, running, writer, stopped>>
      /\ emitted \in Seq(Times) /\ ready \in Seq(Tasks)
  BY DEF BuilderEmits, busVars, sinkVars, TInv, TypeOK
<1>2. /\ Len(emitted') = Len(emitted) + 1
      /\ \A i \in 1 .. Len(emitted) : emitted'[i] = emitted[i]
      /\ ToSet(ready') = ToSet(ready) \cup {Len(emitted) + 1}
  BY <1>1, AppendProperties, AppendSet
<1>3. CASE k = Len(emitted) + 1
  BY <1>2, <1>3 DEF InFlight
<1>4. CASE k \in 1 .. Len(emitted)
  <2>1. RowOf(k)' = RowOf(k)
    BY <1>2, <1>4 DEF RowOf
  <2>2. InFlight(k) \/ k \in ToSet(queue) \/ Kept(writer, RowOf(k))
    BY <1>1, <1>4 DEF KeptInv
  <2>. QED
    BY <1>1, <1>2, <2>1, <2>2 DEF InFlight
<1>. QED
  BY <1>2, <1>3, <1>4

(* A publish task's BookState moves from the task to the bus, or the task *)
(* joins the line of putters.                                              *)
LEMMA PublishKept ==
  ASSUME TInv, KeptInv, NEW k0 \in Publishers, PublishStep(k0)
  PROVE  KeptInv'
<1> SUFFICES ASSUME ~stopped', NEW k \in 1 .. Len(emitted')
             PROVE  InFlight(k)' \/ k \in ToSet(queue') \/ Kept(writer', RowOf(k)')
  BY DEF KeptInv
<1>1. /\ running = k0 /\ UNCHANGED <<emitted, writer, stopped>>
      /\ queue \in Seq(Publishers) /\ putters \in Seq(Publishers)
      /\ ready \in Seq(Tasks) /\ getters \in Seq({Sink})
  BY DEF PublishStep, sinkVars, TInv, TypeOK
<1>2. /\ InFlight(k) \/ k \in ToSet(queue) \/ Kept(writer, RowOf(k))
      /\ RowOf(k)' = RowOf(k)
  BY <1>1 DEF KeptInv, RowOf
<1>3. CASE ~Full /\ queue' = Append(queue, k0) /\ ready' = ready \o Woken(getters)
           /\ UNCHANGED putters
  <2>1. ToSet(queue') = ToSet(queue) \cup {k0}
    BY <1>1, <1>3, AppendSet
  <2>2. ToSet(ready) \subseteq ToSet(ready')
    <3>1. Woken(getters) \in Seq(Tasks)
      <4>1. CASE getters = <<>>
        BY <4>1, EmptySeq DEF Woken
      <4>2. CASE getters # <<>>
        <5>1. Head(getters) = Sink
          BY <1>1, <4>2, HeadTailProperties
        <5>. QED
          BY <4>2, <5>1 DEF Woken, Tasks
      <4>. QED
        BY <4>1, <4>2
    <3>. QED
      BY <1>1, <1>3, <3>1, ConcatGrows
  <2>. QED
    BY <1>1, <1>2, <1>3, <2>1, <2>2 DEF InFlight
<1>4. CASE Full /\ putters' = Append(putters, k0) /\ UNCHANGED <<queue, ready>>
  <2>1. ToSet(putters') = ToSet(putters) \cup {k0}
    BY <1>1, <1>4, AppendSet
  <2>. QED
    BY <1>1, <1>2, <1>4, <2>1 DEF InFlight
<1>. QED
  BY <1>3, <1>4 DEF PublishStep, Put

(* The sink keeps every row its writer kept, and the row it takes.        *)
LEMMA SinkKeepsRow ==
  ASSUME TInv, SinkTakes, MaxReadFails = 0,
         NEW r \in Row, Kept(writer, r) \/ r = RowOf(Head(queue))
  PROVE  Kept(writer', r)
<1> DEFINE row == RowOf(Head(queue))
           timed == now - lastFlush >= FlushEvery
<1>1. row \in Row /\ WriterOK(writer)
  BY HeadRow DEF SinkTakes, GetTakes, TInv
<1>2. PICK ok1 \in BOOLEAN, ok2 \in BOOLEAN :
        /\ writer' = IF timed THEN Flush(Write(writer, row, ok1), ok2)
                     ELSE Write(writer, row, ok1)
        /\ RollsOver(writer, row) /\ ReadsPage(writer) => ok1
        /\ timed /\ ReadsPage(Write(writer, row, ok1)) => ok2
  BY SinkReads
<1>3. WriterOK(Write(writer, row, ok1)) /\ Kept(Write(writer, row, ok1), r)
  BY <1>1, <1>2, WriteKeeps, WriteKeepsRow
<1>4. CASE timed
  BY <1>2, <1>3, <1>4, FlushStoresRow DEF Kept
<1>5. CASE ~timed
  BY <1>2, <1>3, <1>5
<1>. QED
  BY <1>4, <1>5

(* The sink's event goes to the writer; the first waiting putter, if any, *)
(* becomes ready.                                                          *)
LEMMA TakesKept ==
  ASSUME TInv, KeptInv, SinkTakes, MaxReadFails = 0
  PROVE  KeptInv'
<1> SUFFICES ASSUME ~stopped', NEW k \in 1 .. Len(emitted')
             PROVE  InFlight(k)' \/ k \in ToSet(queue') \/ Kept(writer', RowOf(k)')
  BY DEF KeptInv
<1>1. /\ running = Sink /\ UNCHANGED <<running, emitted, stopped>>
      /\ queue # <<>> /\ queue' = Tail(queue)
      /\ putters' = Rest(putters) /\ ready' = ready \o Woken(putters)
      /\ queue \in Seq(Publishers) /\ putters \in Seq(Publishers)
      /\ ready \in Seq(Tasks)
  BY DEF SinkTakes, GetTakes, TInv, TypeOK
<1>2. /\ InFlight(k) \/ k \in ToSet(queue) \/ Kept(writer, RowOf(k))
      /\ RowOf(k)' = RowOf(k)
  BY <1>1 DEF KeptInv, RowOf
<1>3. RowOf(k) \in Row
  <2>1. k \in 1 .. MaxStates /\ emitted \in Seq(Times)
    BY <1>1, TimeAssumption DEF TInv, TypeOK
  <2>. QED
    BY <1>1, <2>1 DEF RowOf, Row
<1>4. ToSet(queue) = ToSet(queue') \cup {Head(queue)}
  BY <1>1, TailSet
<1>5. ToSet(putters) \subseteq ToSet(putters') \cup ToSet(ready')
      /\ ToSet(ready) \subseteq ToSet(ready')
  <2>1. CASE putters = <<>>
    BY <1>1, <2>1, WokenAppend DEF ToSet
  <2>2. CASE putters # <<>>
    <3>1. ready' = Append(ready, Head(putters)) /\ putters' = Tail(putters)
      BY <1>1, <2>2, WokenAppend
    <3>. QED
      BY <1>1, <2>2, <3>1, TailSet, AppendSet
  <2>. QED
    BY <2>1, <2>2
<1>6. CASE InFlight(k)
  BY <1>1, <1>5, <1>6, NotPublisher DEF InFlight
<1>7. CASE k \in ToSet(queue) /\ k = Head(queue)
  BY <1>2, <1>3, <1>7, SinkKeepsRow
<1>8. CASE k \in ToSet(queue) /\ k # Head(queue)
  BY <1>4, <1>8
<1>9. CASE Kept(writer, RowOf(k))
  BY <1>2, <1>3, <1>9, SinkKeepsRow
<1>. QED
  BY <1>2, <1>6, <1>7, <1>8, <1>9

LEMMA ShutdownKept ==
  ASSUME Shutdown
  PROVE  KeptInv'
BY DEF Shutdown, KeptInv

LEMMA NextKept ==
  ASSUME TInv, KeptInv, [Next]_vars, MaxReadFails = 0
  PROVE  KeptInv'
<1>1. CASE \E k \in Publishers : PublishStep(k)
  BY <1>1, PublishKept
<1>2. CASE BuilderAwaits
  BY <1>2, HandsBackKept DEF BuilderAwaits, busVars, sinkVars
<1>3. CASE SinkWaits
  BY <1>3, HandsBackKept DEF SinkWaits, GetBlocks, sinkVars
<1>4. CASE Poll
  <2>1. <<>> \in Seq(Tasks)
    BY EmptySeq
  <2>. QED
    BY <1>4, <2>1, SelectKept DEF Poll
<1>5. CASE NetData
  <2>1. <<Builder>> \in Seq(Tasks)
    BY DEF Tasks
  <2>. QED
    BY <1>5, <2>1, SelectKept DEF NetData
<1>6. CASE UNCHANGED vars
  BY <1>6, QuietKept DEF vars, InFlight
<1>. QED
  BY <1>1, <1>2, <1>3, <1>4, <1>5, <1>6, EmitsKept, TakesKept, DispatchKept,
     TickKept, ShutdownKept DEF Next, TaskStep

(* NoStateLost: while every read of an existing page succeeds, every      *)
(* BookState _emit_state has published is, until shutdown, in its publish *)
(* task, on the bus, among the writer's rows or in the page of its bucket, *)
(* for every capacity, window, clock and number of BookStates.  When a    *)
(* read can fail, the pipeline_read_failure run shows a BookState lost.   *)
THEOREM NothingLost == MaxReadFails = 0 => (Spec => []NoStateLost)
<1> SUFFICES ASSUME MaxReadFails = 0
             PROVE  Spec => []NoStateLost
  OBVIOUS
<1>1. Init => TInv /\ KeptInv
  <2> SUFFICES ASSUME Init PROVE TInv /\ KeptInv
    OBVIOUS
  <2>1. TInv
    BY InitIInv, InitSinkInv DEF TInv, SinkInv
  <2>2. Len(emitted) = 0
    BY EmptySeq DEF Init
  <2>. QED
    BY <2>1, <2>2 DEF KeptInv
<1>2. TInv /\ KeptInv /\ [Next]_vars => (TInv /\ KeptInv)'
  BY NextTInv, NextKept
<1>3. TInv /\ KeptInv => NoStateLost
  BY KeptIsNoStateLost
<1>. QED
  BY <1>1, <1>2, <1>3, PTL DEF Spec
=============================================================================
