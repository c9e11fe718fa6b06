--------------------------- MODULE Pipeline_proofs ---------------------------
(***************************************************************************)
(* The invariant of the EventBus and the event loop of Pipeline that the  *)
(* proofs of PipelineSink_proofs rest on, for every capacity of the bus    *)
(* and every number of BookStates: a publish task sits in one place at a   *)
(* time (the ready queue, the running slot or the line of putters), never  *)
(* twice in the ready queue or the line, and only the tasks of BookStates  *)
(* already emitted exist.  A task _wakeup_next moves from the line to the  *)
(* ready queue is therefore a task that was nowhere else.                  *)
(***************************************************************************)
EXTENDS Pipeline, FiniteSetTheorems, SequenceTheorems, TLAPS

(* The types the argument needs; the writer's state is not among them.    *)
BTypeOK ==
  /\ queue \in Seq(Publishers)
  /\ putters \in Seq(Publishers)
  /\ getters \in Seq({Sink})
  /\ ready \in Seq(Tasks)
  /\ running \in Tasks \cup {Idle}
  /\ todo \in 0 .. Len(ready)
  /\ now \in Nat
  /\ emitted \in Seq(Nat)

(* No publish task is twice in the ready queue, or twice in the line of   *)
(* putters.                                                                *)
PubDistinct(s) ==
  \A i, j \in DOMAIN s : i # j /\ s[i] \in Publishers => s[i] # s[j]
ReadyDistinct == PubDistinct(ready)
PuttersDistinct == PubDistinct(putters)

(* A task is ready, running or waiting to put, one at a time.             *)
Apart ==
  /\ ToSet(ready) \cap ToSet(putters) = {}
  /\ running \in Publishers => running \notin ToSet(ready) \cup ToSet(putters)

(* Only the publish tasks of BookStates already emitted exist.            *)
Issued ==
  \A k \in ToSet(ready) \cup ToSet(putters) \cup {running} :
    k \in Publishers => k <= Len(emitted)

IInv == BTypeOK /\ ReadyDistinct /\ PuttersDistinct /\ Apart /\ Issued

-----------------------------------------------------------------------------
(* The ready queue and the line of putters grow at the end and shrink at  *)
(* the front.                                                              *)

LEMMA AppendSet ==
  ASSUME NEW S, NEW s \in Seq(S), NEW x
  PROVE  ToSet(Append(s, x)) = ToSet(s) \cup {x}
BY DEF ToSet

LEMMA TailSet ==
  ASSUME NEW S, NEW s \in Seq(S), s # <<>>
  PROVE  /\ ToSet(s) = ToSet(Tail(s)) \cup {Head(s)}
         /\ Tail(s) \in Seq(S) /\ Head(s) \in S
<1>1. Len(s) \in Nat \ {0}
  BY EmptySeq, LenProperties
<1>2. /\ Len(Tail(s)) = Len(s) - 1
      /\ \A i \in 1 .. Len(s) - 1 : Tail(s)[i] = s[i + 1]
      /\ Head(s) = s[1]
      /\ Tail(s) \in Seq(S)
  BY <1>1, HeadTailProperties
<1>3. ToSet(s) = ToSet(Tail(s)) \cup {Head(s)}
  <2>1. ASSUME NEW i \in 1 .. Len(s) PROVE s[i] \in ToSet(Tail(s)) \cup {Head(s)}
    <3>1. CASE i = 1
      BY <1>2, <3>1
    <3>2. CASE i # 1
      <4>1. i - 1 \in DOMAIN Tail(s) /\ Tail(s)[i - 1] = s[i]
        BY <1>1, <1>2, <3>2
      <4>. QED
        BY <4>1 DEF ToSet
    <3>. QED
      BY <3>1, <3>2
  <2>2. ToSet(Tail(s)) \cup {Head(s)} \subseteq ToSet(s)
    BY <1>1, <1>2 DEF ToSet
  <2>. QED
    BY <2>1, <2>2 DEF ToSet
<1>. QED
  BY <1>1, <1>2, <1>3

LEMMA AppendDistinct ==
  ASSUME NEW S, NEW s \in Seq(S), NEW x, PubDistinct(s),
         x \in Publishers => x \notin ToSet(s)
  PROVE  PubDistinct(Append(s, x))
BY DEF PubDistinct, ToSet

LEMMA TailDistinct ==
  ASSUME NEW S, NEW s \in Seq(S), s # <<>>, PubDistinct(s)
  PROVE  /\ PubDistinct(Tail(s))
         /\ Head(s) \in Publishers => Head(s) \notin ToSet(Tail(s))
<1>1. Len(s) \in Nat \ {0}
  BY EmptySeq, LenProperties
<1>2. /\ Len(Tail(s)) = Len(s) - 1
      /\ \A i \in 1 .. Len(s) - 1 : Tail(s)[i] = s[i + 1]
      /\ Head(s) = s[1]
      /\ Tail(s) \in Seq(S)
  BY <1>1, HeadTailProperties
<1>3. PubDistinct(Tail(s))
  BY <1>1, <1>2 DEF PubDistinct
<1>4. Head(s) \in Publishers => Head(s) \notin ToSet(Tail(s))
  BY <1>1, <1>2 DEF PubDistinct, ToSet
<1>. QED
  BY <1>3, <1>4

-----------------------------------------------------------------------------
(* _wakeup_next moves at most the first waiter to the ready queue.        *)
LEMMA WokenAppend ==
  ASSUME NEW S, NEW T, NEW r \in Seq(T), NEW w \in Seq(S)
  PROVE  /\ w = <<>> => r \o Woken(w) = r /\ Rest(w) = <<>>
         /\ w # <<>> => /\ r \o Woken(w) = Append(r, Head(w))
                        /\ Rest(w) = Tail(w)
                        /\ Head(w) \in S /\ Tail(w) \in Seq(S)
         /\ Rest(w) \in Seq(S)
<1>1. CASE w = <<>>
  <2>1. r \o <<>> = r
    BY ConcatEmptySeq
  <2>. QED
    BY <1>1, <2>1, EmptySeq DEF Woken, Rest
<1>2. CASE w # <<>>
  <2>1. Head(w) \in S /\ Tail(w) \in Seq(S)
    BY <1>2, HeadTailProperties
  <2>2. r \o <<Head(w)>> = Append(r, Head(w))
    BY AppendIsConcat
  <2>. QED
    BY <1>2, <2>1, <2>2 DEF Woken, Rest
<1>. QED
  BY <1>1, <1>2

(* What the rest of the model leaves alone is no publish task.            *)
LEMMA NotPublisher ==
  Sink \notin Publishers /\ Builder \notin Publishers /\ Idle \notin Publishers
BY PipelineAssumption DEF Publishers

-----------------------------------------------------------------------------
(* One lemma per action of Pipeline.                                       *)

(* A step that moves no task and no event.                                 *)
LEMMA NothingMoves ==
  ASSUME IInv, UNCHANGED <<queue, putters, getters, ready, running, emitted>>,
         todo' \in 0 .. Len(ready'), now' \in Nat
  PROVE  IInv'
BY DEF IInv, BTypeOK, ReadyDistinct, PuttersDistinct, Apart, Issued

LEMMA TickKeeps ==
  ASSUME IInv, Tick
  PROVE  IInv'
<1>1. UNCHANGED <<queue, putters, getters, ready, running, emitted, todo>>
  BY DEF Tick, busVars, loopVars
<1>2. now' \in Nat /\ todo' \in 0 .. Len(ready')
  BY <1>1 DEF Tick, IInv, BTypeOK
<1>. QED
  BY <1>1, <1>2, NothingMoves

LEMMA PollKeeps ==
  ASSUME IInv, Poll
  PROVE  IInv'
<1>1. ready \o <<>> = ready
  BY ConcatEmptySeq DEF IInv, BTypeOK
<1>. QED
  BY <1>1, NothingMoves DEF Poll, Select, busVars, IInv, BTypeOK

(* The builder gives the loop back: it was no publish task.               *)
LEMMA AwaitsKeeps ==
  ASSUME IInv, BuilderAwaits
  PROVE  IInv'
<1>1. running = Builder /\ running' = Idle
      /\ UNCHANGED <<queue, putters, getters, ready, todo, now, emitted>>
  BY DEF BuilderAwaits, busVars
<1>. QED
  BY <1>1, NotPublisher
     DEF IInv, BTypeOK, ReadyDistinct, PuttersDistinct, Apart, Issued, Tasks

(* A frame wakes the builder: it joins the ready queue.                    *)
LEMMA NetDataKeeps ==
  ASSUME IInv, NetData
  PROVE  IInv'
<1>1. ready \o <<Builder>> = Append(ready, Builder)
  BY AppendIsConcat DEF IInv, BTypeOK
<1>2. /\ ready' = Append(ready, Builder) /\ todo' = Len(ready')
      /\ UNCHANGED <<queue, putters, getters, running, now, emitted>>
  BY <1>1 DEF NetData, Select, busVars, IInv, BTypeOK
<1>3. ToSet(ready') = ToSet(ready) \cup {Builder}
  BY <1>2, AppendSet DEF IInv, BTypeOK
<1>4. ReadyDistinct'
  BY <1>2, AppendDistinct, NotPublisher DEF IInv, BTypeOK, ReadyDistinct
<1>7. ready' \in Seq(Tasks) /\ todo' \in 0 .. Len(ready')
  BY <1>2, AppendProperties DEF IInv, BTypeOK, Tasks
<1>8. ToSet(putters) \subseteq Publishers
  BY DEF IInv, BTypeOK, ToSet
<1>9. Apart' /\ Issued'
  BY <1>2, <1>3, <1>8, NotPublisher DEF IInv, Apart, Issued
<1>. QED
  BY <1>2, <1>4, <1>7, <1>9 DEF IInv, BTypeOK, PuttersDistinct

(* Ctrl-C: the ready queue and the lines of waiters are dropped.           *)
LEMMA ShutdownKeeps ==
  ASSUME IInv, Shutdown
  PROVE  IInv'
<1>1. ToSet(<<>>) = {}
  BY DEF ToSet
<1>. QED
  BY <1>1, EmptySeq, NotPublisher
     DEF Shutdown, IInv, BTypeOK, ReadyDistinct, PuttersDistinct, PubDistinct,
         Apart, Issued

(* The loop runs the next ready task.                                      *)
LEMMA DispatchKeeps ==
  ASSUME IInv, RunNext
  PROVE  IInv'
<1>1. /\ running = Idle /\ todo > 0 /\ ready # <<>>
      /\ running' = Head(ready) /\ ready' = Tail(ready) /\ todo' = todo - 1
      /\ UNCHANGED <<queue, putters, getters, now, emitted>>
  BY EmptySeq DEF RunNext, Dispatch, busVars, IInv, BTypeOK
<1>2. /\ ToSet(ready) = ToSet(ready') \cup {running'}
      /\ ready' \in Seq(Tasks) /\ running' \in Tasks
      /\ Len(ready') = Len(ready) - 1
  BY <1>1, TailSet, HeadTailProperties DEF IInv, BTypeOK
<1>3. ReadyDistinct' /\ (running' \in Publishers => running' \notin ToSet(ready'))
  BY <1>1, TailDistinct DEF IInv, BTypeOK, ReadyDistinct
<1>6. Apart' /\ Issued'
  BY <1>1, <1>2, <1>3 DEF IInv, Apart, Issued
<1>7. BTypeOK'
  BY <1>1, <1>2 DEF IInv, BTypeOK
<1>. QED
  BY <1>1, <1>3, <1>6, <1>7 DEF IInv, PuttersDistinct

(* The sink finds the bus empty and waits on a getter future.              *)
LEMMA SinkWaitsKeeps ==
  ASSUME IInv, SinkWaits
  PROVE  IInv'
<1>1. /\ running = Sink /\ running' = Idle /\ getters' = Append(getters, Sink)
      /\ UNCHANGED <<queue, putters, ready, todo, now, emitted>>
  BY DEF SinkWaits, GetBlocks
<1>4. getters' \in Seq({Sink})
  BY <1>1, AppendProperties DEF IInv, BTypeOK
<1>. QED
  BY <1>1, <1>4, NotPublisher
     DEF IInv, BTypeOK, ReadyDistinct, PuttersDistinct, Apart, Issued, Tasks

(* _emit_state spawns the publish task of the next BookState: a task that *)
(* did not exist before.                                                   *)
LEMMA EmitsKeeps ==
  ASSUME IInv, BuilderEmits
  PROVE  IInv'
<1> DEFINE n == Len(emitted) + 1
<1>1. /\ running = Builder /\ Len(emitted) < MaxStates
      /\ emitted' = Append(emitted, now) /\ ready' = Append(ready, n)
      /\ UNCHANGED <<queue, putters, getters, running, todo, now>>
  BY DEF BuilderEmits, busVars
<1>2. /\ n \in Publishers /\ Len(emitted') = n
      /\ emitted' \in Seq(Nat) /\ ready' \in Seq(Tasks)
      /\ Len(ready') = Len(ready) + 1
  <2>1. n \in Publishers
    BY <1>1, TimeAssumption DEF IInv, BTypeOK, Publishers
  <2>2. Len(emitted') = n /\ emitted' \in Seq(Nat)
    BY <1>1, AppendProperties DEF IInv, BTypeOK
  <2>3. ready' \in Seq(Tasks) /\ Len(ready') = Len(ready) + 1
    BY <1>1, <2>1, AppendProperties DEF IInv, BTypeOK, Tasks
  <2>. QED
    BY <2>1, <2>2, <2>3
<1>3. n \notin ToSet(ready) /\ n \notin ToSet(putters)
  BY <1>2 DEF IInv, BTypeOK, Issued
<1>4. ToSet(ready') = ToSet(ready) \cup {n}
  BY <1>1, AppendSet DEF IInv, BTypeOK
<1>5. ReadyDistinct'
  BY <1>1, <1>3, AppendDistinct DEF IInv, BTypeOK, ReadyDistinct
<1>7. Apart' /\ Issued'
  <2>1. Apart'
    BY <1>1, <1>3, <1>4, NotPublisher DEF IInv, Apart
  <2>2. \A k \in ToSet(ready) \cup ToSet(putters) \cup {running} :
          k \in Publishers => k <= Len(emitted)
    BY DEF IInv, Issued
  <2>3. Len(emitted) \in Nat
    BY DEF IInv, BTypeOK
  <2>4. Issued'
    BY <1>1, <1>2, <1>4, <2>2, <2>3 DEF Issued, Publishers
  <2>. QED
    BY <2>1, <2>4
<1>8. BTypeOK'
  BY <1>1, <1>2 DEF IInv, BTypeOK
<1>. QED
  BY <1>1, <1>5, <1>7, <1>8 DEF IInv, PuttersDistinct

(* A publish task's pass of put: it puts its event, waking the sink if it *)
(* waits, or joins the end of the line of putters when the bus is full.   *)
LEMMA PublishKeeps ==
  ASSUME IInv, NEW k \in Publishers, PublishStep(k)
  PROVE  IInv'
<1>0. /\ running = k /\ running' = Idle
      /\ UNCHANGED <<todo, now, emitted>>
      /\ k \notin ToSet(ready) /\ k \notin ToSet(putters) /\ k <= Len(emitted)
  BY DEF PublishStep, Put, IInv, Apart, Issued
<1>1. CASE ~Full /\ queue' = Append(queue, k) /\ getters' = Rest(getters)
           /\ ready' = ready \o Woken(getters) /\ UNCHANGED putters
  <2>1. /\ ready' \in Seq(Tasks)
        /\ ToSet(ready') \subseteq ToSet(ready) \cup {Sink}
        /\ ToSet(ready) \subseteq ToSet(ready')
        /\ ReadyDistinct'
        /\ Len(ready) <= Len(ready')
        /\ getters' \in Seq({Sink})
    <3>1. CASE getters = <<>>
      <4>1. ready' = ready /\ getters' = <<>>
        BY <1>1, <3>1, WokenAppend DEF IInv, BTypeOK
      <4>. QED
        BY <4>1, EmptySeq DEF IInv, BTypeOK, ReadyDistinct
    <3>2. CASE getters # <<>>
      <4>1. ready' = Append(ready, Sink) /\ getters' \in Seq({Sink})
        BY <1>1, <3>2, WokenAppend DEF IInv, BTypeOK
      <4>2. ToSet(ready') = ToSet(ready) \cup {Sink}
        BY <4>1, AppendSet DEF IInv, BTypeOK
      <4>3. ReadyDistinct'
        BY <4>1, AppendDistinct, NotPublisher DEF IInv, BTypeOK, ReadyDistinct
      <4>4. ready' \in Seq(Tasks) /\ Len(ready) <= Len(ready')
        BY <4>1, AppendProperties DEF IInv, BTypeOK, Tasks
      <4>. QED
        BY <4>1, <4>2, <4>3, <4>4
    <3>. QED
      BY <3>1, <3>2
  <2>4. Apart' /\ Issued'
    <3>1. ToSet(putters) \subseteq Publishers
      BY DEF IInv, BTypeOK, ToSet
    <3>2. Apart'
      BY <1>0, <1>1, <2>1, <3>1, NotPublisher DEF IInv, Apart
    <3>3. Issued'
      BY <1>0, <1>1, <2>1, NotPublisher DEF IInv, Issued
    <3>. QED
      BY <3>2, <3>3
  <2>5. BTypeOK'
    BY <1>0, <1>1, <2>1, AppendProperties DEF IInv, BTypeOK, Tasks
  <2>. QED
    BY <1>1, <2>1, <2>4, <2>5 DEF IInv, PuttersDistinct
<1>2. CASE Full /\ putters' = Append(putters, k)
           /\ UNCHANGED <<queue, getters, ready>>
  <2>1. ToSet(putters') = ToSet(putters) \cup {k}
    BY <1>2, AppendSet DEF IInv, BTypeOK
  <2>2. PuttersDistinct'
    BY <1>0, <1>2, AppendDistinct DEF IInv, BTypeOK, PuttersDistinct
  <2>4. Apart' /\ Issued'
    <3>1. Apart'
      BY <1>0, <1>2, <2>1, NotPublisher DEF IInv, Apart
    <3>2. Issued'
      BY <1>0, <1>2, <2>1, NotPublisher DEF IInv, Issued
    <3>. QED
      BY <3>1, <3>2
  <2>5. BTypeOK'
    BY <1>0, <1>2, AppendProperties DEF IInv, BTypeOK, Tasks
  <2>. QED
    BY <1>2, <2>2, <2>4, <2>5 DEF IInv, ReadyDistinct
<1>. QED
  BY <1>1, <1>2 DEF PublishStep, Put

(* The sink takes the head of the bus and wakes the first waiting putter, *)
(* which was nowhere else: the freed slot is handed to it.                 *)
LEMMA SinkTakesKeeps ==
  ASSUME IInv, SinkTakes
  PROVE  IInv'
<1>0. /\ running = Sink /\ queue # <<>> /\ queue' = Tail(queue)
      /\ putters' = Rest(putters) /\ ready' = ready \o Woken(putters)
      /\ UNCHANGED <<getters, running, todo, now, emitted>>
  BY DEF SinkTakes, GetTakes
<1>1. /\ queue' \in Seq(Publishers) /\ Len(queue') = Len(queue) - 1
      /\ Len(queue) \in Nat
  BY <1>0, HeadTailProperties, EmptySeq DEF IInv, BTypeOK
<1>2. CASE putters = <<>>
  <2>1. ready' = ready /\ putters' = <<>>
    BY <1>0, <1>2, WokenAppend DEF IInv, BTypeOK
  <2>. QED
    BY <1>0, <1>1, <2>1, EmptySeq
       DEF IInv, BTypeOK, ReadyDistinct, PuttersDistinct, PubDistinct, Apart,
           Issued, ToSet
<1>3. CASE putters # <<>>
  <2> DEFINE h == Head(putters)
  <2>1. /\ ready' = Append(ready, h) /\ putters' = Tail(putters)
        /\ h \in Publishers /\ putters' \in Seq(Publishers)
    BY <1>0, <1>3, WokenAppend DEF IInv, BTypeOK
  <2>2. /\ ToSet(putters) = ToSet(putters') \cup {h}
        /\ PuttersDistinct' /\ h \notin ToSet(putters')
    BY <1>3, <2>1, TailSet, TailDistinct DEF IInv, BTypeOK, PuttersDistinct
  <2>3. h \notin ToSet(ready) /\ h <= Len(emitted)
    <3>1. h \in ToSet(putters)
      BY <2>2
    <3>. QED
      BY <2>1, <3>1 DEF IInv, Apart, Issued
  <2>4. ToSet(ready') = ToSet(ready) \cup {h}
    BY <2>1, AppendSet DEF IInv, BTypeOK
  <2>5. ReadyDistinct'
    BY <2>1, <2>3, AppendDistinct DEF IInv, BTypeOK, ReadyDistinct
  <2>7. Apart' /\ Issued'
    <3>1. Apart'
      BY <1>0, <2>2, <2>4, NotPublisher DEF IInv, Apart
    <3>2. Issued'
      BY <1>0, <2>2, <2>3, <2>4 DEF IInv, Issued
    <3>. QED
      BY <3>1, <3>2
  <2>8. BTypeOK'
    BY <1>0, <1>1, <2>1, AppendProperties DEF IInv, BTypeOK, Tasks
  <2>. QED
    BY <2>2, <2>5, <2>7, <2>8 DEF IInv
<1>. QED
  BY <1>2, <1>3

-----------------------------------------------------------------------------
(* The loop starts with the sink and the builder ready and nothing else.  *)
LEMMA InitIInv ==
  ASSUME Init
  PROVE  IInv
<1>1. ToSet(<<Sink, Builder>>) = {Sink, Builder} /\ ToSet(<<>>) = {}
  BY DEF ToSet
<1>2. BTypeOK
  BY PipelineAssumption, EmptySeq DEF Init, BTypeOK, Tasks
<1>3. ReadyDistinct /\ PuttersDistinct
  BY NotPublisher DEF Init, ReadyDistinct, PuttersDistinct, PubDistinct
<1>. QED
  BY <1>1, <1>2, <1>3, NotPublisher DEF Init, IInv, Apart, Issued

(* Every step of a task, of the loop, of the clock and of the shutdown,   *)
(* and a stutter, keeps IInv.                                              *)
LEMMA NextIInv ==
  ASSUME IInv, [Next]_vars
  PROVE  IInv'
<1>1. CASE \E k \in Publishers : PublishStep(k)
  BY <1>1, PublishKeeps
<1>2. CASE UNCHANGED vars
  BY <1>2, NothingMoves DEF vars, IInv, BTypeOK
<1>. QED
  BY <1>1, <1>2, EmitsKeeps, AwaitsKeeps, SinkWaitsKeeps, SinkTakesKeeps,
     DispatchKeeps, PollKeeps, NetDataKeeps, TickKeeps, ShutdownKeeps
     DEF Next, TaskStep

(* IInv holds in every reachable state of the publish path.                *)
THEOREM BusInvariant == Spec => []IInv
<1>1. Init => IInv
  BY InitIInv
<1>2. IInv /\ [Next]_vars => IInv'
  BY NextIInv
<1>. QED
  BY <1>1, <1>2, PTL DEF Spec
=============================================================================
