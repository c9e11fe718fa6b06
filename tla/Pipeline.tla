------------------------------ MODULE Pipeline ------------------------------
(***************************************************************************)
(* What happens to a BookState after _emit_state: the Orchestrator's       *)
(* event loop (run.py, main_async) with one builder task, the detached     *)
(* publish tasks it spawns, the EventBus and the StorageSink task with its *)
(* RollingParquetWriter (storage.py), and the shutdown of main_async.      *)
(*                                                                         *)
(* The builder is abstracted to its scheduling: while it runs it may call  *)
(* _emit_state, each call spawning asyncio.create_task(bus.publish(...))  *)
(* stamped with the clock (ts_local_ms), and it gives the loop back when   *)
(* it awaits the network.  BookState k is the k-th emitted; its row is     *)
(* [k, ts].  The heartbeat task only prints and is left out.               *)
(***************************************************************************)
EXTENDS EventBus, ParquetWriter

CONSTANTS
  Sink,          \* the StorageSink.run task
  Builder,       \* the builder task (start)
  FlushEvery,    \* flush_sec, in clock ticks
  MaxReadFails   \* reads of an existing page that fail, at most

(* The clock starts at flush_sec (Init), inside the range it runs over.    *)
ASSUME PipelineAssumption ==
  /\ FlushEvery \in Nat \ {0} /\ FlushEvery <= MaxTime
  /\ MaxReadFails \in Nat
  /\ Sink # Builder /\ {Sink, Builder, Idle} \cap Nat = {}

Publishers == 1 .. MaxStates
Tasks == {Sink, Builder} \cup Publishers

VARIABLES
  now,        \* the clock, time.time() and ts_local_ms in ticks
  emitted,    \* emitted[k]: the ts_local_ms of BookState k
  netWait,    \* the builder awaits the network
  writer,     \* the sink's RollingParquetWriter
  lastFlush,  \* StorageSink._last_flush
  readFails,  \* failed page reads so far
  stopped,    \* main_async's finally has run
  taken       \* history: the BookStates the sink took, in order

vars == <<queue, putters, getters, ready, running, todo, now, emitted, netWait,
          writer, lastFlush, readFails, stopped, taken>>
sinkVars == <<writer, lastFlush, readFails, taken>>

RowOf(k) == [k |-> k, ts |-> emitted[k]]

-----------------------------------------------------------------------------
(* The builder task.                                                       *)

(* _emit_state: a detached publish task joins the ready queue.             *)
BuilderEmits ==
  /\ running = Builder
  /\ Len(emitted) < MaxStates
  /\ emitted' = Append(emitted, now)
  /\ ready' = Append(ready, Len(emitted) + 1)
  /\ UNCHANGED <<busVars, running, todo, now, netWait, stopped, sinkVars>>

(* The builder awaits the socket (event_q.get(), a sleep, a connect).      *)
BuilderAwaits ==
  /\ running = Builder
  /\ running' = Idle
  /\ netWait' = TRUE
  /\ UNCHANGED <<busVars, ready, todo, now, emitted, stopped, sinkVars>>

(* A frame has arrived when the loop polls the selector: the builder is    *)
(* ready in the new iteration.                                             *)
NetData ==
  /\ netWait
  /\ ~stopped
  /\ netWait' = FALSE
  /\ Select(<<Builder>>)
  /\ UNCHANGED <<now, emitted, stopped, sinkVars>>

-----------------------------------------------------------------------------
(* A publish task: bus.publish, i.e. one pass of Queue.put.                *)
PublishStep(k) ==
  /\ running = k
  /\ Put(k, k)
  /\ UNCHANGED <<now, emitted, netWait, stopped, sinkVars>>

-----------------------------------------------------------------------------
(* The StorageSink.run task.                                               *)

(* bus.next() on an empty bus.                                             *)
SinkWaits ==
  /\ running = Sink
  /\ GetBlocks(Sink)
  /\ UNCHANGED <<now, emitted, netWait, stopped, sinkVars>>

(* One iteration of run's loop with an event at hand: handle_book (the     *)
(* writer's write, which flushes on a bucket change), then the timed flush *)
(* if flush_sec has passed.  ok1 and ok2 are the outcomes of the reads of  *)
(* the two flushes.                                                        *)
SinkTakes ==
  /\ running = Sink
  /\ GetTakes
  /\ \E ok1, ok2 \in BOOLEAN :
       LET row == RowOf(Head(queue))
           w1 == Write(writer, row, ok1)
           timed == now - lastFlush >= FlushEvery
           fails == (IF RollsOver(writer, row) /\ ReadsPage(writer) /\ ~ok1
                     THEN 1 ELSE 0)
                  + (IF timed /\ ReadsPage(w1) /\ ~ok2 THEN 1 ELSE 0)
       IN /\ readFails + fails <= MaxReadFails
          /\ readFails' = readFails + fails
          /\ writer' = IF timed THEN Flush(w1, ok2) ELSE w1
          /\ lastFlush' = IF timed THEN now ELSE lastFlush
  /\ taken' = Append(taken, Head(queue))
  /\ UNCHANGED <<now, emitted, netWait, stopped>>

-----------------------------------------------------------------------------
(* The event loop, the clock, and main_async's shutdown.                   *)

RunNext ==
  /\ Dispatch
  /\ UNCHANGED <<now, emitted, netWait, stopped, sinkVars>>

(* A new iteration of the loop with no I/O ready.                          *)
Poll ==
  /\ ready # <<>>
  /\ Select(<<>>)
  /\ UNCHANGED <<now, emitted, netWait, stopped, sinkVars>>

Tick ==
  /\ now < MaxTime
  /\ now' = now + 1
  /\ UNCHANGED <<busVars, loopVars, emitted, netWait, stopped, sinkVars>>

(* Ctrl-C cancels main_async at its await; its finally sets stop_evt and  *)
(* cancels the tasks, and asyncio.run cancels the publish tasks left.      *)
(* No flush is made: the writer's rows stay where they are.                *)
Shutdown ==
  /\ ~stopped
  /\ running = Idle
  /\ stopped' = TRUE
  /\ ready' = <<>>
  /\ todo' = 0
  /\ putters' = <<>>
  /\ getters' = <<>>
  /\ netWait' = FALSE
  /\ UNCHANGED <<queue, running, now, emitted, sinkVars>>

-----------------------------------------------------------------------------
Init ==
  /\ queue = <<>>
  /\ putters = <<>>
  /\ getters = <<>>
  /\ ready = <<Sink, Builder>>
  /\ running = Idle
  /\ todo = 0
  /\ now = FlushEvery
  /\ emitted = <<>>
  /\ netWait = FALSE
  /\ writer = InitWriter
  /\ lastFlush = 0
  /\ readFails = 0
  /\ stopped = FALSE
  /\ taken = <<>>

(* A step of the task the loop is running.                                 *)
TaskStep ==
  \/ BuilderEmits \/ BuilderAwaits
  \/ \E k \in Publishers : PublishStep(k)
  \/ SinkWaits \/ SinkTakes

Next == TaskStep \/ RunNext \/ Poll \/ NetData \/ Tick \/ Shutdown

(* The loop runs every ready task, a running task runs to its next await, *)
(* and time passes.  The network and Ctrl-C get no fairness.               *)
Fairness == WF_vars(TaskStep) /\ WF_vars(RunNext \/ Poll) /\ WF_vars(Tick)

Spec == Init /\ [][Next]_vars /\ Fairness

-----------------------------------------------------------------------------
TypeOK ==
  /\ queue \in Seq(Publishers) /\ Len(queue) <= Cap
  /\ putters \in Seq(Publishers)
  /\ getters \in Seq({Sink})
  /\ ready \in Seq(Tasks)
  /\ running \in Tasks \cup {Idle}
  /\ todo \in 0 .. Len(ready)
  /\ now \in Times
  /\ emitted \in Seq(Times) /\ Len(emitted) <= MaxStates
  /\ netWait \in BOOLEAN
  /\ writer \in Writer
  /\ lastFlush \in Times
  /\ readFails \in 0 .. MaxReadFails
  /\ stopped \in BOOLEAN
  /\ taken \in Seq(Publishers)

(* Where BookState k can be: its publish task has not put it yet, it is in *)
(* the bus, among the writer's rows, or a row with its key is in the page  *)
(* of its bucket.                                                          *)
InFlight(k) == running = k \/ k \in ToSet(ready) \/ k \in ToSet(putters)
Buffered(k) == \E i \in DOMAIN writer.rows : writer.rows[i].k = k
Stored(k) ==
  /\ k \in 1 .. Len(emitted)
  /\ LET page == writer.pages[BucketStart(emitted[k])]
     IN \E i \in DOMAIN page : page[i].ts = emitted[k]

(* Nothing emitted is lost while the process runs (spec 4.1: no drop;      *)
(* 4.4: merging a flush into an existing page keeps what it held).  A      *)
(* publish task woken after a get, a bucket rollover that flushes, a timed *)
(* flush into a page an earlier flush wrote: every path must keep the      *)
(* state somewhere.                                                        *)
NoStateLost ==
  ~stopped =>
    \A k \in 1 .. Len(emitted) :
      InFlight(k) \/ k \in ToSet(queue) \/ Buffered(k) \/ Stored(k)

(* A page holds only rows of its own bucket, however the rows' timestamps *)
(* interleave at the sink: write flushes the old bucket before it appends  *)
(* a row of another one.                                                   *)
PageHoldsItsBucket ==
  \A b \in Buckets : \A i \in DOMAIN writer.pages[b] :
    BucketStart(writer.pages[b][i].ts) = b

(* The sink receives one venue's BookStates in the order the builder      *)
(* emitted them (spec 4.1: FIFO in publish order; spec 5: strictly        *)
(* increasing order within a venue).                                       *)
InPublishOrder == \A i, j \in DOMAIN taken : i < j => taken[i] < taken[j]

(* On shutdown a final flush is performed (spec 4.5): every BookState the *)
(* sink took is in its page once main_async has stopped.                   *)
ShutdownFlushes == stopped => \A k \in ToSet(taken) : Stored(k)

(* Rows do not wait for the next event to be flushed: the sink flushes on  *)
(* an independent periodic timer (spec 4.4).  The code checks the time     *)
(* only after taking an event, so when the feed goes quiet the rows wait.  *)
TakenIsStored ==
  \A k \in Publishers : (k \in ToSet(taken)) ~> (Stored(k) \/ stopped)

(* Every page is keyed and ordered by ts: flushing into a bucket yields   *)
(* its rows de-duplicated on (ts_ms, venue) and sorted by ts_ms (spec 4.4 *)
(* and the merge round-trip of spec 8), whichever flush wrote the page.    *)
PageSortedByKey ==
  \A b \in Buckets : \A i, j \in DOMAIN writer.pages[b] :
    i < j => writer.pages[b][i].ts < writer.pages[b][j].ts
=============================================================================
