# TLA+ verification of the L2/L3 order-book recorder

This directory models the book-reconstruction core in
`src/backtest/bots/l2l3_orderbook/`. It holds TLA+ modules, TLC
configurations and TLAPS proofs. Every module is written from the Python
source. `spec.md` is read only for what the code promises. The venues
(Binance, Coinbase) and the network are not code of this repository, so
they are modelled from the spec and the exchanges' documented behaviour.
`PROJECT.json` marks those definitions `spec_modelled`.

## The system

The core is a single asyncio process (`run.py`, `main_async`). It runs:

* one **builder task per venue**.
  * `BinanceL2BookBuilder.start` (`exchanges/binance_l2.py`) handles the
    diff stream (L2).
  * `CoinbaseL3BookBuilder.start` (`exchanges/coinbase_l3.py`) handles the
    order stream (L3).
  * Each `_run_once` attempt opens a websocket and creates a **receiver
    task** that moves frames into a private `event_q`. It then fetches a
    REST snapshot synchronously, replays the buffered frames and follows
    the live stream.
  * Every applied update goes to `_emit_state`. It publishes a `BookState`
    through a detached `asyncio.create_task(bus.publish(...))`.
* the **EventBus** (`bus.py`), an `asyncio.Queue(maxsize=10000)`.
* the **StorageSink** (`storage.py`). It takes events off the bus and
  buffers rows in a `RollingParquetWriter`. It flushes a bucket by
  reading, merging, de-duplicating and rewriting its parquet page.
* a heartbeat task, which only prints.
* On shutdown, the `finally` of `main_async` sets `stop_evt` and cancels
  every task.

asyncio runs one task at a time. A task gives up control only at an
`await` that suspends, and every module here uses this scheduling model.
In particular, the snapshot fetch (`urllib`), the load and the replay of
the buffered frames never let the receiver run.

### Modules

| part | source | modules | status |
|---|---|---|---|
| L2 builder, receiver | `exchanges/binance_l2.py` | `BinanceL2`, `L2Mirror` (abstract), `MC_BinanceL2`, `BinanceL2_proofs`, `BinanceL2_refinement` | partly: all but `stop_evt` and malformed frames |
| L3 builder, receiver, REST fallback | `exchanges/coinbase_l3.py` | `CoinbaseL3`, `MC_CoinbaseL3`, `CoinbaseL3_proofs` | partly: all but `stop_evt`, malformed frames, disconnect, float sizes |
| EventBus | `bus.py` | `EventBus`, `Pipeline_proofs` | modelled |
| StorageSink, RollingParquetWriter | `storage.py` | `ParquetWriter`, `Pipeline`, `ParquetWriter_proofs`, `PipelineSink_proofs` | modelled |
| Orchestrator | `run.py` | `Pipeline`, `MC_Pipeline` | partly: one builder, no heartbeat, no file set-up |
| BookState | `models.py` | `View` in `BinanceL2`, `BookState` in `CoinbaseL3`, rows in `Pipeline` | data only |

Everything else under `src/` is outside the core (spec 1): the
collectors, dashboards, trading bots and the backtest pipeline.
`PROJECT.json` lists each of them and says why it is left out.

How the modules fit together:
* `BinanceL2` and `CoinbaseL3` each model one builder. Each includes its
  receiver task, its venue and a lossy network, and records what
  `_emit_state` publishes.
* `Pipeline` takes over from `_emit_state`. It composes the `EventBus`
  (the asyncio queue and the event loop's ready queue) with the publish
  tasks, the sink and its writer (`ParquetWriter`), and shutdown. The
  builder appears there only as its scheduling: emit, then await the
  network. Which values it publishes is already checked in the builder
  modules.

## `BinanceL2`: the diff-stream builder

### State

* **Venue.**
  * `exId` is the venue's last update id.
  * `bookAt[i]` is its book after update `i`.
  * `touched[i]` is the level that update `i` changed.
  * `sentUpTo` is the last id streamed.
* **Network.**
  * `wire` holds the frames in flight, in order.
  * `conn` is `"down"`, `"open"` or `"closed"` (closed by the peer).
  * `drops` counts lost frames.
* **Builder.**
  * `eventQ` is `event_q`, and `firstU` is `first_u`.
  * `book` is `self.bids` and `self.asks`, as one function over (side,
    price). A quantity of 0 is an absent level.
  * `bookUpdateId` is `self.book_update_id`.
  * `buffered` and `applied` are the replay's locals.
  * `resyncCount` is `self._resync_count`, and `fails` counts failed
    connects.
  * `published` holds the BookStates that `_emit_state` hands to the bus,
    each abstracted to its update id and its top levels (`View`).
  * `pc` says where the task is: `idle`, `waitFirst` (the `first_u` sleep
    loop), `fetch` (the refetch loop), `replay`, `bridge` (the
    `if not applied` loop), `live` or `backoff`.

A diff is `DiffEvent(U, u)`: the range `[U, u]` together with the venue's
quantity at `u` of every level that updates `U..u` changed. Binance sends
absolute quantities, so this is what a diff carries.

### Actions

| action | code |
|---|---|
| `Start` | `_run_once`: clear the book and the cursor, then `websockets.connect`. A failed connect raises: `Resync` |
| `Receive` | `_receiver`: one frame into `event_q`; `first_u` is set on the first. Enabled only while the builder is suspended (`waitFirst`, `bridge`, `live`) |
| `Fetch` | lines 80-94: a failure returns (`TearDown`, back to `idle`); a stale snapshot is fetched again; otherwise load it, set the cursor and drain `event_q` into `buffered` |
| `ReplayStep`, `ReplayDone` | lines 96-109: skip, apply, or `binance_l2_gap` |
| `BridgeStep` | lines 110-121: wait for the first bridging event; it is applied without emitting |
| `LiveStep` | lines 123-133: skip, gap, or apply and `_emit_state` |
| `Backoff` | the `asyncio.sleep(resync_backoff)` of `start` |
| `VenueUpdate`, `VenueSendDiff`, `NetDrop`, `NetClose` | the venue and the transport (spec 6, 7) |

`TearDown` is the `finally` of `_run_once`: the receiver is cancelled, the
socket is closed and the attempt's locals are gone. `Resync` is an
exception that `start` catches: `TearDown`, count the resync, then back
off.

### The abstract mirror (`L2Mirror`)

`L2Mirror` states what a builder promises the bus (spec 4.2 step 6,
spec 5):
* the venue's book goes through versions `hist[0..top]`;
* the builder publishes, one after another, the view of some version, at
  an id above every id it published before.

`BinanceL2` instantiates it with `top <- exId` and `hist <- bookAt`.
`ImplementsMirror == Mirror!Spec` is checked as a temporal property.

This is stronger than `PublishedMatchesVenue`, because the ids must also
increase. They must increase across resyncs too, where
`book_update_id` is reset to 0.

### Runs

* `l2_safety` (`MC_BinanceL2.cfg`, pass).
  * Bounds: prices {1, 2}, quantities 0..1, `top_n` = 1, three venue
    updates, one lost frame and one failed connect.
  * The venue's initial book is arbitrary, which gives 16 initial states.
  * Size: 1,537,776 distinct states, about 15 s.
  * These bounds reach stale snapshots and refetches, diffs covered by the
    snapshot and diffs that overlap it, gaps after a loss, resyncs, and
    publishes after a resync. A fourth update costs minutes and adds only
    a second publish per behaviour.
  * Checks:
    * `TypeOK`;
    * `BookMatchesVenue`: from the load on, the mirror is the venue's book
      at `book_update_id`;
    * `PublishedMatchesVenue`: every published state is the venue's top of
      book at its id;
    * `ImplementsMirror`: the builder implements `L2Mirror`.
* `l2_disconnect_stall` (violation of `ClosedConnectionIsTornDown`).
  * The peer closes the socket. The receiver ends, and the builder waits
    for `first_u`, or on `event_q.get()`, forever.
  * This happens even though the builder and the receiver are weakly
    fair.
* `l2_snapshot_retry` (violation of `EveryRetryBacksOff`).
  * A failed `_fetch_snapshot` returns from `_run_once`.
  * `start` then reconnects without the backoff sleep and without counting
    a resync.

Deadlock is not checked. Once the bounded venue stops, the builder awaits
the network forever, which is what the code does.

Fairness is `WF_vars(Builder) /\ WF_vars(Receive)`. The event loop runs
every ready task eventually. The venue and the network are the environment
and get no fairness.

## `CoinbaseL3`: the order-stream builder

### State

* **Venue.**
  * `vseq` is the sequence number.
  * `vAt[i]` is the order map after message `i`.
  * `vstatus` records where each order is in its life: received, open,
    done.
* **Network.** `wire`, `conn` and `drops`.
* **Builder.**
  * `recvAlive` says whether the receiver task is alive, and `eventQ` is
    `event_q`.
  * `orders` is `self.orders`.
  * `levels` is `self.bids` and `self.asks`: price to aggregated size.
  * `lastSeq` is `self.last_sequence`.
  * `snapFails` is `self._snapshot_failures`.
  * `pub` is the last BookState published: kind, sequence number, sides
    and order count.
* **History.** `streak` counts the consecutive failed fetches, for the
  fallback property.

### Actions

| action | code |
|---|---|
| `Connect` | `_run_once`: clear the book, connect, subscribe, create the receiver; or a failed connect |
| `Fetch` | the synchronous `_fetch_snapshot`. A failure bumps `_snapshot_failures` and either resyncs or enters the fallback. A success runs `_load_snapshot`, drains `event_q` and replays it (`ReplayOne`, folded with `FoldLeft`) |
| `LiveStep` | the live loop: skip old messages, raise on a gap, or `_apply_message` then `_emit_state` |
| `RestPoll` | `_run_rest_only`: one level-2 poll and `_emit_state_l2` |
| `Receive` | `_receiver`: one frame into `event_q` |
| `Backoff` | the resync sleep |
| `VenueStep`, `NetDrop` | the full channel: received, open, match, change and done messages; a lost message |

The book operators are `AddOrder` (with `SetOrder`, the assignment
`self.orders[order_id] = ...`), `RemoveOrder`, `PartialFill`, `Resize`,
`ApplyMessage`, `LoadSnapshot` and `TopBids`/`TopAsks`. Each keeps the
order of the code's level updates, including the clamp at zero and the pop
of an empty level.

The receiver cannot run between the receiver's creation and the drain,
because the fetch is synchronous. The buffered replay therefore always
finds `event_q` empty, and its missing gap check is unreachable. The model
folds the replay into `Fetch` for this reason.

### Runs

* `l3_safety` (`MC_CoinbaseL3.cfg`, pass).
  * Bounds: three orders (two buys, one sell), prices {1, 2}, sizes 1..2,
    four venue messages, one lost message, two failed connects,
    `top_n` = 1.
  * The fallback threshold is 2, so the fallback is reached.
  * Size: 1,791,599 distinct states, about 30 s.
  * Checks:
    * `TypeOK`;
    * `LevelsAggregateOrders`: each level is the sum of its resting orders,
      and no empty level is kept;
    * `OrdersMatchVenue`: in the live loop the order map is the venue's at
      `last_sequence`;
    * `PublishedMatchesVenue`: each L3 BookState shows the venue's best
      levels and order count at its sequence number. The L2 fallback
      states are built from the venue's aggregated book by `RestPoll`.
* `l3_fallback_budget` (violation of `FallbackAfterRepeatedFailures`).
  * The threshold is the code's value, 3.
  * Three failures, separated by healthy epochs, switch the builder to the
    fallback for good.
* `l3_fallback_stream` (violation of `FallbackTakesNoMessages`).
  * In the fallback, the L3 receiver keeps queueing the full channel into
    an `event_q` that nothing reads.

The venue and the network are bounded, so deadlock is not checked. No
liveness is asked of this module, so it has no fairness.

## `EventBus`, `ParquetWriter` and `Pipeline`: the publish path

### `EventBus`

`EventBus` models CPython's `asyncio.Queue` and event loop:
* `queue` holds the items. `putters` and `getters` are the waiter futures,
  in order.
* `ready` is the loop's FIFO ready queue, and `running` is the task that
  is running.
* `todo` holds the handles left in this iteration of `_run_once`.

The actions:
* `Put` is one pass of `put`'s loop: `put_nowait` when there is room,
  else block.
* `GetBlocks` and `GetTakes` are the two ways `get` proceeds.
* `_wakeup_next` schedules the first waiter.
* `Dispatch` runs the next handle.
* `Select` starts an iteration of the loop.

### `ParquetWriter`

`ParquetWriter` turns `RollingParquetWriter`'s methods into functions on
its state:
* `Write`: a row of another bucket first flushes the current bucket.
* `Flush`: read the page, concatenate, `drop_duplicates`, `sort_values`,
  rewrite. A failed read is swallowed, and then only the new rows are
  written.

A row is the BookState's number together with its `ts`.
`drop_duplicates(subset=["ts_ms", "venue"])` is `FirstOfKey`: the first
row of each ts (there is one venue). `sort_values("ts_ms")` of those
key-unique rows is `SortedByTs`: the one listing of them in increasing
ts, written as a `CHOOSE` over the functions from `1..n` to the rows.
It is written in plain TLA+ rather than with TLC's `SortSeq`, which the
prover cannot expand. TLC reaches the same 154,853 states with either.
`PageTs(p)` is the set of ts values a page holds.

### `Pipeline`

`Pipeline` composes the bus and the writer with:
* the builder's scheduling (`BuilderEmits`, `BuilderAwaits`, `NetData`);
* one detached publish task per state (`PublishStep`);
* `StorageSink.run` (`SinkWaits`, and `SinkTakes`: take, `handle_book`,
  the timed flush);
* the clock (`Tick`);
* `Shutdown`: the `finally` of `main_async`.

### Runs

* `pipeline_safety` (pass).
  * Bounds: bus capacity 1, four states, two-tick buckets, a flush every
    two ticks, clock up to 6.
  * Capacity 1 is enough for the bus to fill, so putters block and are
    woken. The buckets and the clock give rollovers and timed flushes.
  * Size: 154,853 distinct states, about 15 s.
  * Checks:
    * `TypeOK`;
    * `NoStateLost`: while the process runs, every emitted state is in a
      task, in the bus, in the writer's rows or in its page;
    * `PageHoldsItsBucket`.
  * No read fails in this run (`MaxReadFails = 0`). With one failed read,
    `NoStateLost` fails (`pipeline_read_failure`).
  * The bus's own wakeup protocol (`_wakeup_next`) is CPython's
    `asyncio.Queue`, to which `bus.py` only delegates. No property is
    spent on it, but the run still exercises it: with capacity 1, putters
    block and are woken.
* Violations, each with one property:
  * `pipeline_reorder` (`InPublishOrder`): a woken putter is overtaken by a
    newer publish task.
  * `pipeline_read_failure` (`NoStateLost`, with one failed read): the page
    is overwritten.
  * `pipeline_shutdown` (`ShutdownFlushes`): there is no final flush.
  * `pipeline_flush_timer` (`TakenIsStored`): rows wait for the next event.
  * `pipeline_first_flush_unsorted` (`PageSortedByKey`): the first flush of
    a bucket neither de-duplicates nor sorts.

Fairness is `WF(TaskStep)`, `WF(RunNext \/ Poll)` and `WF(Tick)`. The loop
runs every ready task, a running task reaches its next `await`, and time
passes. The network (`NetData`) and Ctrl-C (`Shutdown`) get no fairness.
Deadlock is not checked, because the bounded clock and state count end
every behaviour. `PipelineAssumption` requires `FlushEvery <= MaxTime`:
the clock starts at `flush_sec`, which must lie in the range it runs
over.

## Mutants

Every property of a passing run has a mutant in `PROJECT.json`. A mutant
is a plausible bug in the mapped definition, written as an operator just
before it, and TLC finds the property violated under the run's own cfg.
Examples:
* the bridge test off by one;
* `_emit_state` before `_apply_event`;
* no skip of covered diffs, which breaks `ImplementsMirror`;
* `put_nowait` without waiting;
* a flush that overwrites;
* a write without rollover;
* a level kept at zero;
* a receiver running during the fetch.

## Proofs

The proofs hold for every value of the constants. `tlapm` checks every
step. They use only the `ASSUME`s of the modules they extend. These are
`PricesAssumption`, `QtyAssumption`, `BoundsAssumption` and `NoneAssumption`
for L2. For L3 they are `OrdersAssumption`, `SizeAssumption`,
`BoundsL3Assumption` and `InitOrdersAssumption`. For the publish path
they are `CapAssumption`, `WindowAssumption`, `TimeAssumption`,
`NoneAssumption` (of `ParquetWriter`: `None` is no bucket start) and
`PipelineAssumption`. TLC evaluates these assumptions on every run.

`SequenceLemmas` holds the sequence facts that both builders' proofs use.
They are stated over `Elems(s) == {s[i] : i \in DOMAIN s}`:
* `ElemsTail`, `ElemsAppend`, `ElemsConcat` and `ElemsSubSeq`;
* `ElemsRemove`: a lost frame leaves only frames that were there;
* `RemoveType`.

### `BinanceL2_proofs`

* `TypeCorrect`: `Spec => []TypeOK`, by induction with one case per
  action.
* `MirrorInvariant`: `Spec => []IInv`.
* `MirrorCorrect` and `PublishedCorrect`: `[]BookMatchesVenue` and
  `[]PublishedMatchesVenue`, derived from `MirrorInvariant`.

`BookMatchesVenue` is not inductive on its own. `IInv` adds to it:
* `AllWellFormed`: every frame on the wire, in `event_q` or in `buffered`
  is `DiffEvent(U, u)` of the venue's history;
* `Frame`: a level that no update in `a+1..b` touched has the same
  quantity at `a` and `b`.

The key lemmas:
* `ApplyBridge`: applying `DiffEvent(U, u)` with `U <= id+1 <= u` to
  `bookAt[id]` gives `bookAt[u]`.
* `ApplyKeepsMirror`: the apply branch of all three loops.
* `FrameStable`, `DiffEventStable` and `WellFormedStable`: venue updates
  keep what was already sent.

### `BinanceL2_refinement`

* `RefinementInvariant`: `Spec => []RInv`.
* `Refinement`: `Spec => ImplementsMirror`. This is the property that the
  `l2_safety` run checks, proved here for every instance.

The refinement proof follows the usual pattern:
* `MirrorInit`: initial states map to initial states.
* `MirrorStep`: under `RInv`, each step maps to a mirror step or a
  stutter.
  * `UpdateIsChange`: a venue update is `Change`.
  * `LiveIsPublish`: a live emit is `Publish`.
  * Every other step leaves `<<exId, bookAt, published>>` alone.

The hard part is `Newer`: a new id must be above the last one published.
This needs `RInv == IInv /\ Ordered`, checked with TLC on the `l2_safety`
instance before it was proved. `Ordered` follows where a future id can
come from:
* every frame ends at or below `sentUpTo`, and so does every published id;
* before `first_u` is set, every frame on the socket starts above every
  published id, because a new connection receives only diffs sent after
  it opened;
* while fetching, the published ids are below `first_u`. The refetch loop
  keeps only a snapshot at or above `first_u`;
* in the replay, bridge and live loops, the published ids are at or below
  the cursor;
* `first_u` is set exactly when the attempt has moved past `waitFirst`.

### `CoinbaseL3_proofs`

* `OrdersInvariant`: `Spec => []IInv`.
* `OrdersCorrect`: `Spec => []OrdersMatchVenue`. This is the property that
  the `l3_safety` run checks, proved here for every instance.

`OrdersMatchVenue` is not inductive on its own. `IInv` adds to it:
* `OTypeOK`: the types of the venue, the network and the builder's
  control state. It leaves out the levels.
* `MsgsSent`: every message on the wire or in `event_q` is a step of the
  venue's history. Its `seq` is in `1..vseq`, and `OrderEffect` of it
  takes `vAt[seq-1]` to `vAt[seq]`. `OrderEffect` is the order-map part of
  `_apply_message`; lemma `ApplyOrders` shows this.
* `OpenRests`: an open order rests on the venue's book. This is what a
  match, change or done message needs.
* `FetchDrained`: `event_q` is empty while the snapshot is fetched. The
  fetch is synchronous, so the receiver cannot run in between. The replay
  of the buffered messages is therefore the identity (`ReplayEmpty`), and
  the loaded book is the snapshot `vAt[k]`.
* `LiveCursor`: in the live loop, `last_sequence <= vseq` and the order
  map is `vAt[last_sequence]`.

`IInv` was checked with TLC as an invariant of the `l3_safety` instance
before it was proved. There is one lemma per action:
* `VenueReceivedKeeps`, `VenueOpenKeeps`, `VenueMatchKeeps`,
  `VenueChangeKeeps` and `VenueDoneKeeps`;
* `NetDropKeeps`, `ReceiveKeeps`, `ConnectKeeps` and `FetchKeeps`;
* `LiveStepKeeps`: its apply branch is where `MsgsSent` and `LiveCursor`
  meet;
* `BackoffKeeps` and `RestPollKeeps`.

`NextIInv` combines them, and `InitIInv` covers the initial state.

### `Pipeline_proofs`

* `BusInvariant`: `Spec => []IInv`. It is not listed as a result. It is
  the part of `PipelineSink_proofs`'s invariant about the bus and the
  loop.

`IInv` holds:
* `BTypeOK`: the types of the bus and the loop;
* `ReadyDistinct` and `PuttersDistinct`: no publish task is twice in the
  ready queue, or twice in the line of putters;
* `Apart`: a task is ready, running or putting, never two of these;
* `Issued`: only tasks of emitted BookStates exist, so a newly emitted
  task is fresh.

The sink's proofs need `Issued`: an event on the bus belongs to an
emitted BookState, so its row is a `Row`. `Issued` needs the other
conjuncts. The task `_wakeup_next` moves from the line of putters to the
ready queue was nowhere else, and the task a dispatch runs leaves the
ready queue. There is one lemma per action (`TickKeeps` to
`SinkTakesKeeps`).

### `ParquetWriter_proofs`

These are the facts about one flush, for pages and buffers of any
length:
* `MergeRows` (theorem): the merged page is a sequence of rows. Its set
  of rows is `FirstOfKey(old \o new)`, and its ts values strictly
  increase.
* `MergeTs` (theorem): the merged page holds every ts of the old page
  and of the new rows.
* `FlushKeeps` and `WriteKeeps`: the methods keep `WriterOK`. That is,
  the buffered rows share the current bucket, and every page holds rows
  of its own bucket only.
* `FlushKeepsTs`, `FlushStoresRow` and `WriteKeepsRow`: a flush whose
  read succeeds drops no ts from a page. After a flush, every row the
  writer kept is on disk.

`SortedByTs` is a `CHOOSE`, so its result is known only once a sorted
listing is shown to exist. One is built by ranking, with no induction.
The rank of a row is one more than the number of rows with an earlier
ts (`Rank`, `RankMonotone`). With one row per ts the ranks form a
bijection onto `1..n` (`RankOnto`, by `FS_Injection`), and listing the
rows by rank sorts them (`SortedOrderExists`). `FirstOccurrence` shows
that `drop_duplicates` keeps a row for every ts. Its first row exists
because `<` is well-founded on `Nat` (`WFMin`).

### `PipelineSink_proofs`

* `SinkInvariant`: `Spec => []TInv`.
* `TypeCorrect`: `Spec => []TypeOK`.
* `PagesKeepTheirBucket`: `Spec => []PageHoldsItsBucket`.
* `NothingLost`: `MaxReadFails = 0 => (Spec => []NoStateLost)`.

Each is the property of the same name that `pipeline_safety` checks,
proved for every value of the constants. The last holds only while
no read of an existing page fails. `pipeline_read_failure` shows that
`NoStateLost` is false otherwise, so the hypothesis is the code's real
condition, not a gap in the proof.

`TInv` is `IInv` with three additions:
* `TypeOK`;
* `QueueIssued`: every event on the bus was emitted. Without it, the row
  the sink builds from `Head(queue)` would not be known to be a `Row`;
* `WriterOK(writer)`.

`NoStateLost` is proved through `KeptInv`. It says the same thing with
"buffered or stored" read as `Kept(writer, RowOf(k))`, and it is
preserved with the writer lemmas above. In `SinkTakes`, `SinkReads`
turns `MaxReadFails = 0` into "both flushes of the iteration read the
existing page". `TInv` and `KeptInv` were both checked with TLC, with
capacities 1 and 2 and with one failed read allowed (for `TInv`), before
they were proved.

### Only model-checked

Two kinds of result stay with TLC:
* **Liveness.** The violated `TakenIsStored` and
  `ClosedConnectionIsTornDown` need fairness and `ENABLED`. The prover
  does not handle either.
* **Sums over a book.** Several L3 properties need the sum of the sizes
  of a level's orders (`MapThenSumSet`) for every order map:
  * `LevelsAggregateOrders`;
  * `PublishedMatchesVenue` of L3;
  * the level part of L3's `TypeOK`, whose positive sizes follow from the
    aggregate.

  Facts about such a sum for every finite set need induction over the
  data. The installed provers cannot do this, because the library's
  induction theorems take an operator parameter.

Every property of `pipeline_safety` is proved.

## Findings

Each finding is a run that TLC finds violated. `PROJECT.json` gives the
details.

1. **Disconnect stall** (`binance_l2.py:111`, also lines 78 and 124, and
   `coinbase_l3.py:91`). A disconnect never aborts the epoch, contrary to
   spec 4.2.
2. **A failed snapshot is not a counted, backed-off retry**
   (`binance_l2.py:82`, `87`). This is contrary to spec 7.
3. **Publish reorders one venue's states** (`binance_l2.py:193`).
   `create_task(bus.publish(...))` is used instead of awaiting the bus,
   contrary to spec 4.1 and 5. The same `create_task` (also at
   `coinbase_l3.py:246` and `266`) removes the backpressure that spec 4.1
   describes. The builder goes on emitting while the bus is full, and
   pending publish tasks grow with every emit. This is a hazard in
   `PROJECT.json`. No run is spent on it, because the reorder run shows
   the root cause.
4. **A failed page read loses the page** (`storage.py:57`).
5. **No final flush on shutdown** (`run.py:73`), contrary to spec 4.5.
6. **A flush happens only when an event arrives** (`storage.py:93`),
   contrary to spec 4.4.
7. **The first flush of a bucket is neither de-duplicated nor sorted**
   (`storage.py:51`).
8. **The L3 snapshot-failure counter is never reset**
   (`coinbase_l3.py:69`). Any three failures switch the builder to the
   fallback for good.
9. **The L3 stream keeps running in the fallback** (`coinbase_l3.py:71`).
   It fills an unbounded `event_q` that nothing reads.

## Not modelled

* `stop_evt` exits of the builders' loops. Shutdown is modelled in
  `Pipeline`.
* Malformed frames, which the guards skip.
* The heartbeat task, session directories and the `LATEST` file, which
  are pure I/O.
* The second builder in `Pipeline`. The two venues interact only through
  the bus's order, which one builder already exercises.
* The float arithmetic of L3 sizes. The model uses integer sizes, so a
  residue level left by float rounding is out of reach.
* Everything outside the core (spec 1).
