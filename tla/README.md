# Verification of the microstructure collector, its replay and its studies

TLA+ modules, TLC configurations and TLAPS proofs for the core of this repository.
In C++ (`cpp`): the order book that is synchronized from Binance diff messages,
the collector that does it with three threads, the raw event log it writes, the
replayer every research number is computed from, and the observers of that replay.
In Python (`pyresearch`): the historical order-book path with its cache, the
execution engine, a market maker, and the commands that freeze a methodology and
open a holdout. Paths are those of the repository.

Everything the research side reports rests on four claims. When the program
says the book is live, the book is the exchange's book. When a capture is
replayed, what comes out is what was captured. A row, a decision or a fill knows
nothing that was later than it. And what a study publishes was made from the
files, and in the order, it says. The modules say exactly what that means and
under which failures it is true.

## 1. Inventory

### Components

| component | source | state it keeps | operations |
|---|---|---|---|
| order book | `cpp/book/order_book.*` | bids, asks, `last_update_id_`, `valid_` | clear, invalidate, load_snapshot, apply_depth_event, queries |
| depth synchronizer | `cpp/exchange/binance/depth_sync.*` | state (8 values), buffer, `first_event_applied_`, `snapshot_update_id_`, counters | on_connected, on_disconnected, request_snapshot, begin_resync, on_snapshot, on_depth |
| collector | `cpp/app/capture_main.cpp` | `sync_mutex`, `current_depth_session`, `snapshot_requested`, `stop`, statistics | depth callbacks, trade callbacks, snapshot loop, periodic flush, shutdown |
| websocket client | `cpp/exchange/binance/websocket_client.*` | connection, session number, backoff | run: connect, read, ping, 23 h limit, reconnect |
| raw event storage | `cpp/storage/raw_event_writer.*` | open segment, `block_`, ofstream, `previous_file_`, bucket | write (with rotation), flush, close; reader |
| manifests | `cpp/storage/raw_file_manifest.*` | pending tasks, failures | submit, write_manifest, wait_all |
| event replayer | `cpp/replay/event_replayer.*` | a synchronizer and book of its own, `depth_connected` | validate_raw_chain, instrument_from_raw_files, replay |
| research exporter | `cpp/research/research_exporter.*` | sampling grid, trade windows, invalid interval | advance_before_event, sample_exact_event_time, finish_at |
| native dataset exporter | `cpp/research/native_dataset_exporter.*` | segment, pending rows with cached deadlines, flow windows | the observer callbacks; resolve_pending, close_segment |
| queue sensitivity | `cpp/research/queue_sensitivity.*` | segment, hypothetical orders with nine queue positions each, last mid | the observer callbacks; place, retire |
| level lifecycle | `cpp/research/level_lifecycle.*` | segment, one open episode a side, pending rows | the observer callbacks; start_episode, end_episode |
| cross-stream timing | `cpp/research/cross_stream_timing.*` | pending matches | the observer callbacks |
| passive queue | `cpp/research/passive_queue.*` | trades by side and price, running sums, a segment tree a side | add_trade, finalize, evaluate |
| passive study exporter | `cpp/app/tardis_passive_main.cpp` | book, validity intervals | labels of placed orders |
| Tardis adapters and exporters | `cpp/historical/*`, `cpp/research/tardis_daily_exporter.*`, `event_dataset_exporter.*` | book, open message group, day grid | rows to messages, apply, export |
| historical L2 and trade cache | `pyresearch/historical/*` | hourly cache with `.part` files and sidecars; audit; packer state, `previous_u`, deferred updates | download, ensure, discover_snapshot, audit_continuity, pack_for_existing_cpp_pipeline |
| execution engine | `pyresearch/execution/engine.py` | one position, accounting of signals | run_day, walk_visible_book |
| passive studies | `pyresearch/passive/pipeline.py` | days, thresholds, frozen specification with its sidecar, opening audit, all on the disk | stage-a, development, validation, holdout, thresholds |
| OBI searches | `pyresearch/obi/*` | a market maker's inventory, active orders, heap of fills; receipts of trials | simulate_schedule, run_stage, evaluate_day |
| native studies | `pyresearch/native/*` | data frames | joins of the observers' outputs, statistics |
| other studies, artefacts | `pyresearch/{event,support}`, `research/`, `docs/`, `scripts/` | data frames, none | batch jobs over exported rows |

### How they interact

* The exchange sends diff messages over a websocket and answers snapshot
  requests over REST. The two channels are not ordered with each other.
* The depth thread runs `WebSocketClient::run`, whose callbacks write a record
  to the raw log and *then* take `sync_mutex` and call the synchronizer. The
  main thread polls `snapshot_requested` (an atomic outside the mutex), fetches
  a snapshot without the mutex, writes it to the log, takes the mutex, compares
  the session with the one it fetched for, and calls `on_snapshot`. The trade
  thread only writes records and can set `stop`.
* All threads call the one `RawEventWriter`, which serializes them with its own
  mutex, rotates files between two records, and hands every closed file to the
  `ManifestFinalizer`, which hashes it on a thread of its own.
* The replayer reads a chain of files, drives a second synchronizer record by
  record, and calls the exporter and one observer before and after each record.
  They look at the book only through `depth_connected && is_live()`. Each native
  observer runs in a replay of its own over the same files; the native studies join
  their outputs on (file, segment, instant).
* The historical path gets the same book another way: vendor hours are downloaded
  into a cache, merged, audited, and packed into a raw file that the C++ replayer
  reads as if it were a capture.
* Python programs talk to each other, and to themselves across runs, through files:
  cached hours, day files and their manifests, frozen specifications, receipts.
  A command that dies is run again over what it left. Nothing flows back to C++.

### What is hard, and what makes a component correct

| component | hard behaviour | correctness |
|---|---|---|
| order book, synchronizer | lost, repeated and late messages; snapshots older or newer than the buffer; overflow; a gap inside the drain | a live book is the exchange's book at its id; no buffered event is left behind; ids only grow while live |
| collector | flag outside the mutex; REST without the mutex; reconnect in between; callbacks that throw; socket calls that block at shutdown | no request is lost; no book or snapshot outlives its connection; waits end; stop ends the process, if the socket calls return |
| replayer | the order of the log is not the order of the calls; records the collector discarded | never live on a wrong book; live whenever the collector was |
| raw storage, manifests | rotation among three writers; failed open, write, flush, close; crash; restart in the same bucket; clock steps; late manifest | no record lost at a boundary; a run has no hole; nothing is overwritten; manifests are true; accepted chains are complete |
| exporter, native observers | stamps that go backwards; cached deadlines; quantities kept up from differences; segments counted three times | rows know no later record; labels, fills and episodes of one observer are what another's output says |
| historical path | downloads cut, resumed, spliced; a process that dies; a packer that imagines the state of a synchronizer | a cached hour is one whole object; the packer's state is the replayer's; a clean audit replays to the end |
| passive queue, Tardis adapters | ties, exactly filled quantities, grouping rules | indexed = sequential; both adapters give one book |
| execution engine | segments, overlapping signals | every signal is accounted for once; positions do not overlap or cross a segment |
| market maker, round trips | labels that know their future; fills in any order; placements that lag | limits hold; no decision knows a later fill; a round trip could have been made |
| passive studies, trials | crashes between files, reuse of days, edits between commands | the holdout opens after the freeze; days are whole; receipts stay true |

`PROJECT.json` lists the hazards of this code one by one, at the line where
each one bites, with the properties that guard it.

## 2. Modules

| module | models | kind |
|---|---|---|
| `OrderBook` | `order_book.cpp` | operators over a book record |
| `Exchange` | the venue: its history of books, genuine diff messages and snapshots (external) | constants and operators |
| `MirroredBook` | what `is_live()` promises a reader | abstract specification |
| `DepthSync` | `depth_sync.cpp`, called in any legal order with any genuine input | specification |
| `DepthSyncProofs` | | theorems about any caller |
| `Collector` | `capture_main.cpp` and `websocket_client.cpp`, on top of `DepthSync` | specification |
| `CollectorProofs` | | theorems |
| `Replayer` | what `event_replayer.cpp` does with a record | operators |
| `Replay` | the replayer over the log of `Collector` | specification, composition |
| `ReplayProofs` | | theorems |
| `RawWriter` | `raw_event_writer.cpp`, `raw_file_manifest.cpp`, the chain rules of `event_replayer.cpp` | specification |
| `RawWriterProofs` | | theorems |
| `ResearchGrid` | `research_exporter.cpp`, driven record by record by `event_replayer.cpp` | specification |
| `ResearchProofs` | | theorems about `ResearchGrid` and `PassiveQueue` |
| `ReplayObserver` | what the native observers share | operators |
| `NativeDataset`, `QueueSensitivity`, `LevelLifecycle` | the observers of the same names | operators |
| `NativeReplay` | the replayer with the three observers, and what `native/*/data.py` rebuild from their outputs | specification, composition |
| `PassiveQueue` | `passive_queue.cpp` | specification and a sequential reference |
| `HourCache` | `historical/cryptohftdata.py` | specification |
| `HistoricalL2` | `historical/l2.py`, its packed file replayed by `Replayer` | specification, composition |
| `ExecutionEngine` | `run_day` of `execution/engine.py`, the segments of `support/feature_pipeline.py` | specification |
| `MarketMaker` | `simulate_schedule` of `obi/continuous_mm.py`, the labels of `tardis_passive_main.cpp` | specification |
| `TradingProofs` | | theorems about `MarketMaker`, `ExecutionEngine` and `RoundTrips` |
| `RoundTrips` | the pairing of `obi/maker_roundtrip_search.py` and `state_exit_search.py`, the cancel of `passive_entry_search.py` | specification |
| `PassiveStudy` | the commands of `passive/pipeline.py` | specification |
| `SingleUse` | `run_stage` of `obi/continuous_mm.py` | specification |
| `HistoricalProofs` | | theorems about `HourCache`, `PassiveStudy`, `SingleUse` and `HistoricalL2` |
| `Induction` | | lemmas about numbers, loops and recursive functions |
| `MCVenue` | a five-update exchange for TLC | constants |
| `MCDepthSync`, `MCCollector`, `MCReplay`, `MCRawWriter`, `MCHistorical`, `MCResearch`, `MCPassiveQueue`, `MCExecutionEngine` | | what TLC runs |

`Exchange` EXTENDS `OrderBook`; `DepthSync` EXTENDS `Exchange`; `Collector` and
`Replayer` EXTEND `DepthSync`; `Replay` EXTENDS both. `HistoricalL2` and the observers
EXTEND `Replayer`, so that one translation of the replayer reads the collector's log, the packed vendor
file and the capture the observers watch. `RawWriter` stands alone:
between it and the others lies only "a record is appended, or the call throws",
which `Collector` models as `Written` and `WriteThrows`. `ResearchGrid` takes any log
of stamped records. The programs of the research path work on files that the one before has finished;
`MCResearch` and `MCHistorical` run them side by side, and a behaviour takes one of them.

### OrderBook and Exchange

A book is a function from levels (side, price) to quantities (0 is absent), an
id and `valid`. `ApplyLevels` sets the absolute quantities a message names, as
`apply_levels` does; after a load or an apply the book is valid exactly when
it is not crossed (`is_uncrossed`). Prices and quantities are the small integers
the parser's ticks and lots are.

The exchange is a history `History[id]` of book contents. A genuine message
(U, u, pu) names every level that moved between pu and u with its quantity at
u; a snapshot is the content at some id, cut below `SnapshotDepth` levels per side.
This is what Binance documents and what the synchronizer relies on; nothing else
is assumed about the venue.

### DepthSync

Each member function is an operator from the synchronizer before the call to
the one after (`OnDepth`, `BeginResync`, ...), with the code's state, buffer,
flags and result, so that the live collector and the replayer share it. The loops of
`on_snapshot` are `DrainStep`, one buffered event at a time, while `draining`
stands for "the function has not returned". `DepthSync!Spec` lets anyone call any function at
any time with any genuine message or snapshot, which covers loss, duplication
and reordering of everything. One exception, which the code respects:
`begin_resync` is not called on a closed connection.

### Collector

One action per piece of work between two points where another thread can see a
difference: a log write, a critical section of `sync_mutex`, an access of
`snapshot_requested`. `dpc` and `mpc` are where the depth and main threads are;
`mutex` is held between the steps of a critical section that makes more than one
call. The thread is `connecting`, in `read` or `closing` while it is in a synchronous call on its
socket; each of these ends in actions of its own (`DepthConnected`, `DepthConnectFails`, `DepthReceive`...,
`DepthLeavesRead`, `DepthClosed`), and `stop` is looked at only where the code does, at the head of the two loops
(`DepthConnect`, `LoopHead`). The faults are named by kind: a connection that fails or ends, a message
lost on the way (`skip`), a malformed payload, a failed REST call, a write that
throws (with or without the record staying in the block), a failed flush, the trade
thread's death. `Signal` may come at any time.

### Replayer and Replay

`Replayer` has an operator per kind of record of the depth stream; a snapshot is installed and
drained in one step. In `Replay` the replayer, a function of the log, runs in step with the collector:
`replay` is what reading the log would give if it ended here. Every state thus
also covers the crash of the collector at that point. `orderly` remembers whether the log has kept
the order of the calls and every record in it was used.

### RawWriter

Every call of the writer is one step, since it runs under the writer's mutex; an
operator from a call to the *set of its outcomes* stands for each function, with
`threw` telling whether an exception left it. Blocks move from `block` to the
stream's buffer (`buffered`) to the file. A failed stream stays failed until
the next open, as an ofstream does. `Crash` loses `block`, lets any prefix
of the buffered blocks reach the file, and may tear the next. `Restart` starts
a new process in the same directory. `Accepts`, `Readable`, `HasInstrument`,
`Replays` are the reader's view of any list of these files.

### ResearchGrid

The replay loop calls the exporter around every record: `AdvanceBefore` writes the grid
points before the record's stamp, `Apply` is the record taking effect, `SampleExact` writes
the point at the stamp, `EndOfLog`, `FinishAt` and `Close` carry the last book to the end of
the range. `WriteSample` is the whole of `write_sample`: the pruning of the window, the row,
the count of invalid intervals, the early return for an invalid book. Of the book a
row shows only how many records made it and whether it was live, which is all that
look-ahead can be about. Stamps come in any order among the threads, since they are
taken before the writer orders the records; those of the trade thread do not step back.
The properties compare the rows with what the log alone says (`Known`, `Recent`, `Passed`).

### ReplayObserver, NativeDataset, QueueSensitivity, LevelLifecycle, NativeReplay

Each observer is a record of its members and each callback an operator on it. `NativeReplay` has one
action per kind of record, which is `on_record` with every callback that it makes: before the
record, for it, and after it. The three observers are attached side by side, which is what three
replays of the same files give.

`NativeDataset` keeps the control of the exporter: rows wait until the future they are labelled with has
been seen, behind a deadline cached in each and one over all of them; fills, races, adverse moves and
post-fill marks are settled as records come. `QueueSensitivity` places the same hypothetical orders
under every pair (alpha, beta) of queue assumptions and writes the path of the mid. `LevelLifecycle`
keeps the episode of each best price from changes of the book and prints. No property looks at one of them alone.
Segments, instants and events of one must be what the outputs of another
say, with the lookups of the studies (`MidAt`, `MovesAfter`, `ForwardRows`) in between.

### HourCache

A file is a sequence of pieces, each the edition of the object it came from, so that truncated, resumed and
spliced files are different values. One action per point at which the process can die: the choice of a range,
the answer, each piece, the end of the body, the rename, the decompression, the sidecar. The server may refuse a
range, send no length, end a body early or publish a new edition.

### HistoricalL2

`discover_snapshot` chooses an initial snapshot among the hourly files, `audit_continuity` counts what
follows it, and the packer decides message by message which records the raw file gets. The replayer is
fed with every record as it is packed, which is what makes the packer's three states checkable: each stands for
states of a synchronizer that the packer does not run. Messages come in the order of their ordering key; snapshots
and updates are any subset and sequence of a small venue's.

### PassiveQueue

`AddTrade` and `Finalize` build the index; `EvaluateSide` is `evaluate_side` with its searches:
the segment tree for a trade through the price, the running sums for the trades at it.
The tree is built and searched node by node as in the code (`Tree`, `FirstThrough`), with the
interval that `first_satisfying_impl` hands down to a node in `Below`.
`Sequential` is the rule the tests describe, watching the trades go by one at a time, and does
not mention the index. Exchange times are carried along by the code and are shown by the
ordinal of their trade.

### ExecutionEngine

One action per way a signal can go: excluded for one of four reasons, in the order
of the code's `continue`s, or traded, with the signals skipped by `searchsorted`. The day, its
signals, latency and horizon are chosen by `EInit`. `FeatureSegment` is the renumbering of
`compute_features`. Prices are ticks and quantities steps, so the fills' 1e-12 tolerances
do not appear. The levels of a valid row are sorted (`EngineAssumption`): `walk_visible_book` ends the run
with an error if they are not (`engine.py:119-122`).

### MarketMaker

A row of the schedule comes with its fate, any that the exporter can label an order with (`Fates`,
`FillStatus`): the loop processes the fills due before the row, asks whether the side is free and the limits
allow the quote, and places it. Obi values are three cases of the threshold comparison; the selection
column is one of three kinds. At the end the heap is drained and the rest liquidated.

### RoundTrips

A probe is its decision row and the full fill its label tells; `Enter`, `Discard` (the cancel), `Target`
(the row after the holding time or the first row out of the tail) and `Pair` are the four array passes of the code, on
one entry at a time, since no pass mixes entries. Two clocks, exchange and local, differ by up to `MaxDelay`.

### PassiveStudy and SingleUse

A file is the versions of everything it was made from, which also stands for its hash. A command takes its
tasks in order, and may die between any two files it writes (and inside the one that a write truncates
first); between commands the code, the binary, the model or the features may change. `SingleUse` is the same for the three
stages of a trial with receipts.

## 3. Runs

All bounds are constants of the modules; nothing is cut by a constraint.

| run | question | bounds | result |
|---|---|---|---|
| `synchronizer` | is a live book always the exchange's book, whatever arrives? does the synchronizer implement `MirroredBook`? do the native observers of one capture agree with each other? | 3 prices, 5 ids, buffer of 2, snapshots cut to one level a side; 3 records after the 4 that open a segment, stamps -1, 1 or 3 apart | holds; outside the window of the snapshot a level may be missing, never wrong |
| `native_segments` | ... also if the venue repeats an update? | 2 records, with repeats | **violated**, finding 6 |
| `collector_replay` | is a request ever lost, a book or snapshot kept past its connection? is the replayer ever live on a wrong or foreign book? does an orderly log reproduce the collector's book? | 3 messages, 2 faults of 8 kinds, buffer of 2, every prefix of every log | holds |
| `collector_progress` | is every step of the threads a step of `DepthSync`? do waits end? does a stop end the process? | 3 messages, 1 fault of any kind, `Fairness`; for the stop, `SocketsReturn` | holds |
| `replay_reconnect` | does an orderly log reproduce the book after a reconnect, too? | log order = call order, 1 disconnect, buffer of 3 | **violated**, finding 1 |
| `raw_writer` | rotation, crash, restart, manifests, chains | 3 buckets, 3 records a run, 2 runs, blocks of 2 records, 1 failure of 4 kinds | holds |
| `raw_writer_flush` | ... and if the last flush of a file fails? | 1 run, 1 flush failure | **violated**, finding 2 |
| `historical` | is a cached hour whole? is the packer's state the replayer's, and a clean audit right? are the days of a study whole, its holdout opened once, its receipts true? | objects of 2 pieces, 2 attempts, 3 faults; 4 updates up to 4 read, up to 3 snapshots of 4 ids, 2 hours; 4 days, 2 edits, 1 crash; 3 versions, 2 deaths | holds |
| `cache_resume` | is a broken download always finished in the end? | the same hours | **violated**, finding 4 |
| `research` | does the grid look ahead, does the index answer as a sequential reading would, do positions and round trips keep to what could be done, do a maker's limits hold? | see below | holds |
| `execution_horizon` | is a position entered before it is left? | latency of 50 ms, horizon of 100 ms | **violated**, finding 3 |
| `maker_partials` | is every partial fill counted? | orders of 2 lots, schedule of 3 rows | **violated**, finding 5 |

`historical` and `research` hold the programs of one path side by side (`looked_at`, `program`); a behaviour runs
one and leaves the others before their first step, since each starts from files the one before it has finished.
`synchronizer` does the same with the bare synchronizer and the replay (`driven_by`).

### Why the bounds are enough

* `MCVenue` moves the best bid up and back, puts an ask inside the spread and takes it out,
  and changes sizes, so that skipping, repeating or misaligning any message leaves a
  phantom level, a missing one or a wrong quantity. Messages may span several ids.
* A buffer of two overflows, and can hold a stale event before an aligning one
  and a gap behind it: every branch of both loops of `on_snapshot` that the code
  can reach is taken. (Two branches cannot be reached: `depth_sync.cpp:68-71`
  repeats the negation of the two tests before it.)
* Three messages and two faults allow a reconnect during a REST call followed by
  a second fault, a gap followed by a failed snapshot, and a storage failure in each callback.
* A snapshot of one level a side is the hardest cut; the collector's and the replayer's runs
  use snapshots deeper than the book, so both are covered.
* Native observers: the capture opens with the trade stream, the depth stream, a snapshot and its first update, so
  that all three records that follow are free. Three are enough for a fill at or through a quote, a move of the mid, a step in
  time past every deadline and a stamp that steps back, in any order; `TouchHistory` adds to and takes from both sides of
  the touch before it moves. The horizon of a fill (6) is longer than its last mark (5) and than the wait for the post-fill mark, so that
  a deadline that a fill adds is the next one due. Agreement about instants is only claimed where the
  stamps increase; `MarkoutsAreForwardRows` is claimed of all of them.
* Three buckets give a file with a predecessor and a successor; two runs give a name
  collision and a foreign file in a chain; three records with blocks of two give a block that
  is full and one that is flushed part full. Chains of up to three files are tried,
  repetitions and any order included.
* Hours: two pieces can be cut, resumed and spliced from two editions; three faults are a death, a refusal and a
  cut in one download. Messages: four updates with a lost, a repeated or a late one among them, and snapshots inside, between and ahead of
  them, take the packer through each of its states twice and through a covered gap with two deferred updates.
* Study: one day to a stage and a second in development, which stage A does not use; two edits are a change and the change
  back. A crash can hit any file of any command. Trial: an edit before and after each stage, and a death in two of them.
* Grid: three records with stamps from before the start to the end of the range (1 to 9, interval 2, window 3)
  give points before, at and after a record, records older than the one before them, an
  interval of invalid rows that ends and another that begins, and trades at the edge of the window.
* Queue: three trades of 14 kinds need three levels of the segment tree with a neutral leaf; two prices and a
  bound of 6 lots let sums be reached exactly, passed by one, and refused by `Finalize`. An order's life
  opens and closes before, at and after every trade.
* Engine: four rows of 4 kinds, latencies of 0, 50 and 100 ms and horizons of one and two rows hold positions back
  to back with a signal at every row between, and a gap between the rows that are looked at.
* Maker: with two lots to an order and limits of three, one fill on either side decides whether the next quote is permitted; three rows
  leave an order of each side resting while a third is decided on.
* Round trips: four rows, holding times of none and one row, a delay of half a row: an entry, a gap or a change of segment, a cancel
  that just comes too late, and an exit fit in.

### Fairness

`Fairness` of `Collector` is the scheduler's: a thread that can run does (weak fairness of the depth thread's
and the main thread's own steps), and the REST call returns or throws, since curl has a timeout of 15 s
(`rest_client.cpp:41`). It forces no call on a socket to return. The depth and trade threads connect, read and
close synchronously (`websocket_client.cpp:98-112`, `121`, `146`); the timeouts and keep-alive pings set at `:99` and `:103-108` serve
asynchronous operations of a running `io_context`, which there is not, and no other thread closes the socket. On a connection whose
other end has gone silent without closing it, such a call need not return, and a stop is not seen. Hence
`StopEnds == SocketsReturn => (stop ~> mpc = "done")`, whose antecedent says that after a stop neither thread stays
in a socket call for ever. Without it TLC finds `stop ~> mpc = "done"` violated by a run in which one
of the threads stays in such a call with `stop` set: there the program differs from `research/archive/docs/raw_file_rotation.md:150`, by which SIGINT and SIGTERM stop
ingest, finalize the files and exit 0. What `StopEnds` shows is that nothing else keeps the process: not the mutex,
a snapshot under way, a drain, a resync, a callback that throws or a reconnect. Losing a connection,
publishing, signals and the end of the configured duration are never forced. Faults run out (`MaxFaults`), which is the
assumption that the venue and the disk are not broken for ever. `sync_mutex` needs
only weak fairness: its holders release it after finitely many steps and the other threads'
requests for it are not starved within these bounds.

`HourCache` has `WF(Step)`: the command goes on while its process lives and is run again when it does not, as its user does.
`SteadyServer` is, like `SocketsReturn`, an antecedent of liveness properties, not a fairness: the object keeps its edition, and its length is sent.

`CHECK_DEADLOCK FALSE` appears where the program really ends: a finished replay of a capture (`synchronizer`, `native_segments`), the
exited process of `RawWriter`, a cached hour, a packed file, a study or trial with nothing left to do (`historical`, `cache_resume`), the
research programs and the maker's day. The collector's end is an explicit stuttering step (`Exited`), so
a deadlock among mutex, join and flag would be reported.

### Findings

1. **Replay after a reconnect** (`replay_reconnect`). The collector discards a
   snapshot that was requested for a connection since closed
   (`capture_main.cpp:448`), but it is in the log, after the new `ConnectionOpen`. The
   replayer installs it. It stays safe (`ReplayLiveIsExchangeBook`), but it has left the buffering
   state, and when the second snapshot comes, the events it would align on are gone:
   the collector is live, the replayer is not. The comment at
   `event_replayer.cpp:196-198` says the transition is the one used live.
2. **A failed flush at rotation hides records** (`raw_writer_flush`).
   `close_segment_locked` sets `open_` to false and throws when the stream has failed, before the
   hook and before `previous_file_` is moved on. The next file's manifest names the file
   *before* the damaged one, and `validate_raw_chain` accepts the list
   that skips it, although the tests require that a broken chain fails loudly.
3. **A position that is left where it was entered** (`execution_horizon`). The frozen
   specification rejects a latency that is not below the horizon, and rounds latencies up to rows.
   `run_day` compares before it rounds (`engine.py:204`), so the baseline latency of 50 ms
   with the diagnostic horizon of 100 ms trades at one and the same row.
4. **A download that is never finished** (`cache_resume`). A process that dies between the last byte and the rename
   leaves a `.part` file that is the whole object. Every later run asks for the bytes behind its end, and 416 is not among the
   statuses that `download` retries or recovers from (`cryptohftdata.py:163`). It raises until somebody deletes the file.
   In every other case the download ends (`ResumedDownloadsFinishOrWait`).
5. **Partial fills that are dropped** (`maker_partials`). The specification prohibits ignoring partial fills and leaves out
   orders invalid at their placement. The exporter labels an order that a later snapshot cuts short `partial_invalid_snapshot`, and
   `simulate_schedule` (`continuous_mm.py:176`) takes it for one that was invalid at the placement: its fill does not reach the inventory,
   and whether the order is placed depends on a snapshot that comes later.
6. **Segments that are counted apart** (`native_segments`). The dataset exporter ends its segment at every depth event
   that was not applied (`native_dataset_exporter.cpp:855`), a stale one included, on which the book stays live, and opens the next one at the same stamp. The level
   and queue observers go on. From then on their segment numbers differ while the studies join on them, and a level
   episode ends after "its" segment, which `queue_tail/data.py:163` rules out. It takes a venue that repeats an
   update, which `research/archive/docs/binance_l2_protocol.md:90` expects ("Stale/duplicate events ... are ignored").

Seen while reading, and checked by no run:

* `instrument_from_raw_files` (`event_replayer.cpp:92-119`) takes the metadata from any file of the
  list, while `research/archive/docs/raw_file_rotation.md:84-85` says that without manifests the *first* file must contain it.
* `OnlyGapsBlock` of `HistoricalL2`: a snapshot older than the anchor it replaces, which comes in while the packer waits for the
  bridging update, anchors the packer but not the audit, so a clean audit may not replay to the end; `historical/cli.py:346-351` blames
  genuine gaps. `CleanAuditReplays`, which is checked and proved, excludes this case by a history variable, `in_order`. That no snapshot is older
  than the *selected* one is not enough: of the snapshots 1, 4 and again 1 the last leads the packer back behind the second.
* A command of the passive study that dies between FROZEN_SPEC and its sidecar makes every later command refuse to run
  (`passive/pipeline.py:469-470`; `execution/pipeline.py` has the same). This is safe, and needs a person.
* A trial that dies before its receipt is written can be made again, single use or not.
* When the stamps step back, a late trade can fill a row whose horizon is already settled: `fill_flag` is 0 and `postfill` 0.0 next to a
  fill time. Tied stamps make the exporter and the mid path disagree about the mid of an instant. Exporter and
  studies censor differently at the last instant of a segment that something other than the end of input closed (`Saw`).
* The C++ buffer restarts after 100000 events, the Python packer's does not.

### Mutants

Each property of a passing run has a mutant: an operator next to the definition it
changes, marked as one, that is a plausible slip (the flag reset where the request
is served, `previous_file_` not moved on, an unconditional apply, a deadline not refreshed, ...). With it in
place TLC finds the property violated under the run's own configuration.

## 4. Proofs

`DepthSyncProofs` proves for every set of prices and quantities, every
exchange history, every snapshot depth and every buffer size:

| theorem | property |
|---|---|
| `SyncInvariant` | `Spec => []SyncInv(ds)` |
| `TypeCorrect` | `[]TypeOK` |
| `LiveBookCorrect` | `[]LiveBookIsExchangeBook` |
| `BufferCorrect` | `[]BufferDiscipline` |
| `Refinement` | `Spec => KeepsPromise` (DepthSync implements MirroredBook) |

*Assumptions.* `BookAssumption`, `ExchangeAssumption` and `BufferAssumption`:
prices and quantities are natural numbers, the history is a function from ids to
contents, the buffer holds at least one event. TLC evaluates them in every run.

*The argument.* `LiveBookIsExchangeBook` is not inductive: a book becomes live from
`Syncing`, and during the drain it is live with events still in the buffer. `SyncInv`
adds that a book being aligned already mirrors the exchange, at the snapshot's id until
the first event is applied; that `draining` implies `Syncing` or `Live`; and that outside the
drain these two states have an empty buffer. The heart is `ApplyKeepsMirror`: a book that mirrors
the exchange at an id between pu and u still mirrors it, at u, after the message is
applied, because the levels the message leaves out did not move between pu and u.
`ApplyFirstEvent` (U <= S <= u) and `ApplyContiguousEvent` (pu = last id) are exactly the cases in
which its condition is met. The lemmas are stated over a synchronizer, not over the
variable `ds`, so that the collector and the replayer can use them.

`CollectorProofs` proves, again for every value of the constants and every number and
kind of faults, about the three threads:

| theorem | property |
|---|---|
| `CollectorInvariant` | `CSpec => []CollInv` |
| `CollectorTypes` | types, and the mutex is held exactly by the thread in a critical section |
| `CallsAreLegal` | `CSpec => OnlyLegalCalls`: what the threads do to the synchronizer is a behaviour of `DepthSync` |
| `CollectorLiveBook`, `CollectorRefinement` | `[]LiveBookIsExchangeBook` and `KeepsPromise` for the collector, from the theorems above |
| `RequestsAreKept` | `[]SnapshotRequestNotLost` |
| `SnapshotsAreFresh` | `[]SnapshotOfThisConnection` |
| `LiveBooksAreConnected` | `[]LiveBookHasConnection` |

*Assumption.* `CollectorAssumption`: the feed is a sequence of genuine messages with growing ids,
the bounds are natural numbers, the faults are of the kinds listed.

*The argument.* `CollInv` joins `SyncInv` and the types to three facts about the threads.
`Control`: main is in the drain loop exactly while the synchronizer is `draining`, and the two
threads are never in their critical sections together. `Sessions`: `current_depth_session` is set exactly
while the synchronizer is connected, and tells where the depth thread can be. `Bases`: a snapshot in
hand for the open connection is not older than its opening, and none was requested for one that is still being made. `LegalStep` shows from `CollInv` that each
step of each thread is a call that `DepthSync` allows or leaves the synchronizer alone, so `SyncInv`
is preserved by the lemma of `DepthSyncProofs` and only the facts about threads remain
(`DepthPreserves`, `MainPreserves`, `OthersPreserve`, one step per action).

`ResearchProofs` proves about the exporter, for every interval, window, range, bound and log:

| theorem | property |
|---|---|
| `GridInvariant` | `GSpec => []GridInv` |
| `RowsDoNotLookAhead` | `[]NoLookAhead` |
| `RowVolumesAreRecent` | `[]VolumesAreRecent` |
| `RowsAreThePoints` | `[]RowsAreTheGrid` |

*Assumptions.* `GridAssumption`: interval and window are positive, the range is not empty. Stamps are
in any order, except that the model lets no trade be older than the trade before it (one thread, a clock that
does not step back); `TradesAreOrdered` states it, and only the window's sums need it.

*The argument.* What a row knows is defined on the log as it is now (`Known`), so the invariant must say that
later records change nothing. `RowsAreKnown`: a row stops at the first record with its stamp or
a later one, or at the end of the log; and in the second case the grid has passed it (`GridIsAhead`: the
grid is past every record dealt with, or at the end), so the next record to be read stops it. `WindowIsKept`
says of the sums, which the code updates by addition and subtraction, that they are the number of trades
applied and not older than the last pruning; `PruneEffect` and the lemmas about
counting show it for a removal, `OnTrade` for an insertion. Since the trades are ordered, the
queue's front is always the oldest, so that stopping at the first recent one is enough.

About the passive queue it proves, for every file of trades and every order:

| theorem | property |
|---|---|
| `IndexAnswersAsWatched` | `PSpec => []EvaluationIsSequential` |

*Assumption.* `PassiveAssumption`: the bounds are natural numbers, and the rows are those `add_trade` accepts, with a known
side, a positive price and quantity, and a time, within the bounds.

*The argument.* `IndexInv`: the trades of a side are numbered in the order of the file; as long as no
regression was counted, their times are in that order too; and a finalized index has the trees of its trades and no regression.
So the binary searches stop where they should (`UpperFinds`, `LowerFinds`), among all trades and among
those at the quote alike, and `Exact` is counted by a walk over all trades (`ExactCounts`), which maps places in the one array to
places in the other (`CountBefore`). For the tree, the number of leaves is doubled from 1 (`LeavesEnough`), so
every node has an interval that can be halved down to its leaves (`NodeSpans`); its price is beyond a quote exactly
when the price of one of its leaves is (`TreeBeyond`); and by induction from the leaves up the search of a node finds
the first such leaf (`FirstThroughFinds`). The recursions run over heap indices, from large to small or from the root
down: `RankedRecursion` says that such functions exist. The other side of the equation is a walk. `Picture` says what is known of an order that is not full
once some lots traded at its quote, and `WatchedInLife` that after every trade of its life the picture is the one the running sums give.
Then the walk stops in one of three ways, and in each the answer of `evaluate_side` is what was
watched: at a trade through the quote (`FilledThrough`), at the trade at the quote that completes the order
(`FilledExactly`), or at the end of the order's life (`NotFilled`). Ties in time are decided by the number in the file, so
"earlier" means "before" in the array (`EarlierIsBefore`); with the time alone the cases could not be told apart.
That the rows are the grid needs a second invariant, `PointsInv`. The points that ought to have a row are counted from the first record (`Passed`), the code
computes the first of them once and then adds the interval: `GridBegins` and the lemmas on division (`NextPoint`, `FirstSampleIs`) show that
these are the same points. `PointsAreDealtWith` says that each point passed has its row or was left out when its book was invalid, and that
this book is the one the log shows (`LiveAfter`), which later records do not change (`LeftOutStays`).

`ReplayProofs` proves about the replay of the collector's log, for every exchange and feed, and any interleaving, faults and
point at which the log is cut:

| theorem | property |
|---|---|
| `ReplayInvariant` | `RSpec => []ReplayInv` |
| `ReplayLiveIsExchange` | `[]ReplayLiveIsExchangeBook` |
| `FidelityInvariant` | `RSpec => []FidelityInv` |
| `OrderlyLogReproduces` | `[]OrderlyLogReproducesCapture` |

*Assumptions.* Those of the collector.

*The argument.* The replayer runs `on_snapshot` to its end in one step, which the model computes with a recursive function
over the turns of the loops. `Turns` and `LoopsEnd` say that it is what one turn after the other gives, and that the buffer shrinks
until the loops end; an induction over the turns then carries `SyncInv`, proved for single turns in
`DepthSyncProofs`, over to the replayer (`ReturnOp`). `ReplayInv` adds that nothing the replayer has is older than the connection.
Fidelity needs to know what is in flight, because a record is in the log before, or after, the call it stands for has returned:
`Matches` compares the replayer with `InFlight`, the collector's synchronizer as it will be when the calls under way have returned, main's
first. They are the same up to what neither reads again (`Same`). `Requests` excludes, as long as the log is
orderly, a second snapshot for one need, which is where the two would part (finding 1).

`RawWriterProofs` proves about the files, for every size of blocks, number of records, of runs, of crashes and of failures:

| theorem | property | under |
|---|---|---|
| `DiskInvariant` | `WSpec => []DiskInv`, the types | |
| `CaptureStays` | `WSpec => CaptureIsNeverRewritten` | |
| `StreamInvariant` | `WSpec => []StreamInv` | no `flush` failure |
| `RunsAreWhole` | `[]RunsHaveNoHoles` | no `flush` failure |
| `RotationIsABoundary` | `[]RotationKeepsTheStream` | no `flush` failure |
| `ManifestsTellTheTruth` | `[]ManifestsAreTrue` | no `flush` failure |
| `AcceptedChains` | `[]AcceptedChainHasNoHole` | no `flush` failure |
| `CleanExits` | `[]CleanExitIsComplete` | no `flush` failure |

*Assumptions.* Those of the module, and for the theorems so marked `"flush" \notin FaultKinds`: a flush of the stream while a file is closed does not fail.
It is a hypothesis of those theorems and not of the module, and it cannot be dropped: finding 2 (`raw_writer_flush`) is the
counterexample without it. All other failures, and crashes at any point, are covered.

*The argument.* The files of a run are a chain: a sequence of paths with cuts, such that the n-th file has the records after the
n-1-st cut up to the n-th (`Chain`). `Writes` says where the writer is in the chain: what is in the stream's buffer and then in
`block_` is what comes after the last cut, or the stream has failed and the block that failed is kept and never passed. `Rest` says it of the earlier
runs, whose files do not change any more, and of what a manifest claims (`Told`); `Entrusted` says that every closed file has a
manifest, is about to get one, or is a failure, from which the clean exit follows. Each function of the writer has a lemma that lists what it
can return (`...Outcomes`) and one that it keeps the invariant (`...Good`), and they are composed as the functions call each other. That an accepted list
follows the chain is an induction over the list (`AcceptedIsChain`), for lists of any length; the property asks it of those TLC tries, of up to three files.

`HistoricalProofs` proves about what is kept in files by programs that die and are run again, and about the packed files of the historical path:

| theorem | property |
|---|---|
| `HourIsWhole` | `HCSpec => []CachedHourIsWhole` |
| `StudyInvariant` | `SSpec => []SInv` |
| `AnalysedDaysWhole` | `[]AnalysedDaysAreWhole` |
| `HoldoutOpenedFirst` | `[]HoldoutIsOpenedFirst` |
| `FrozenModelUsed` | `[]LaterStagesUseTheFrozenModel` |
| `ReceiptsTrue` | `USpec => []ReceiptsStayTrue` |
| `PackerTracks` | `HSpec => []PackerTracksReplay`, under `AlwaysQuoted` and `RoomForAll` |
| `CleanAuditBorneOut` | `HSpec => []CleanAuditReplays`, under these and `NoSnapshotInAHole` |
| `PackedStamps` | `HSpec => PackedStampsAdvance`, if nothing was received at nanosecond 0 |

*Assumptions.* An object has at least one piece; the stages of the study have different days, and stage A repeats days of development
(`StudyAssumption`). Pieces, attempts, days, edits, crashes and versions are any number. So are the levels, ids, updates and snapshots of the
vendor, their number and their stamps. What the packer needs of the venue is stated as hypotheses of its theorems, defined in `HistoricalL2`,
which the small instance meets (`MCHypotheses` of `MCHistorical`, evaluated by TLC):

* `AlwaysQuoted`: a book that mirrors the exchange in the window of its snapshot has two sides that do not cross. With few levels to a side the updates may empty one,
  and the replayer drops the book while the packer, which looks at ids only, takes it for live.
* `RoomForAll`: the synchronizer's buffer (100000 events) holds the updates of the stream. When it is full it starts again, and the packer's does not.
* `NoSnapshotInAHole`: no update leaves out the id of a snapshot it passes. Otherwise TLC finds a stream that the audit takes for
  contiguous because it compares `pu` with the last `u`, while the packer, anchored by the snapshot, takes the same update for a gap.
* The file opens at nanosecond 1 at the earliest (`BaseTime`), so a snapshot received at 0 would be stamped before the opening.

*The argument.* For the study the tasks that a command still has to do are part of the invariant. A command's tasks are in a fixed order
(`Fits`, from the lemmas about joining them), and what a task makes sure of holds once it is off the list: the specification is
valid after `validate`, the audit is there after `open`, and a day that is no longer to be built is as its
manifest says (`Built`), which is made in one go because a manifest is written last (`AtHand`). An edit can only break `FrozenIsValid` between commands.
`Freezing` needs one fact that no property shows: a development command past its freeze task has left a frozen specification. A trial's
invariant (`UInv`) says what the running stage was let in for, and that all it has written is of the version at hand.

*The argument for the packer.* What it holds back is part of the invariant: `L2Inv` says that the replayer is where the packer's locals say
(`Tracks`), a live one before the first deferred update, and that the deferred updates follow one another up to `previous_u` (`Held`). Each branch of the packer has a lemma
(`...Leads`) that the records it writes lead the replayer from there to where its new locals say. The difficult one is a snapshot that meets a
buffer: the packer walks its list once, the synchronizer goes through the loops of `on_snapshot`, with turns of its own. `Pictured` and
`SnapshotAsPictured` give the state after each turn in terms of the packer's walk (`Realigned`), by an induction over the turns with the loop lemmas of `DepthSyncProofs`, and
`RealignLeads` follows. A close that gates a covered gap is followed by records that the replayer reads as a new connection, and the packer's
pending snapshot as its first (`CoveredGapLeads`).
The stamps do not need the replayer: `OrderInv` says that messages come in the order of their keys and none is behind the cursor, `StampInv` that what is held back
lies between the last record and the cursor. A clean audit needs both machines side by side: as long as the audit has seen no break
and snapshots come in order, the packer is live at the audit's last update, or waits for the bridge of an anchor that is later (`CleanInv`, `Agree`).

`TradingProofs` proves about the market maker, for every quantity, pair of limits, lifetime and schedule, with any
fates and any selector, about the taker, for every frame, latency, horizon and notional, and about the
round trips of the searches, for every day, step, holding time, latency and delay:

| theorem | property |
|---|---|
| `MakerInvariant` | `MSpec => []MInv` |
| `HardLimitIsNeverBreached` | `[]HardLimitHolds` |
| `OneActiveOrderPerSide` | `[]OneOrderPerSide`, the specification's "one_active_order_per_side" |
| `DecisionsKnowOnlyThePast` | `[]DecisionsKnowThePast` |
| `EngineInvariant` | `ESpec => []EInv` |
| `SignalsHaveOneFate` | `[]SignalsAccountedFor` |
| `OnePositionAtATime` | `[]PositionsDoNotOverlap` |
| `TradesKeepToSegment` | `[]TradesStayInSegment` |
| `LegsAreBest` | `[]LegsAreBestPrice` |
| `TripsCouldBeMade` | `TSpec => []ValidTripsAreCausal` |

*Assumptions.* `MakerAssumption`: quantity, limits and lifetime are positive whole numbers. `EngineAssumption`: horizons are whole rows, a
valid row has two sides with sorted levels. `RoundTripAssumption`: a day has a row, rows are apart in time, the exit on the signal waits at least a row.

*The argument for the maker.* The limit is checked when a quote is placed, and the inventory changes afterwards, by fills of
both sides in any order. `MInv` therefore says that a side has at most one fill to come, before its order ends
(`OnePending`), and that the inventory keeps the limits with that fill added even if the other side never fills (`Room`); a fill of the other side
only moves it the safe way. The point of difficulty is that a decision is only made when no due fill is on top of the heap, which says nothing
of what lies below: `DecidedLater` shows that, as there are at most two fills, none of them is due. So a free side has none
(`FreeSideHasNoFill`), since the order it had has ended. For one order a side, `OrdersEnd` ties the end of every placed order
to the time the side becomes free. What a decision knows is a sum over all orders placed so far. `PastInv` divides these into orders that are
outstanding (the last of a side with a fill to come) and those that are settled; the inventory is the sum over the settled ones (`Balanced`), whose fills are not later
than the row (`SettledIsPast`), while the outstanding ones are later at a decision.

*The argument for the taker.* `EInv` says that the counters add up with the signals that are left, that every trade made is one that the exclusions
let through (`SoundTrades`), and that the signals left come after the last exit (`SignalsWait`). The loop compares the numbers of the segment in
three rows, the property speaks of every row between: since `FeatureSegment` counts the starts of runs, equal numbers mean that no run starts
in between, and then every row between is valid and of one book (`OneRun`). That the greedy walk is the best price is the exchange argument: of any other way to
take the quantity, what it takes of deeper levels can be moved to the level at hand without loss (`Slide`, `BothTake`), level by level (`WalkIsCheapest`, `WalkIsDearest`).

*The argument for the round trips.* `TripInv` says what a pair is made of: an entry that survived its cancel, the exit row its fill leads to,
and a probe of that row. The code compares the run numbers of three rows and looks for the first row out of the tail without regard to runs. Equal numbers mean that
the book was never lost between the rows (`RunIsUnbroken`) and the other way round (`UnbrokenIsRun`), so the search cannot have passed
over an exit of the run it is in (`FirstOutIs`, `ExitIs`), and the row it takes is one where the fill was known (`RowFromIs`).

`Induction` has what these proofs use for loops and recursive functions. The library's induction theorems have an operator as a parameter, so it states
induction for sets of numbers (`NumbersInduct`), the iterates of a function (`Iterate`), that a recursive function on 0 .. n
exists and obeys its rule (`Recursion`), the same where the values of each turn have a set of their own (`FoldThrough`) or where a value depends on those of lower rank (`RankedRecursion`), each from well-foundedness of the natural numbers.

*What stays with TLC.* Liveness (`SnapshotServed`, `StopEnds`, `ResumedDownloadsFinishOrWait`): fairness and ENABLED are
outside the prover. The agreement of the observers in `NativeReplay` (`LabelsAreTheMidPath`, `FillsAgreeWithQueueStudy`,
`EpisodesAreTheTouch`) compares queues, rows and episodes that several observers keep with folds and selections over sequences
(`FoldLeft`, `SelectSeq`): what those compute for every length is an induction over data for each of them. The rest of the safety properties are proved.

## 5. Not modelled

* The numeric parts: features, regressions, gradient boosting, the TCN, cost layers, reports. They are
  floating-point formulas over arrays without a state machine, and most of the Python.
* The feature columns of the native dataset and their trailing windows; the placement of hypothetical orders at the
  birth of a level; counters and extremes of an episode.
* Tardis adapters and exporters, cross-stream timing, `execution/pipeline.py` (its freeze has the shape of `PassiveStudy`).
* JSON, CSV, Parquet, sqlite, zstd, gzip, SHA-256, TLS, sockets and option parsing: I/O and encodings, abstracted to
  "genuine message or rejected", "block whole or torn", "one edition, whole or not", "connected or not". That
  an hour which is cut or spliced is refused is an assumption about zstd (`cryptohftdata.py:188`): `ParquetFile` (`:191`)
  reads no more than the footer.
* Changes to thresholds and features between the commands of the passive study: `LaterStagesUseTheFrozenModel` follows
  the probe binary and the models.
* Statistics counters, and with them the delta counters and update ids in manifests, and `valid_research_ns` of the
  dataset exporter, which wraps round if an older record closes a segment (`native_dataset_exporter.cpp:268`).
* The loss of the page cache in a power failure: `RawWriter` lets the process die, not the machine.
* The columns of a row other than its time, version, validity and volumes; P&L columns of a trade.
* A wall clock that steps back under the trade thread: the exporter's window would then hold old trades behind
  newer ones, and no document promises otherwise.
* The fixed-path mode of the writer, which is one segment of the rotating one without manifests.

## 6. Plan

1. *Done:* all modules of section 2, with the proofs of section 4.
2. *Next modules, in this order.* The trailing windows of the dataset exporter (`push_contribution`, `prune_windows`),
   which assume sorted stamps; the placement at a level's birth; `TardisReplay` (the two grouping rules side
   by side); the counters and update ids of manifests in `RawWriter`; the freeze of `execution/pipeline.py` as another
   instance of `PassiveStudy`'s; the matching of cross-stream timing.
3. *Next abstract specifications.* A capture log as a sequence that is only appended to, which
   `RawWriter` implements; a book that a reader sees at grid times, which `ResearchGrid` implements.
4. *Next theorems.* `NativeReplay`: first the segments of the three observers, with their selections
   rewritten as recursive functions, as `HistoricalL2` did for its walks.
