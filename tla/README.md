# Formal models of the FIX 4.2 dashboard

TLA+ models of the parts of this repository whose correctness depends on order, timing or failure,
checked with TLC and, for spool, order cache, batcher, basket OMS, AMPS feed, multi-OMS blotter,
market data demo and collector, proved with TLAPS. Every definition is written from the source under
`src/`; `PROJECT.json` maps each one to the lines it stands for.

Contents: [1 the system](#1-the-system) · [2 the modules](#2-the-modules) ·
[3 spool](#3-the-spool) · [4 order cache](#4-the-order-cache) · [5 batcher](#5-the-row-batcher) ·
[6 lifecycle](#6-the-connector-lifecycle) · [7 basket OMS](#7-the-basket-oms) ·
[8 AMPS feed](#8-the-amps-feed) · [9 hubs](#9-the-multi-oms-blotter) ·
[10 order tree](#10-the-order-tree-reconciliation) · [11 market data](#11-the-market-data-demo) ·
[12 collector](#12-the-remote-uri-collector) · [13 what is proved](#13-what-is-proved) ·
[14 observations](#14-where-the-code-surprises) · [15 what is not modelled](#15-what-is-not-modelled) ·
[16 plan](#16-plan) · [17 running](#17-running)

## 1. The system

A FIX audit feed (both sides of every conversation between order senders and venues) goes through
AMPS or Kafka. Two families of programs turn it into Deephaven tables: *applications* that run
inside a Deephaven server and fold messages into order state, and *connectors* that run beside it
and publish source records into its tables. Around them stand demos that use the same tables: a
basket OMS, an order-tree reconciliation, a market data page, a collector of several servers.
`src/claude-code` holds all of these, `src/grok` a second, smaller implementation of the same idea.

### Components, their state, their operations

| component | state it keeps | operations | what makes it correct |
|---|---|---|---|
| **spool** (`dh-connectors` `RecordSpool`) | memory queue, segment files, write and read buffer, counters, retry clock | `put`, `take`, `poll`, `finish`, `clear`, `close` | one FIFO queue across all tiers; exact backlog and loss counters; limits hold; nobody sleeps for ever |
| **row batcher** (`RowBatcher`) | row buffer, replay flag, flush timer, counters | `submit`, `beginReplay`, `endReplay`, `flush`, `discard`, `start`, `close`, tick | each row in one place; full batches go out; rows of a key arrive in order; a stalled batch is flushed |
| **connector, manager, monitor, gateway** (`Connector`, `ConnectorManager`, `DeephavenLifecycleMonitor`, `FlightDeephavenGateway`) | started flag, source, spool, drain thread; generation; session, bootstrapped tables | `start`, `stop`, `drain`, `tick`, `refresh`, `ensureTable`, `addRows`, `deleteRows` | after any outage the table is the source's state again |
| **order cache** (`fix42cache` in Python, ported to Java) | identifier tables; per order: status, fills, terms, in-flight requests, executions | `process_message`, one handler per message type | messages find their order; no request, fill or bust is applied twice, lost, or to the wrong order |
| **application ingest** (`dh_app/amps_ingest.py`, `pipeline.py`, `dag.py`) | bounded buffer, bookmark store, machine, published streams | message callback, flush cycle, fold, `stop` | a bookmark is released only for a row that is kept; a stale table is reported |
| **multi-OMS blotter** (`multi_oms`) | per hub a fold and its sticky links; page state | batch, link, tree, reconciliation; filters, pages, chain | a family is what the tapes say, whichever hub is read first |
| **order-tree reconciliation** (`order_tree_recon`) | SOW epochs, arrival numbers, buffers, event tables; page state | AMPS handlers, connect, stop, flush; walk, breaks, exposure; pin, type, search | the mirror is the SOW again after any gap; the tree is the plain walk |
| **basket OMS** (`basket_oms_demo`) | baskets, orders, executions under one lock; simulator thread; page state | trader calls, venue rounds, start and stop; menus, dialogs, ticket | quantities add up after every call, refused ones included; a gesture acts on what it names |
| **market data demo** (`market_data_demo`) | files on disk or S3, an LRU cache, a reader pool; page state | `generate`, `upload`, list, read, derive, `md_load`, `md_refresh`; pick, render | a load that reports no error is whole; the panels show the selection |
| **remote-URI collector** (`remote_uri`) | sessions and consoles per leaf, exported tables, live queries, quotes; panel state | subscribe, `reconnect`, live and snapshot queries, quote walk | exported tables come back; no global is left on a leaf; every symbol is quoted |
| **sources** (JDBC, Kafka, TCP, S3, AMPS) | connection, position (watermark, offset, bookmark, ETags) | `start`, delivery, reconnect, `close` | a start replays everything; a reconnect neither loses nor invents |
| **mapping** (`DeltaRowMerger`, `RecordExploder`, `FieldMapper`) | last full row per key, exploded children | `merge`, `explode`, `clear` | deltas merge over what the table shows |
| **generators** (`fix-mock-generator`) | a chain's state per order | order scripts | what they restate is what they did |
| **grok OMS engine, grok connectors** | orders by key, indexes; workers, row memory | `process`, `rekey`; supervisor, worker | indexes follow a rekey; tables follow the SOW |

### How they interact

Inside a connector four kinds of thread meet. The *source's delivery threads* put entries into the
spool and block when it is full. The connector's *drain thread* takes entries, maps them and submits
rows to the batcher; the submission that fills a batch publishes it on that thread. The *flush
timer* publishes what waits. The *monitor thread* polls the gateway and, when the answer changes,
stops and starts every connector under the manager's lock, joining the drain thread and flushing
the rest itself. The server is one more actor: it can crash, its tables with it, or merely drop the
session.

The order cache is single-threaded per feed; its concurrency is that of the *conversation* it
overhears: several amend and cancel requests in flight, and a feed that repeats, misses and
reorders messages. The Python ingest hands rows from the *AMPS client thread* to the *update graph
thread* over a bounded buffer. The blotter runs such an ingest per hub, the order tree one HA client
over several SOW topics, and both derive tables that depend on what all of them delivered so far.
The collector subscribes to the tables of several servers that restart independently, while each
pressed row of its dashboard has a *worker thread*. The basket OMS has *traders* and a *simulator
thread* over one lock that a venue round takes many times. Every dashboard is one more asynchronous
actor: handlers close over the last *render*, what they set is rendered later, and tables move in
between.

### Which behaviours are hard

Overlapping flushes outside the lock; a spool that changes tier while both ends are active; disk
failures between two of its writes; a drain thread that sleeps without a timeout; stop against a
blocked producer; answers that arrive in another order than the requests; late duplicates; links to
a parent that is not there yet; a new snapshot that comes in beside the old one; a listener attached
after the snapshot it should have seen; a query's remote global after a crash; a load racing a
cleared cache; a venue round against a trader's cancel; a memo key that says less than what it
guards. `PROJECT.json` lists the hazards at their lines with the properties that watch them, or with the
reason why none does: in most of those the code does what one would rather it did not (section 14).

## 2. The modules

| module | models | kind |
|---|---|---|
| `SpoolQueue` | what a spool promises: one queue that may lose its newest entries by a fault | abstract specification |
| `RecordSpool` | the spool, tier by tier | detailed; implements `SpoolQueue` |
| `RowBatcher` | the batcher and the Deephaven round trips of a flush | component |
| `ConnectorLifecycle` | connector, manager, monitor and gateway; EXTENDS `RowBatcher`, with a `SpoolQueue` between source and drain thread | composition |
| `OrderIdentity` | which order a message belongs to | component |
| `OrderChain` | what a message does to its order | component |
| `OrderSession` | client, venue and feed around an `OrderChain` | composition |
| `BasketCore`, `MockVenue`, `BasketDesk` | the order core; the venue and simulator over it; the dashboard over it; composed in `MCMockVenue` | component, two compositions |
| `AmpsFeed` | AMPS source, stateful fold and derived tables of the Python application | component |
| `HubTree`, `BlotterDesk` | the folds and derived tables of several hubs; the blotter's page over them | component, composition |
| `OrderTree`, `SowMirror`, `TreeDesk` | the tables of the order tree beside the plain walk; the AMPS source that feeds them; the page over them; composed in `MCSowMirror` | component, two compositions |
| `MarketStore`, `BarReader`, `MarketDesk` | files and commands; loads through pool and cache; the app, its console and page; each EXTENDS the one before | component, two compositions |
| `MarketWatch` | the app with a history of what its files were | history over `MarketDesk` |
| `RemoteFleet`, `FleetQuotes` | subscriptions, reconnects and queries over leaves that crash; the quotes and exposure over the collected orders | component, composition |
| `RecordSpoolProofs`, `OrderProofs`, `RowBatcherProofs`, `BasketProofs`, `AmpsFeedProofs`, `HubProofs`, `MarketProofs`, `RemoteFleetProofs` | the theorems about `RecordSpool` and `SpoolQueue`; `OrderIdentity`, `OrderChain` and `OrderSession`; `RowBatcher`; `BasketCore`, `MockVenue` and `BasketDesk`; `AmpsFeed`; `HubTree` and `BlotterDesk`; `MarketStore`, `BarReader`, `MarketDesk` and `MarketWatch`; `RemoteFleet` and `FleetQuotes` | proofs |
| `MC*` | constants, feeds, books and constraints for TLC | instances |

`ConnectorLifecycle` uses the abstract queue in place of the detailed spool. That is sound because
`RecordSpool` implements `SpoolQueue` for all values of its constants (theorem `SpoolRefines`).
It takes the queue's fault-free part; the spool's own faults are `RecordSpool`'s subject.

A property of a run is the conjunction of named parts that answer one question; the parts are what
the theorems and the text below name. Definitions whose names carry an underscore and a deviation
(`NotifyAll_Dropped`, `BySession_Never`, ...), each commented "Mutant", are *not* used by any
specification. Each is a plausible mistake in a definition of the code, and the property named with
it in `PROJECT.json` fails when it is put in place: they show that the property depends on that
piece of code.

## 3. The spool

**Correspondence.** `memory` is the memory tier; `disk` the frames in segment files that were not
taken; `buffered` the write buffer; `ends` the last entry of each sealed segment; `tier` whether a
segment is being written, is sealed after a failure, or there is no spill; `readAhead` what the
read buffer holds of the head segment. `pending`, `lost`, `memoryBytes`, `diskBytes` are the code's
counters. Every method body runs under one monitor lock, so an action is the stretch from taking
the lock to returning or waiting. `Put` and `RetryPut` are the passes of `put`'s loop (refused,
memory, disk, no disk, wait); `AppendFrame` covers the flush and the roll that may precede a write
and the three places where each can fail; `Take` and `Poll` the passes of `pollLocked`; `Finish`,
`Clear`, `Close` the rest; `DiskRetryElapses` the retry clock. Segments are not objects in the
model: the files hold consecutive runs of entries, so their content in order and the set of run
ends say the same.

**Abstraction.** An entry is a number and one of two kinds, one that fits the write buffer and one
that does not; a corrupt or unreadable frame is the read failure; the file system is a success or a
failure of each operation. Histories: numbers given out, taken, thrown away on purpose.

**Run `spool`** (`MCRecordSpool.cfg`; two producers, five puts, two faults; memory holds two small
entries, a segment three units, the disk five). With five entries the queue spans all three tiers,
rolls a segment, empties and spills again; two faults give a failure during the recovery from a
failure. `QueueSpec` is the refinement: the tiers are one queue. `SpoolSound`: entries come in order
and counters are exact (`QueueAccounted`, `BytesExact`); limits are exceeded by one frame at most
(`WithinLimits`); files hold the unread backlog and nothing else (`SegmentsHoldBacklog`); the reader
never runs past the file about to be deleted (`ReadAheadInHead`). `NobodyLeftWaiting`: after
`finish` the drain thread gets through and leaves (`StopDrains`), and a blocked producer is let go
as long as there was no fault (`ReleasedWithoutFaults`; section 14 says what one fault can do).

**Fairness.** Weak fairness of `Take` (the drain thread is a loop around it) and of `RetryPut` (the
producer waits with a timeout and looks again). None of the source, the disk or `finish`. A wait
without timeout is not assumed to end: `consumer = "waiting"` leaves only by a notification.

## 4. The order cache

**`OrderIdentity`.** The three tables `key_by_order_id`, `key_by_clordid`, `key_by_execid`, the set
of chains, and the order of lookups in `_resolve` and of bindings in `_bind`. Messages are records
of the identifiers they carry; the feed may deliver any of them at any time, any number of times.
`OwnerOf`, known to the properties only, says whose an identifier is. The bound here is the set of
messages and nothing else, so the state space is complete for them: run `identity` has two orders,
an amendment, executions with and without ClOrdIDs and an unsupported type.

`OrdersApart` is `ChainsReachable` (every chain is found under its own key, and no binding dangles),
`ReplaysConverge` (a message applied once resolves to the same chain ever after) and
`OneOrderPerChain` (two orders never meet in one chain). `OneChainPerOrder`, that an order whose
messages can all be connected through 37, 11/41 or 17 is one chain, is proved for `LinkedSpec`, the
feed in which they always can. (The names of this module that `OrderChain` has too are told apart:
`IdFeed` the messages, `IdentitySpec`, `ApplyMessage`.)

**`OrderChain`.** One chain: status, filled quantity, terms, the in-flight list with the status
each request found, the ExecIDs seen and the disposition of each execution row. One action per
message type (`NewOrder`, `ReplaceRequest`, `CancelRequest`, `ExecutionReport`, `CancelReject`,
`DontKnowTrade`), each the whole handler, with `ResolvePending`, `RecomputePending` and
`Dispositions` inside it. All terms (38, 44, 99, 59) are one quantity, since the code treats them
alike; 14, 151 and 6 are one snapshot. Run `chain` feeds it every kind of message of an order's
life in any order, replayed and missing at will: an order of three lots, two chained amendments and a
cancellation of which at most two are in flight (enough for answers to cross), a fill and its bust, one
confirmation of each request, a rejection and a DK. It checks what holds *whatever* the feed does:

`HistoryStands`: the filled quantity falls by a bust or a correction only; a report whose ExecID was
seen changes nothing of the order; known terms change only to those of a replace that is confirmed;
a report that is behind settles no request; the row of a seen execution is marked only by what names
it, and never made good again. And an answer settles its own request as long as that is in flight:
the others stay, in whatever order requests and answers cross. An answer that names no request in
flight is taken for one to the newest of its kind, and settles at most that one. That 35=F, G, 9
and Q, which carry no ExecID, could be repeated without effect is *not* claimed; section 14 says
what they do.

**`OrderSession`.** A client that sends a new order and up to two amendments or cancellations in
flight at once, a venue that answers in any order, fills, busts and corrects and may cancel or
replace of its own accord, a wire of two captured messages, and a feed that hands the cache old
reports again. What the venue states about the order is what `ScenarioEngine` restates; how freely
it interleaves is what FIX allows. Run `session` shows (`CacheFollows`) that the cache then holds
*exactly* the open requests at every moment (`PendingExact`) and, when the conversation rests,
agrees with the venue on status, fills, terms and ClOrdID (`StatusAgrees`, `FillsAgree`,
`TermsAgree`), has nothing in flight (`NothingInFlight`), explains the filled quantity by its
executions (`ExecutionsExplainCum`), and never shows a busted fill as good again (`BustsStay`). Two
requests and four reports are enough for two answers to cross with a fill, a bust and a replay
between. `PendingExact` and `TermsAgree` exclude histories in which the venue acted unasked: there
the code takes the newest request of the kind as the one meant, which may not be it.

Assumption of `session` and of its theorem: rejections carry tag 39 (`RejectsCarryStatus`), as the
mock venue's do. Without it the status
restored is the one found when the request was sent, see section 14.

## 5. The row batcher

**Correspondence.** `buffer`, `replaying`, `submittedAtLastTick`, `scheduler` are the fields;
`doing[t]` where a thread is in `flush` (about to swap the buffer, or publishing), `hand[t]` the
rows it took. `Take` is the swap under `bufferLock`; `PublishRun` one round trip for the longest
run of one action at the front; `PublishFails` a round trip that fails, or times out although the
server did it, with the rest of the batch given up as the code does. `Submit`, `BeginReplay`,
`EndReplay`, `Tick`, `FinalFlush`, `Start`, `Discard`, `Close` are the operations; any caller may
use any of them at any time, more freely than the connector does. A timer that was closed may still
be at work (`retired`). The table is keyed and shows, per key, the number of the row last put.

**Run `batcher`** (one caller, two timers in succession, three rows of one key, one fault; batch of
one live, of three in a replay). One key is the hard case: every row competes with every other.
Three rows suffice for two overlapping flushes and one row waiting. `RowsSafe` is `RowsAccounted`:
each row is in exactly one place (buffer, one thread's hand, arrived, given up). `FullIsFlushed`: a
full batch always has a thread on its way to flush it. `OrderWithoutOverlap`: when nothing of a key
is under way the table shows the last row submitted, as long as no two flushes overlapped.
`NotLeftBuffered`: a buffered row leaves the buffer even if the replay never ends, while a timer
runs.

**Fairness.** Each timer ticks while it runs (a scheduled executor) and a thread in a flush goes on
(round trips have a timeout). `CHECK_DEADLOCK FALSE`: with all rows submitted and timers used up
the bounded model stops.

## 6. The connector lifecycle

**Correspondence.** The monitor is one thread with a program counter: `Refresh_Same` and
`Refresh_Connects` are `refresh()` together with `onGeneration`'s decision, then `stop()` in six
steps (refuse input, close the source, join the drain thread, end the replay, final flush, close
the timer) and `start()` in five (ensure the table and discard, new spool with drain thread and
timer, subscribe, done, or a failure at two places). The drain thread of each life takes an entry,
submits its row, flushes when told; a drain thread left behind by a failed start or a join that
timed out goes on until it notices. `Crash` takes the tables along, `Disconnect` only the session,
`Boot` brings a server up empty. Flushes succeed exactly when the session in use works and the
table exists; an interrupted thread's flush may fail either way. The spool has room for `SpoolLimit`
entries: beyond it the source's delivery thread waits in `put()` (`Blocked`), and closing the source,
in `stop()` and in a failed start, waits for that thread. `Snapshot` is the source's replay
between its brackets; changes follow as records, whose value 0 is a deletion.

**Run `lifecycle`** (one key, two lives, room for one entry in the spool, two changes at the source, one trouble: a crash, a lost
session or a failed start). `ComesBackWhole` is `Rehydrated`: whenever the connector is started on
the held session and nothing is on its way, the table shows the source's state; rows that a
surviving table kept from before are excepted, and so are histories with overlapping flushes
(section 5) or with a thread of an earlier life at work in the next. `TableServed`: a started
connector's table exists and is probed for. `Settles`: after the last trouble and change everything
comes to rest, so no stop, join or start waits for ever, nor one of them for a delivery thread that
waits for the spool. In a failed start, where the source is closed before the spool
(`Connector.java:183-184`), it is the drain thread that makes the room. The constraint `NoStrays` leaves out lives
that begin while a closed flush timer is still at work; it can take the next life's rows, and
nothing in the code waits for it (listed as a hazard). One trouble at each of all points of two
lives is where restarts race; the batch of one live and two in replay makes every submission a flush
in one life phase and a wait in the other. Values repeat nothing, so an old row cannot pass for a
new one.

**Fairness.** The server comes back (a crash with no return settles nothing), the source's delivery
thread delivers, each drain thread, timer and the monitor goes on; within one thread only what that
thread does counts, so a blocked join is not hidden by progress elsewhere. Crashes, disconnects,
changes and failures are never forced. `CHECK_DEADLOCK FALSE`: the bounded model ends when its two
drain threads and timers are used.

## 7. The basket OMS

**Correspondence.** `BasketCore`: `orders`, `baskets`, `executions` are the core's dictionaries, ids
being positions; `shown` is what the table bridge published last. Every method of `OmsCore` holds
one lock from validation to the last listener call, so it is one action: `CreateBasket`,
`AddOrders`, `RouteBasket`, `CancelBasket`, `Route`, `Cancel`, `Modify`, `SplitEvenly`, `SplitAs`,
`Ack`, `Reject`, `Fill`. A refused call writes nothing, except `modify()`, whose half-written order
is modelled and remembered in `halfModified`. Parsing of pasted lines is modelled by what it accepts
(`ParseLine`, `Terms`), a price being a number; the sums of the code are running sums (`Total`,
`SumOf`). `MockVenue`: a round takes a snapshot, the set of orders it still has to look at
(`BeginRound`, worked through in order of creation), then for each order looks, prices, fills and
finishes (`Look`, `Execute`, `Finish`) in lock acquisitions of its own; the simulator's loop
(`StartSimulator`, `StopSimulator`, `LoopBegins`, `LeaveLoop`) and the console's own round
(`AskForRound`) may both be in one; chances are choices. `BasketDesk`: selections with their refs,
the render they close over (`page`), context menus resolved when they open, dialogs with the form
they showed, toolbar and ticket.

**Run `basket`** (traders at the console with one loop, one console round and three writing calls on
up to three orders; or traders at the dashboard over three seeded books and three gestures, while a
venue acknowledges, rejects and fills). `QuantitiesAddUp`: filled and leaves add up, executions
explain filled, nothing is overfilled. `TablesAgree`: rows, the derived view and the rolled-up
basket status tell one story. `SplitKeepsTotals`: no call but a modification or a new line changes a
basket's quantity. `DoneIsDone`: a done order stays as it is, whoever still has it in hand.
`OneShot`: an IOC order is off the book after its one attempt, and none is attempted twice unless
two rounds overlap (`overlapped`). `RoutedIsAnswered`: while the simulator is left running, a routed
order is answered. `ActsOnNamed`: what a gesture changes is the order or basket that its menu,
dialog or toolbar names, whatever was selected meanwhile; the dialog a gesture opens is on the
selected order or basket, which a dialog left open by an earlier gesture need not be. One order of
three shares suffices for a partial fill before a cancel, a split and a modification below the
filled quantity; three orders for a split into two.

**Fairness.** Each simulator thread goes on; traders and whoever starts and stops it need not act.
`CHECK_DEADLOCK FALSE`: calls and gestures are used up.

## 8. The AMPS feed

**Correspondence.** `AmpsFeed` has the client thread (`Receive`, `Offer`, `Discard`), the update
graph (`GraphThread`: drain, add, fold and publish), a thread that may `Stop`, and the external log,
connection and in-memory bookmark store. `ResolveBookmark` is what `FIX42_AMPS_BOOKMARK` asks for:
the whole log, what comes from now on, or what follows a literal bookmark. `Raises` is an exception
before the row is offered, after which the bookmark is released all the same. `Fold` publishes five
streams of which any may fail, each leaving an error row unless that fails too (`mute`);
`FoldRaises` is an exception between the folds of a batch, outside every `try` of a stream
(`pipeline.py:324`): nothing of the batch is published. `GetByClordid` is the lookup through the two
last_by tables.

**Run `feed`** (a log of five: an order, an empty message, two reports of the order under a new id,
one that does not parse; buffer of two, one restart, one failure, three bookmark settings). Two
places for four rows make the client wait and resume, and a row that a full buffer refused would
have one behind it; one restart replays the log into empty tables. A second failure is left to the
proofs, which have no bound.
`ReleasedIsKept`: no bookmark is released for a row that is gone, also while `stop()` runs.
`NoHoles`: the machine sees the log in order, once each. `NeverSilent`: a table that misses
something has said so, unless the error could not be published or a fold raised.
`Delivered`: everything logged is folded, unless the source is stopped, a handler or batch raised, or
the bookmark does not ask for it. What the bookmark asks for (`Wanted`) is said of the setting and not
of where the subscription began: a process that restarted in the middle of the log would violate
both.

**Fairness.** Client thread and update graph go on; a lost connection comes back for good some day
(strong fairness of `Receive`, weak of `Resume`). `CHECK_DEADLOCK FALSE`: the log ends.

## 9. The multi-OMS blotter

**Correspondence.** `HubTree`: `Accepted` is the topology check, `Batch` one batch of one hub through
fold, sticky links (`Record`) and publication with streams that may fail; `IdIndex`, `ParentOf`,
`Walked`, `ChildRollup`, `BreakKind`, `QtyBreaks`, `FindChain`, `GetOrder` are the derived tables and
lookups, evaluated on what was published. `BlotterDesk`: handlers set the state, `Render` applies it
with the memo key, counter and page window of the code; the order of the rows is the rank of their
keys, so a page is a window of ranks (`Before`, `Window`).

What a tape message is, the fold has decided already, and `TapeAssumption` says what folds give: the
order id of an order stays, and no order id is a client order id of the same hub (`dag.py` leaves it
open what its index shows then). `OneOwnerAssumption`, for the page's chain only: within a hub an id
belongs to one order and stays with it. Where it does not, a parent can change hands under a
selected row, and the chain shown is of the root of the moment it was clicked, so `ChainIsOfSelected` is
claimed only under it. `ConfigAssumption` (a topology is a tuple),
`ToleranceAssumption` (`_tolerance` refuses negative ones) and `RankAssumption` (global keys are
unique, a page has rows) are plain.

**Run `hubs`** (three hubs, in a row and with two below one, among four refused topologies; tapes of
two to four messages cut into batches anywhere and interleaved in any order, one failure; or a
trader's three gestures over a chain of three and a fourth order, two rows a page). `RootIsTop`,
`TapesDecide`, `LevelsAgree` and `LinkedStays` say that families are consistent and are what the
tapes say, whatever was read first; `PagesShowAll` and `ChainIsOfSelected` that the page shows every
matching row on some page, and the family of the row that was clicked. Four messages are enough for
a link by client order id and one by order id, a later message that names another parent, a replayed
old one and one that does not parse. `CHECK_DEADLOCK FALSE`: the tapes end.

## 10. The order-tree reconciliation

**Correspondence.** `SowMirror`: `Connect`, `Subscribe`, `ConnectFails`, `Stop` are the connect
thread and `stop()`; `Receive` is the handler with its epoch and arrival stamps and its bounded
buffer; `Flush` the update graph; `Lose` and `Relogon` the HA client's own reconnect; `Change` the
systems that publish. `OrderTree`: the events that are current, the folded orders, the id index, the
links, the walk, breaks and exposure, and beside them the plain-Python walk of `reference.py`.
`TreeDesk`: fields, render and memo as in the blotter, the pinned bucket, the uncontrolled text
inputs (`box`), and the console's lookups.

**Run `recon`** (one record on one topic, two on another, one change or removal per step up to two,
one fault of any kind, a buffer of one; or three gestures of a trader over a loaded book and one
change). `MirrorSettles`: when nothing is on its way, the mirror is the SOW, with no phantom and
nothing stale. `NeverBlinks`: a record that stays in the SOW stays in the mirror during a new
snapshot. `Converges`: the mirror does come to that. `LinkedWhileParentLives`: an order keeps its
parent through amended ids and reconnects. `TablesSound`: the tree is the plain walk's
(`DagIsReference`), an exposure is explained by its gaps. `PageIsOneFilter`: four panels, the inputs
and the console's lookups apply one filter. One fault at every point of two changes includes an
unsubscribe during a half-taken snapshot; a self-parented order and an unknown parent are in the
books.

**Fairness.** Connect and receive threads run and every buffer is emptied again and again
(`MirrorFairness`). `CHECK_DEADLOCK FALSE`: changes are used up.

## 11. The market data demo

**Correspondence.** `MarketStore`: `generate` and `upload` file by file and step by step with a kill
between any two, the layout of paths (their parsed parts), the listing of a directory and the paged
listing of S3 while files arrive. `BarReader`: a load lists, opens files on a bounded pool, looks up
and inserts in the cache in two steps, merges and accounts for missing and failed files.
`MarketDesk`: startup scan, default load and built page; `md_load` and `md_refresh` of the console;
the page's handlers and the panels a render recomputes by memo key; resampling, daily summary and
normalisation of bars. `DeskSpec` is the app; `WatchSpec` in `MarketWatch` is the same app with two
history variables, what each file was since the last `md_refresh` and which tables were on their way
then, which only `CacheFresh` reads.

**Run `market`** (two symbols, two trading days around a weekend day, a tree with a flat file, a part
file and a marker; seven configurations of which two are accepted; two keys a page; one command, one
fault, one console call or two page events beside the start). The bars of the files differ from each
other (`MCBarsOf`), so that a panel made of another file shows. `JobsDeliver`: a finished command left
every file whole, wherever an earlier one was killed. `OkIsWhole`: a load without an error holds
every file that was there when it began. `CacheFresh`: nothing older than the last `md_refresh`,
except a table that a load had in hand at that moment. `ShownIsSelected`: a finished load holds the files of the selected symbols and days, the bars roll
up from it by the selected interval, the daily summary from it by day, the normalised chart starts
each symbol at its first price, and each chart is drawn from them. No liveness is claimed, and `CHECK_DEADLOCK FALSE`: events are used up.

## 12. The remote-URI collector

**Correspondence.** `RemoteFleet`: a leaf's lives are numbered, and a session is the number of the
life it was opened to. `Subscribe`, `Retry`, `Connected`, `Reconnect`, `Close` are the passes of the
collector; `ByUri` goes through the engine's own connection, which it keeps for ever, `BySession`
through one opened for it. `LiveBind`, `LiveSubscribe`, `Release` are `query_live`; `Press` starts a
worker that takes a console, executes, opens a session, takes the snapshot, deletes its global and
answers, each a step of its own. `FleetQuotes`: the walk of the prices (`Step`), the listener with
its replay at attach, `ensure` row by row (`Walked`), the defaults, and the exposure as the tables'
formula and as the plain Python computes it.

**Run `fleet`** (two leaves of one hub each, two of four exports, five configurations of which one is
accepted; a crash and a query, or two queries, or two orders with quotes through a reconnect).
`Recovers`: `reconnect()` brings the exported tables back however the leaves crash. `GlobalsAccounted`:
a bound global belongs to a query under way or a live one, or its deletion could not be sent.
`PanelAnswersPress`: an earlier press's answer is never shown for a later one. `QuotesFollow`: while
the feed listens every symbol of an order is quoted, not at the default if an order of it has a
price, and table and Python agree on the exposure. Deadlock is checked.

**Fairness.** Leaves are restarted and wired, the console thread goes on, and the operator calls
`reconnect()` while the exported tables are not live, which is what the docs ask of them.

## 13. What is proved

TLAPS checks these for every value of the constants that meets the modules' named assumptions.

| theorem | says | argument |
|---|---|---|
| `SpoolTypes` | `RecordSpool`'s `TypeOK` | needs `IInv == TypeOK /\ TierShape`: what `tier` says about the buffers (no spill, nothing in files or buffers; sealed, nothing buffered), without which trimming could leave a negative length |
| `SpoolBacklog` | `BacklogExact` | `IInv` and that each action moves the counter with the queue |
| `SpoolRefines` | `QueueSpec`: the spool implements `SpoolQueue` | queue = memory, files, write buffer concatenated; each pass of `put` or `poll` admits, delivers, loses a suffix, forgoes, refuses, or stutters (`AppendMaps`, `PollMaps`, `StepMaps`) |
| `QueueInOrder` | `SpoolQueue` hands out in order | `QInv`: order, and `delivered <= admitted` |
| `SpoolInOrder` | `InOrder` of the spool | from the two above, through the refinement |
| `SpoolAccounts`, `SpoolAccounted` | `NothingVanishes`; all of `QueueAccounted` | `IInv`, `BacklogExact`, `InOrder` |
| `IdentityTypes`, `IdentityBindings`, `IdentityReachable` | `TypeOK`, `BindingsStand`, `ChainsReachable` | directly inductive with the types |
| `IdentityConverges` | `ReplaysConverge` | `HistoryLeads`: the first identifier a past message carries, in lookup order, is bound to its chain; the lookup result alone is not inductive, since a later binding of an earlier-priority identifier could change it |
| `IdentityNoMerge` | `OneOrderPerChain` | `OwnersAgree`: each binding joins identifiers of one owner; from the assumption that identifiers are not shared between orders |
| `IdentityOrdersApart` | `OrdersApart`, the property of run `identity` | the three above |
| `IdentityOneChain` | one chain per order in a linked feed | `LinkedInv`: everything carried is bound, every binding and chain has a witness in the history, messages of an order share a key |
| `BatcherTypes`, `BatcherFullIsFlushed` | `TypeOK`, `FullIsFlushed` | with `Held`: a thread has rows exactly while it publishes |
| `BatcherAccounts` | `RowsAccounted` | `AInv`: places pairwise disjoint, number by number, and rows ascending in buffer and hands |
| `BatcherOrder` | `OrderWithoutOverlap` | `Ordered`: the buffer holds the newest rows, one flush at a time, what arrived precedes what is in hand, the last row of a key is known |
| `BatcherSafe` | `RowsSafe`, the property of run `batcher` | the three above |
| `SpoolIsSound` | `SpoolSound`, the invariant of run `spool` | `FilesSound`, `MemorySound`, `DiskSound`, below |
| `ChainTypes` | `OrderChain`'s types | `ChainSound` |
| `ChainHistory` | `HistoryStands`, the property of run `chain` | `ChainSound`, one lemma per conjunct |
| `SessionFollows` | `CacheFollows`, the invariant of run `session`, if rejections carry tag 39 | `SessionInv`: the chain as it will be after each message on the wire (`Trail`), the last of them what the venue states (`Ahead`) |
| `FeedReleased`, `FeedNoHoles` | `ReleasedIsKept`, `NoHoles` of run `feed` | `FeedSound` |
| `FeedNeverSilent` | `NeverSilent` of run `feed` | `FeedSound` and `TableSound` |
| `FleetGlobals`, `FleetPanel` | `GlobalsAccounted`, `PanelAnswersPress` of run `fleet` | `FleetSound` |
| `QuotesFollowOrders` | `QuotesFollow` of run `fleet` | `QuoteSound`, and that sums of equal terms are equal |
| `LinkedStaysHolds` | `LinkedStays` of run `hubs` | `HubInv`, and that an index entry is never withdrawn |
| `TapesDecideHolds` | `TapesDecide` of run `hubs` | `HubInv` |
| `RootIsTopHolds` | `RootIsTop` of run `hubs` | `HubInv`, and that a walk of as many steps as there are hubs ends (`DepthsStep`) |
| `LevelsAgreeHolds` | `LevelsAgree` of run `hubs` | `HubInv`, `RootIsTop`, and sums over owners (`SumsByOwner`) |
| `PagesShow` | `PagesShowAll` of run `hubs` | `HubInv`, `PageInv`, and that ranks count without gaps |
| `ChainOfSelected` | `ChainIsOfSelected` of run `hubs` | `HubInv`, `PageInv`, `ChainInv` |
| `StoreTypes`, `JobsAreDelivered` | `MarketStore`'s types; `JobsDeliver` of run `market` | `StoreInv` |
| `LoadsAreWhole` | `OkIsWhole` of run `market` | `DeskInv == StoreInv /\ ReaderInv /\ ConsoleOK /\ PageInv` |
| `CacheIsFresh` | `CacheFresh` of run `market` | `DeskInv` and `WatchInv` |
| `QuotesOverFleet` | `FleetQuotesSpec` implements `RemoteFleetSpec`: what is proved of the queries holds beside the quotes | step by step |
| `BasketIsSound` | the inductive invariant of core and venue | `BasketSound == CoreSound /\ VenueSound` |
| `Quantities`, `Tables`, `OneAttempt` | `QuantitiesAddUp`, `TablesAgree`, `OneShot` of run `basket` | `BasketSound` |
| `DoneStaysDone`, `SplitsKeepTotals` | `DoneIsDone`, `SplitKeepsTotals` of run `basket` | what each call of the core may make of an order (`Becomes`), and what it does to a sum |
| `DeskIsSound`, `DeskAddsUp`, `DeskKeeps` | the same of the dashboard over any sound book, with a venue at work | `DeskSound == CoreSound /\ PageSound` |
| `GesturesActOnNamed` | `ActsOnNamed` of run `basket` | `DeskSound` |

**Why the invariants are what they are.** None of the properties is inductive as it stands.

- *Spool.* `FilesSound` says which frame each file was sealed after: every sealed run has an unread
  frame of its own, the open one has the newest, the read buffer ends in the first. Without "of its
  own" two runs could share their last frame and a `take` delete both. `MemorySound` and
  `DiskSound` say that each byte counter is the sum over its tier; the limits follow from the sums
  because an entry is let in past a limit only into an empty tier, or as the one frame that crosses
  it. The proof goes by `MemoryStep` and `DiskStep`, the few things an action may do to a tier.
- *Order chain.* `ChainSound` adds that a chain has no terms and no fills before its first message
  and that "no ExecID" is never a seen one: otherwise a report that opens the chain could lower a
  fill, or one without an ExecID pass for a replay. `NewestIsLast` and the lemmas on removing a
  request give, for an in-flight list of any length, that a message takes out the request it names, or
the newest of the kind if it names none in flight.
- *Conversation.* What the cache shows lags behind the venue by what is on the wire, so nothing said
  of the two alone is inductive. `Trail` runs the cache ahead: a view of the chain for each message
  on the wire, each got from the one before by a function (`After`) that `HandleIsAfter` shows the six handlers
  to compute, on messages that come in their turn (`Fits`: no report twice, none that is behind).
  Speaking a message adds a view at the end, hearing one takes the first away, and the requests a
  view holds are those still to be answered after it (`Awaited`). The last view is the venue's state:
  status, terms, ClOrdID, requests (`Holds`, or only as many of a kind, `NoMore`, once the venue has
  acted unasked) and fills (`Tallies`: the rows that count add up). A report that is redelivered
  turns out to change nothing at all, since `HeardNoted` has it noted and a chain that has heard one has its terms.
- *AMPS feed.* `Flow` is the pipeline in one line: what is folded, in the batch and in the buffer
  stands in log order, each part before the next, and goes no further than the bookmark or the one
  row past it that the handler has offered. `OfferedIsKept` covers the moment between the offer and the release of the bookmark,
  with a `stop()` in between. A bookmark that asks for the whole log is one whose subscription began at
the beginning, in every life. `TableSound` ties each derived table to what was folded or to a
  report, and needs that the id index never leads to a key the machine does not have.
- *Collector.* The number of a query is a press's, the console's or a live query's and never two of
  them, and a press's global is on its worker's leaf only (`NumbersApart`); each global is accounted
  for (`Bound`, `LiveBound`). `NoncesMatch` ties the panel's request, its workers and its result by the same number.
- *Quotes.* `QuoteSound` speaks of the pairs in the listener's source and not of the orders: an order
  that changes without changing its pair brings nothing to the listener. Prices stay positive, which
  is why the formula's test for an absent quote and the plain Python's test for a positive one agree.
  A batch of rows is a walk through `Ensure`; that it exists, and what holds along it, go by least
  counterexample.
- *Hubs.* `HubInv` says of every row, id and link that a message already read tells it, and of every
  message read, as long as no stream failed, that the tables still show it (`NothingLost`): without
  the first direction a link could change its target for no message at all. The walk is a
  recursive function, and its end needs no induction over a depth: a hub is one deeper than its
  upstream, so the number of passes the code makes exceeds every depth. The levels of a family are
  compared through the children: a level is the disjoint union of the children of the level above,
  since a parent that was not published would be the root itself; that sums follow is shown on a
  smallest set of parents for which they did not. The chain stays the selected row's family because
  parents stay, under `OneOwnerAssumption`. The proof found that `BreakKind`, a CASE whose arms
  overlap, did not say what `dag.py` does: a TLA+ CASE takes any arm that holds and not the first;
  it now follows the order of the code.
- *Market data.* `StoreInv`: no data file of the tree is half written, a temporary one belongs to the
  command under way, and what a command has done is there. `ListOK`: a listing has found each file
  that was there when it began, or has yet to come to it in the store's order. `LoadOK`: what the
  listing found is waiting, being read, read or failed. `WatchInv`: each table in the cache, in a
  load's hands and in the defaults was the file's content since the last `md_refresh`, or was on its
  way.
- *Basket OMS.* `CoreSound`: unless a refused `modify()` left it half written, an order's filled and
  leaves fit its quantity, its executions sum to filled and its table row is the order itself; a
  half-written order's row still has its status, basket and filled; each basket has a line and
  shows the roll-up of its lines. `VenueSound` adds the rounds: what a snapshot
  holds was routed, what a round is executing has been answered, and two rounds at once are
  remembered. These are about states in which a trader's call lies between any two of the venue's
  lock acquisitions, which is why each call is first reduced to what it may make of one order
  (`Becomes`: an order that is done is not touched, one at the venue does not return to staged).
- *Dashboard.* `PageSound`: selections, refs, menu, dialog and form name orders that exist. The
  gestures are reduced to `CoreStep /\ Draws /\ OnlyTouched`.

`SumOf` and `Total` are recursive functions, and a sum over a table of any length would be an
induction. The proofs avoid it: two running sums that satisfy the same equations agree, since
otherwise there would be a least row at which they differ (`LeastElement`, from the
well-foundedness of the naturals). The same argument gives the effect of one order written, of one
appended and of one split.

Trying to prove it showed that `ActsOnNamed` had first been stated too strongly, of any dialog that
is shown after a gesture: the click that only selects another order leaves the open one as it was.
It now speaks of a dialog newly asked for. `OneShot` on the other hand had been too weak to be
inductive, and now also says that an attempted IOC order is off the book.

**Assumptions** are those in the modules, and TLC evaluates each on its runs: `SpoolAssumption`
(positive sizes), `IdentityAssumption` (identifiers belong to one order, a message speaks of one
order), `BatcherAssumption` (positive batch, replay batch no smaller, callers and timers distinct),
`ChainAssumption` (messages have the fields of their type), `SessionAssumption` (ClOrdIDs and ExecIDs
are numbered from one, and an absent tag is no value of any field), `FeedAssumption` (a buffer with room for
a row, log entries of the three kinds, a position for every literal bookmark), `CoreAssumption` (quantities and prices are integers, a
pasted line is a side, a quantity and words or numbers), `QuoteAssumption` (positive least, default
and largest price, orders with prices that are numbers or absent), `DeskAssumption` of `BasketDesk`
(a book that is on screen at startup adds up, `SoundBook`; the program's own startup books do, being
built by the core's calls), the five of the hubs (section 9), `StoreAssumption` (the
keys' order has each key once, limits are integers, the trees at the start have no half-written
data file, and what a request generates are keys) and `DeskAssumption` of `MarketDesk` (a file has
finitely many bars, timed by integers).

**Only model-checked.**

- `ComesBackWhole` of `ConnectorLifecycle`: the same for rows between source, spool, threads and
  table through two restarts, and `Settles` is liveness.
- `TablesSound` of the order tree: its walk, breaks and exposures are compared with the plain
  Python's over every book, and each of the five tables would need what those
  of section 9 needed for the blotter's.
- `MirrorSettles`, `NeverBlinks`, `LinkedWhileParentLives`, `PageIsOneFilter`, `ShownIsSelected`: no
  obstacle in principle; see section 16.
- Liveness (`NobodyLeftWaiting`, `NotLeftBuffered`, `RoutedIsAnswered`, `Delivered`, `Converges`,
  `Recovers`) is outside what the prover supports, as are statements with ENABLED and inductions
  over data (the walks, roll-ups and parsers).

## 14. Where the code surprises

What the code does where a document, a comment or a reader would expect otherwise.
Most are outcomes of the models, and a property that would forbid one names it as an exception; the
others (names, leaks, messages, concurrent commands) were met while reading.

*Spool.* With nothing queued, an entry too large for memory and write buffer starts a spill; its
direct write fails; the segment is sealed and empty (`RecordSpool.java:201-204`). Only a poll would
end that spill, but the drain thread sleeps in an untimed wait and the failure notifies nobody: the
producer re-checks for ever after one disk fault. `ReleasedWithoutFaults` is therefore said of
histories without a fault.

*Order cache.* An amendment is missed; the next one opens a chain of its own; the report with the
known OrderID updates the right chain but leaves the ClOrdIDs with the other, since bindings are
first-wins (`state_machine.py:372`; `docs/01-fix42-messages-and-state-machine.md:82-83` expects it
to heal). A bust that arrives before the fill it names is overwritten by the fill's good row (717
against 828-829). A rejection without tag 39 restores the status found when its request was sent,
which may be an older request's pending status or older than a fill (972; doc lines 167-171). Only
reports are deduplicated. A repeated 35=9, or one whose request is no longer in flight, settles the
newest request of its kind (450-452) and sets the status again; a repeated F or G is in flight again;
a repeated Q disputes its execution again. A report never seen that comes late keeps its quantity to
itself, but sets the status all the same (677).

*Batcher and lifecycle.* Two overlapping flushes may reach the server in the other order and leave
the older row of a key (`RowBatcher.java:139`, its class comment at 27). A publish that fails once
on a session that stays healthy causes no reconnect, and its rows are missing until the next
restart (179-180). A session that breaks over a server that keeps its table leaves the rows of
records deleted meanwhile: they are in no replay (`TableBootstrapScript.java:70`;
`docs/07` lines 547-550). A thread of a failed start, or of a stop whose join timed out, may still
submit rows in the next life (`Connector.java:387`); the run leaves these lives out (`NoStrays`).

*Basket OMS.* The venue prices an order and fills it later, so a modified limit order may be filled
through its new limit (`venue.py:14`). `stop()` racing `start()`, or a join that times out, leaves
two loops; a console step during a round attempts an IOC order twice. `create_basket` publishes the
basket before its lines can raise (`core.py:525`); `modify()` writes the quantity before it checks
price and tif (618). A right-click on one order resolves the selected entry to the previously
selected one; the Modify dialog submits all its fields, also those that changed meanwhile.

*AMPS feed and order tree.* A batch whose flush fails is drained and gone until the next subscribe.
An exception before `offer()` releases the bookmark of a row that was never kept
(`amps_ingest.py:474-477`). An exception between the folds of a batch is outside the `try` of each
stream (`pipeline.py:324`): the batch ends there, nothing of it is published and no error row says
so, while the machine keeps what it folded.
`stop()` during `connect()` leaves a client that nobody closes (`amps_sow.py:387-402` against
346-361); the subscription ids of failed connects accumulate. Pressing the exposure row without a
moniker says "Pinned: exact bucket" and filters by symbol only (`dashboard.py:248, 330-340, 386`); the
memo key upper-cases names that a pinned filter compares as they are; a text typed and deleted
before the next render is ignored, so input and filter differ. Two orders with one id resolve
differently in the tables and in the reference walk.

*Blotter.* `QtyBreak` compares each child hub alone with its parent; the selection keeps the root of
the moment it was clicked, so that the chain panel is empty once that root is linked to an order
above it (`dashboard.py:158`); of two hub boxes clicked within one render, one click is lost; hub names
that sanitize alike collide.

*Market data.* The page captures universe, days and inventory when it is built: after a start over
an empty bucket `md_refresh` brings back the console, never the page (docs/11 says it recovers). A
refresh racing a read in flight has the old table cached again. `on_typed_submit` raises
`ValueError` although callbacks are said never to raise; merging and sorting run outside the
reader's `try`. Two `generate` runs at once share one `.tmp` name. A day present in both layouts
doubles its minutes. Typed symbols vanish at the next pick from the list.

*Collector.* A console opened just before `close()` is kept after it and serves that leaf, dead,
until the next reconnect (`remote.py:201`). A late answer of an earlier press replaces a newer
result, after which the panel says loading for ever (`dashboard.py:276`; docs/10 lines 429-432).
`wait_for_all` never replaces a dead session; an incomplete reconnect leaves the old tables exported
and the quotes detached; a leaf that crashes between subscription and build still counts as
connected in the model, where in the code `build_collector` may raise instead (`collector.py:293`),
at startup out of the wiring, so that `reconnect()` is never exported (`app.py:113-118`). The quote feed upper-cases symbols while the exposure joins them as they are, so an
order in lower case is marked at its own price.

## 15. What is not modelled

- *Sources of the connectors*: a JDBC module would be about the watermark that moves row by row over
  an unordered result (`JdbcRecordSource.java:226`) and the deletes a poll emits after `close()` cut
  its scan (211); a Kafka one about `from=latest` after a reconnect (`KafkaRecordSource.java:217`)
  and close against the poll thread (272); TCP about a delimiter across reads
  (`TcpRecordSource.java:189`) and close against connect (117); S3 about a retried object (201);
  AMPS about the HA client's bookmark. `ConnectorLifecycle` takes a source that replays in full.
- *Mapping with memory*: a merged row remembered before it is published (`DeltaRowMerger.java:53`).
- *Java application*: `RawBuffer` and `AmpsRawSource` repeat what `AmpsFeed` has for Python; the
  order cache is a line-by-line port held to the Python one by parity tests.
- *grok*: rekeying an order onto a key that is taken (`InMemoryOmsCache.java:157`), and a replay that
  starts from the beginning only if the table was created (`ConnectorWorker.java:57`).
- *Parsing, decoding, coercion, validation*: functions of one record, tested as such.
- *Layouts, formats, charts' looks, containers, scripts, test-data generators*: no state between
  steps that a property could be about.
- Within the modelled parts: a build without `do_replay`, on which the quote feed listens without the
  rows that are there already (`marketdata_table.py:154-155`); exceptions in the order tree's handlers,
  and the moment between the epoch stamp of a message and its offer; display-only fields of an order; the spool's file names and frame
  format; a connector without a spool, append-only and blink tables, several connectors on one
  session, the monitor's own shutdown; the basket OMS's audit tape and ticket panel; the file and
  simulated sources of the Python application; prices of fills.

## 16. Plan

1. *Done*: spool, order cache, batcher, lifecycle; basket OMS, AMPS feed, hubs, order tree, market
   data, collector, each with its page.
2. *Proved*: the safety of spool, batcher, order identity, order chain and its conversation, AMPS feed, collector, basket
   OMS with venue and dashboard, blotter with its page, and of the market data demo but for
   `ShownIsSelected` (section 13).
3. *Proofs next*: `MirrorSettles` and `NeverBlinks` of the mirror (what each buffered event, the
   snapshot under way and the SOW together say of a record); `LinkedWhileParentLives` from them;
   `ShownIsSelected` of the market page (each memo's value is a function of its key and of what the
   load had, and the pass over the panels brings the keys up to date). No module declares a RECURSIVE
   operator, so all are open to proofs.
4. *Models that would follow*: the sources of section 15 over a common abstract source that says what
   `ConnectorLifecycle` relies on; `DeltaRowMerger` between spool and batcher.

## 17. Running

In this directory, for a run of module `M` with configuration `C.cfg` in `PROJECT.json`:

    tlc -workers 2 -config C.cfg M
    tlapm RecordSpoolProofs.tla

The largest runs are `session` (820 thousand states), `market` (580), `fleet` (510), `basket` (450),
`chain` (360) and `lifecycle` (340); `basket` and `chain` take about three minutes, `batcher` and `feed` two, the others less; the
proofs of `BasketProofs`, `OrderProofs`, `HubProofs`, `MarketProofs`, `RowBatcherProofs` and `RecordSpoolProofs`
take a few minutes each.
