# onos-kpimon in TLA+

A verification project for [onos-kpimon](../src/README.md), the xApp that
subscribes to the KPM service model of E2 nodes, collects the measurements they
report, keeps them in a store, writes them to the topology and serves them over
gRPC. The modules here are translated from the Go code; TLC checks them on small
instances and TLAPS proves the theorems listed below for all values of their
constants. `PROJECT.json` lists the components, the runs, the mutants, the source
lines of every definition, the hazards and the theorems.

## 1. Inventory

Paths are relative to `src/pkg`.

| Component | State | Operations | Runs in |
|---|---|---|---|
| subscription stream (`broker/stream.go`) | buffer of at most 10000 indications, closed flag, condition variable, unbuffered read channel | `Send`, `Close`, `Recv`; `drain`/`next` | forwarders, monitors, one drain goroutine per stream |
| stream broker (`broker/broker.go`) | maps `subs` (by channel) and `streams` (by StreamID), counter, RWMutex | `OpenReader`, `CloseStream`, `GetWriter`, `ChannelIDs`, `Close` | every goroutine of the subscription manager |
| subscription manager (`southbound/e2/subscription`) | none of its own; uses broker and stores | `watchE2Connections`, `createSubscription`, `createSubscriptionActions`, `sendIndicationOnStream`, `watchConfigChanges` | two watchers, a goroutine per announced node, a forwarder per subscription |
| indication monitor (`monitoring`) | none of its own | `Start`, `processIndication`, `processIndicationFormat1` | a goroutine per subscription, and the caller of `Start` |
| action store (`store/actions`) | action definitions by SubID | `Put`, `Get` | subscription manager, monitors |
| measurement store (`store/measurements`, `store/watcher`, `store/event`) | latest measurements by node and cell; watchers | `Put`, `Get`, `Delete`, `Entries`, `Watch`; `Send`, `AddWatcher`, `RemoveWatcher` | monitors, topology watcher, gRPC handlers, a goroutine per event |
| topology client (`rnib`) | none; entities live in onos-topo | `HasKPMRanFunction`, `GetCells`, `GetCellTopoID`, `UpdateCellAspects`, `E2NodeIDs`, `WatchE2Connections` | its callers |
| northbound service (`northbound`) | none | `ListMeasurements`, `WatchMeasurements` | gRPC handlers, a collector goroutine |
| parser and conversions (`utils`) | none | `ParseEntry`, PLMN decoding, event trigger data | their callers |
| configuration (`config`) | report period, granularity period, in the configuration library | `GetReportPeriod`, `GetGranularityPeriod`, `Watch` | subscription manager, monitors |
| application manager, main (`manager`, `../cmd`) | the stores and the broker it creates | `NewManager`, `Run`, `startNorthboundServer` | main goroutine |

How an indication travels: the E2 client writes it to a channel; a forwarder
(`sendIndicationOnStream`) sends it to the stream of the subscription; the drain
goroutine of the stream hands it to the monitor blocked in `Recv`; the monitor
finds the cell (from the indication, or by its SubID in the action store), puts the
measurements in the store, whose watchers are told, and updates the cell entity.

How a node is subscribed: a topology event makes the topology watcher start a
goroutine, which reads the topology and the configuration, stores an action
definition per cell, subscribes, opens the stream of the channel the E2 service
returned, starts the forwarder and a monitor, and stays in `Monitor.Start`.

What is hard about it:

* **Concurrency.** A stream is shared by a forwarder, a drain goroutine and
  monitors through a condition variable and a channel; the broker tests and inserts
  under different locks and keeps one of them over a remote call; all nodes share
  the action store.
* **Failure.** Every remote call may fail at each place; the code logs, drops,
  returns, or goes on, and it matters which. An error ends a watcher, a forwarder, a
  monitor, or the process.
* **Ordering.** End of a stream against its pending indications, subscription
  against the definitions it needs, removal of a node against its monitor.
* **Restart.** Nothing is persisted.

What makes each component correct: a *stream* is a bounded FIFO queue that loses
nothing it accepted and ends only when empty; the *broker* has at most one stream
per subscription, gives a forwarder the stream its monitor reads, and closes a
stream exactly when it forgets it; the *subscription manager* ends up monitoring
every node that is announced, files measurements under the right cell, clears what
belongs to removed nodes, and applies a changed report period; a *monitor* shows the
same, latest, indication in store and topology, and survives errors; the
*measurement store* delivers changes to its watchers in order and to all of them.
Some of these the code does not have; section 5 says which.

## 2. Plan

Written so far, in order:

1. `IndicationQueue`, `Stream`: the queue a subscription stream promises, and the
   stream with its goroutines that implements it.
2. `Broker`: the two maps and the locks.
3. `Subscriptions`: the manager, with the topology, the action store and the
   measurement store as it sees them; crash and restart.
4. `Monitor`: the goroutine and the `Start` of monitors on one stream.
5. `MeasurementStore`: the steps of store and watchers; `Northbound`: the two
   handlers and the start of the application on top of it.
6. `SubscriptionTable`: what `OpenReader` and `CloseStream` look like to their
   callers; `Broker` implements it.
7. `Records`, `MonitorData`: what is in an indication, in the store, in the cell
   entity and in the answer of the northbound service.

Left, in order of importance:

8. `Kpimon`: forwarder, stream, broker and monitors composed, with `CloseStream`
   at any moment; `Stream` and `Monitor` reconciled by a refinement. Its run would
   take over what `stream_eof` and `monitor_close` show one by one.
9. The Puts and Deletes of `Subscriptions` and `Monitor` as those of
   `MeasurementStore`.
10. Restarts of E2 nodes in `Subscriptions`.

## 3. Modules and the code

### Stream (`pkg/broker/stream.go`)

`Send`, `next` and `Close` run under the mutex of the condition variable and are
one step each: `SendAccepted`, `SendRefused`, `TakeHead`, `Park`, `CloseChannel`,
`Close`. `next` gives the mutex back only in `cond.Wait`, which is the place
`drain = "wait"`; only `Signal` makes it leave that place, because `sync.Cond` has no
spurious wake-ups. The read channel is unbuffered, so a hand-over (`HandOver`) is one
joint step of drain (`s.ch <- ind`) and a reader in the select of `Recv`. `RecvEOF`
and `RecvCancelled` are the other branches of that select; a select takes any branch
that is ready, so all three may be enabled together. A forwarder whose source
channel ends is one that sends nothing more. Readers that saw an error do
not call again (`Monitor` has what they really do). `sent` and `received` are history.

`IndicationQueue` is the abstract specification: `Accept`, `Obtain`, `Shut`, `End`
over the sequences accepted and delivered. The refinement mapping takes
`accepted <- sent`, `delivered <- received`, `open <- ~closed`,
`ended <- drain = "done"`; the capacity is one more than the buffer's, for the
indication drain holds.

### Broker (`pkg/broker/broker.go`)

A critical section is one step. `OpenReader` is two: the read-locked test
(`OpenExisting`, `OpenMissing`) and the write-locked insertion (`Create`).
`CloseStream` is two: `StartClose` takes the write lock and calls `Unsubscribe`, and
`FinishClose` or `AbortClose` is what follows the answer; `mu` says who holds the lock
in between. Streams are represented by their place in `heap`, their address, so that
a second stream of the same channel is a different one. An opener is the goroutine
of `createSubscription` up to the end of its forwarder. `raced` is history: the channels
for which one opener tested while another was between its two locks.

`SubscriptionTable` is the abstract specification, a table from channels to streams on
which `OpenReader` and `CloseStream` are atomic. The refinement mapping takes
`table <- subs`, `minted <-` the addresses allocated, `contested <- raced`: only a
contested channel may have its stream replaced.

### Subscriptions (`pkg/southbound/e2/subscription`)

`job[c]` is the goroutine of `createSubscription` for connection `c`: its program
counter, the cells it found, the period it read, its style, and the number of
definitions it has put. A connection is a control relation of the topology, the k-th
of its node; a node that comes back has another one. The steps of the goroutine are the
calls that touch shared or remote state: `ReadAspects`, `ReadCells`, `ReadConfig`,
`PutAction` (once per cell), `Subscribe`, `OpenReader`, `StartReturns`, and
`CreationFails`, which is an error return of any of those up to `Subscribe`. A RAN
function without report styles ends it in `ReadConfig`, with neither monitor nor error.
The topology watcher is `DropAdded`, `SpawnJob`, `HandleRemoved`, and for a removed node
`ListCells` (or `WatcherReturns`, if `GetCells` fails or finds nothing) and one
`DeleteEntry` per listed cell, between which monitors put entries. `ConfigEvent` is a
pass of the loop of `watchConfigChanges` with the very list `ChannelIDs` returns.
`Report` is a monitor at work, and `Restart` resets everything but the topology, the
configuration and the E2 nodes.

The entities of nodes and cells come and go in the topology between any two calls, so
what a call reads is chosen at the call: any set of cells, any number of styles up to
`Styles`, or an error. A SubID is a place in the list of cells that one goroutine read and
sorted (`SortedLists`); what it stands for is remembered for the node in
`subscribed`, and what the action store makes of it is `actionStore`. The two part when
another goroutine, of another node or of the same node with other cells, puts its
definition under the same SubID (`rekeyed`, history). `late` is history too: the cells
under which the node being removed got an entry again after their deletion.

Represented by what they do: a channel is represented by its node, since the E2 service
derives it from the node and the subscription name, which is constant; a definition in
the action store is the cell it names. A watch of the topology that ends is not
modelled separately: it has the effect of `WatcherReturns`.

### Monitor (`pkg/monitoring`)

`pc[m]` is the place of the goroutine, `start[m]` that of `Start`. The error channel is
unbuffered, so a report (`ReportRecvError`, `ReportProcessError`) is a joint step and
needs a `Start` that still waits. After an error of `Recv` the goroutine goes on to
process the zero indication, which `Panic` ends; after an error of processing it
goes back to `Recv`. An indication that is decoded but has no header, a start time of
fewer than four bytes, or fewer names than values is at the place "malformed" from
`Recv` on, and panics unless it meets an error first. `PutMeasurements` and the two calls of
`UpdateCellAspects` (`ReadCell`, `UpdateCell`) are separate steps; the topology refuses an
update of an entity that changed since it was read (`stale`), and its answer to one it
applied may be lost (`UpdateAnswerLost`). Where the Get answers with nothing, or with an
entity that is no cell, nothing is written and there is no error (`NotACell`). A call
whose context is cancelled may fail or still have its effect. `DeleteEntry` is the
topology watcher deleting the measurements of a removed node, and `CellChanges`
another component that updates the entity or creates it anew. Indications of one cell
are numbered; what is in them is in `Records`. `newest` and `dropped` are history: the latest
indication put, and those that met an error or no cell.

### Records, MonitorData (`pkg/monitoring`, `pkg/rnib`, `pkg/utils/parser.go`)

`Items` is the double loop of `processIndicationFormat1` from a message to the items
of the store, `KpiReports` the one of `UpdateCellAspects` from items to the reports of
the cell entity, `ParseEntry` the one from items to the answer of the northbound
service. A loop is a recursive function from the number of passes to what it has
computed by then. A value is a record of its Go type and its number; `Uint32` is the
conversion to one of `Word` values, and time stamps wrap at `Clock`. `ParseEntry` fills
one item object again for each item and appends it as a pointer: every item of the
answer is what the object holds in the end, the last one.

`MonitorData` gives every indication of `Monitor` its message (`Content`) and says what
`Monitor` needs of them: before the update of the cell entity, and between indications,
when the store shows what one message gave and the entity what one message gave.
`LatestReports` does not mention the loops: it says where in the message the
last value of a name is (`PlacesOf`, `LastPlace`) and what the entity reports for it: the
value, its low 32 bits if `uint32` cannot represent it, 0 for a real number. It
is about every message of `Messages`. `LastItemAgrees` compares the end of the answer
with the entity; it does not depend on what the answer shows of the items before, which
`ParseEntry` replaces by the last. A message has a name for every value of an item
(`IsMessage`, `MessagesAssumption`): one that has not is malformed, and `Monitor` never
puts it.

### MeasurementStore (`pkg/store/measurements`, `pkg/store/watcher`)

`Put` and `Delete` are critical sections. `Entries` holds `mu` from `LockEntries` to
`UnlockEntries` and hands over one entry at a time. `Send` starts a goroutine for every
event: `BeginDelivery` reads the map of watchers (after `Put` returned, without lock),
`NextWatcher` goes on with the range in any order, `Deliver` is the hand-over on the
unbuffered channel, `SendOnClosed` the panic. The range races with `AddWatcher`, which
writes the same map: each delivery that is still on that map (`live`) may or may not
visit the new watcher, and `MapRace` is what Go's own check does about it. `RemoveWatcher`
builds a new map under a single key, so of the watchers that should remain one does
(`Remaining`). An entry is the number of its Put; `last` and `overlap` are history.

The module has the steps and says nothing of who lists and watches. `Northbound` instantiates
it and adds, for each step of the store that needs a partner at a channel, the partner.

### Northbound (`pkg/northbound`, `pkg/manager`)

`list[l]` is `ListMeasurements`, `collector[l]` its goroutine; the two meet in `Collect`
and `Answer`. An empty store returns before `done` is read, and the collector stays in
"offering done" (`ListFails`). `handler[w]` is `WatchMeasurements`; `done` holds the
watches whose context has ended, because the client left (`Leave`) or because the
handler returned (`TellFails`, `LoopEnds` follows the closed channel). `Tell` is one
pass of the loop, with the look-up of the cell, whose failure gives a key without the
global ID. `start` and `server` are the handshake over `doneCh`: `ServeEnds` is a
server that fails after it reported its start, which sends on a closed channel.
Monitors put, and the topology watcher deletes, once the subscription manager runs.

### MC modules and proofs

`MCStream`, `MCBroker`, `MCSubscriptions`, `MCMonitor` and `MCNorthbound` are the
instances TLC checks; the `.cfg` files give the constants, and `MCMonitor` defines the
messages. `StreamProofs`, `BrokerProofs`, `SubscriptionsProofs`, `MonitorProofs`,
`NorthboundProofs` and `RecordsProofs` hold the theorems. Definitions introduced by "Defective variant"
are not part of any specification: each is a plausible mistake in the action that
follows it, and replacing the action by it violates the property `PROJECT.json`
names.

## 4. Runs

| Run | Instance | Shows |
|---|---|---|
| `stream` | 2 forwarders, 2 readers, buffer 2, 4 sends | refinement of `IndicationQueue`; order, no loss, no sleep on work, end-of-file last; accepted indications are delivered, a busy drain closes the channel |
| `broker` | 2 channels, 2 openers, 1 closer, 3 streams | refinement of `SubscriptionTable`; consistency of the maps and of closing under all interleavings; one stream per channel, none replaced, but where openers race; closing the broker reaches every stream; calls return |
| `subs` | 1 node, up to 2 cells, up to 2 styles, 2 connections, restarts at any moment | definitions precede reports; a wrong cell only through a re-keyed SubID; a removal leaves only what was put after it; connections announced are settled |
| `monitor` | 2 monitors, 3 indications; messages of 2 names and up to 2 items | second error is final; what leads to the panic; store and topology agree, and go back only where a monitor is overtaken; arrivals are taken; the cell entity has the last value of every name and agrees with the end of the northbound answer |
| `northbound_watch` | 3 watches, 1 cell, 1 Put | which Puts and watches lead to a panic; an event reaches every client still in the map, and no client hears of what was put after its removal |
| `northbound_list` | 1 lister, 1 watch, 2 cells, 2 Puts | a list is a snapshot; order of events; calls, lock and start-up do not hang |

Six more runs end with a counterexample; section 5 has them.

**Bounds.** The buffer of two fills within two or three sends, drains and fills
again within the four, and both forwarders can be refused; a larger buffer adds no
new place of the drain goroutine. Three streams on two channels let a channel be
closed and opened again while another opener is between its two locks; a closer has
state only while it holds the lock, so that one stands for any number. Two connections of
one node are a reconnection during a subscription, with two goroutines at once; two cells let
them find different ones and re-key each other's SubIDs, let a removal list one of two
cells, and make the loops run more than once, as do two styles. Each connection has at
most two events, so that no bound on events is needed, and restarts and
changes of the period may happen any number of times. One node is enough for what
`subs` asks, and two nodes are what `subs_crossnode` and `subs_watcher` need; the
theorems of section 6 are about any number. Three indications let two monitors hold one each while the next arrives, and
two errors each is all they can meet.
Messages of up to two items of up to two values, with the numbers -1, 2 and 4 where `uint32` has four
values, have equal and different time stamps, the same name twice, names by ID, known and
unknown, and values below, inside and above the range. A watcher is lost by
`RemoveWatcher` only if two others remain, hence three watches; two Puts can overtake
each other, and an `Entries` over two cells can be put into and deleted from between
two entries. `BufferMaxSize`, `CellCount` and `Styles` are
parameters of the code or of its surroundings (most cells of a node, most styles of a RAN
function); `MaxSends`, `MaxStreams`, `MaxConnections`, `MaxPeriod`, `MaxArrivals` and
`MaxPuts` are bounds of the models, and `Word` and `Clock` stand for 2^32 and 2^64. No
run uses symmetry. The largest runs are `subs` with about 300000 and `monitor` with about
430000 distinct states.

**Fairness.** Go's scheduler runs every goroutine that can run, so the steps a
goroutine takes on its own are weakly fair: drain, a reader in its select, a
goroutine of `createSubscription`, the watchers, the goroutine of a monitor.
`sync.RWMutex` blocks new readers once a writer waits and lets waiting readers in
after it, so that a waiting caller is not starved: the two steps of the broker that
wait for its lock are strongly fair. E2 nodes answer `Unsubscribe` and `Subscribe`, and topology
calls return (with any result). The mutex of the measurement store
hands itself to a goroutine that waited for a millisecond: `Entries` is strongly fair.
A client of a watch may stop reading, which blocks `Tell`: `Tell` is not fair, and
`EventReachesWatchers` assumes of the clients what it needs. The process dies finitely
often. Nothing that comes from outside is fair: sending,
closing, cancelling, connecting, a changed period, an end of a stream. Where select
may choose between several branches no branch is preferred.

**Deadlock** is checked except in the runs of `Monitor` and `Northbound`: there the
process may have panicked, or the server failed, after which nothing happens.

## 5. Where code and comments disagree

Each of these is a run that TLC ends with a counterexample.

| Run | Comment | Code |
|---|---|---|
| `stream_eof` | `Recv` returns io.EOF if the stream has been closed (`stream.go:28`) | `Close` does not signal: a reader of an idle stream stays blocked, and so does drain |
| `broker_race` | an existing stream is returned (`broker.go:35`) | the second of two concurrent `OpenReader` replaces the stream of the first |
| `subs_crossnode` | the SubID leads to the cell (`monitor.go:93`) | the action store has one definition per SubID for all nodes |
| `subs_watcher` | a subscription for every new node (`manager.go:299`) | one failed `GetCells` ends the topology watcher |
| `subs_period` | new subscriptions with the new report period (`manager.go:140`) | `ChannelIDs` lists as many empty IDs as there are streams, before the real ones; the first of them ends the configuration watcher |
| `monitor_close` | streams are closed gracefully (`broker.go:41`) | after io.EOF the monitor processes the zero indication and panics |

What the code does instead is proved, for all values of the constants, so that a
reader need not rely on one counterexample:

* A stream closed while its drain goroutine is parked stays so for ever
  (`StreamParkedForGood`).
* The stream that was replaced is out of `CloseStream`'s reach for good
  (`BrokerOrphanForGood`), and there is one only on a channel that openers raced for
  (`BrokerOrphansAreRaced`); its forwarder, drain goroutine and monitor go on. Closing the
  broker reaches it too (`CloseReachesAll`), but nothing in the program calls that.
* A measurement is misfiled only through a SubID that a later subscription re-keyed, one
  of another node or of the same node with other cells (`MisfiledOnlyIfRekeyed`).
* A removal leaves entries under the listed cells, but only those that monitors put
  there after the cell's own deletion (`RemovalLeavesOnlyLate`).
* Once the topology watcher has returned, a node without a monitor and without a goroutine
  that has subscribed to it gets no monitor before a restart (`MissedUntilRestart`).
* The first change of the report period with a stream open ends the configuration watcher
  (`PeriodChangeEndsWatcher`), and no stream is ever closed by the manager
  (`StreamsStayOpen`).
* A monitor at an error nobody reads is stuck for good (`MonitorStuckForGood`); with all
  monitors of a stream stuck, no measurement reaches store or cell entity any more
  (`MonitorsStuckFreezeMeasurements`).
* A watch that was dropped from the map with another is told of nothing more
  (`NorthboundDroppedForGood`), and the collector of a list that found the store empty is
  left behind (`NorthboundFailedListLeaks`).

What is left of these promises holds, and is what the passing runs and theorems state: a drain that
is not parked does end (`BusyDrainCloses`); a stream is replaced only on a channel for
which two openers raced (`OnlyRacersReplace`); a connection is settled, monitored or given up, unless the
watcher has returned (`AnnouncedIsSettled`), and never forgotten
(`NobodyForgotten`); errors of processing alone never lead
to the panic (`PanicCauses` of `Monitor`).

## 6. Theorems

All are proved for arbitrary sets of goroutines, nodes and channels and arbitrary
bounds, from the assumptions in the modules (`StreamAssumption`,
`BrokerAssumption`, `SubscriptionsAssumption`, `MonitorAssumption`,
`NorthboundAssumption`, `RecordsAssumption`), which say
that bounds are natural numbers, that null values lie outside the sets of real
ones, that `Nodes` is finite, and that a node may connect once and the period has a value
(`MaxConnections` and `MaxPeriod` are positive); `Styles` and `CellCount` may be 0.
`MessagesAssumption` is explained in section 3. Every proof about a specification follows the
same line: `Init => Inv`, one step per action that
`Inv` is kept, then the properties as consequences. What holds "for good" is proved in
the same way, with the state that is never left in place of `Inv`; such a theorem
says of the steps, or of every later state, what a liveness property refuted by TLC says
of one behaviour.

* **Stream** (`StreamInv`). `NoLossNoReorder` alone is not inductive: what drain
  holds must be an indication exactly while it offers one. `EofMeansDrained` needs
  that drain is gone only from a closed and empty stream and that only then a reader
  sees io.EOF; the buffer's bound is needed for the refinement.
  `StreamImplementsQueue` maps every step to a step of `IndicationQueue` or a stutter.
  For `StreamParkedForGood`: only a Send that is accepted wakes drain, and a closed
  stream accepts none.
* **Broker** (`BrokerInv`). The key is that the k-th stream allocated has
  StreamID k: an ID is never reused, so the entry under a reader's ID is its stream
  or nothing, whatever was closed or replaced between `OpenReader` and `GetWriter`.
  The closer that holds the lock has a target both maps know; nobody else can
  change them meanwhile. For the channels nobody raced for (`RaceInv`): an opener between
  the locks is the only one, and finds the channel as it left it; hence
  `BrokerOneStream`, `BrokerOnlyRacersReplace` and the refinement `BrokerImplementsTable`.
  `OneOpenerNeverRaces` says that with one opener there is no such exception, and
  `OneOpenerExistingReturned` that then the comment of `broker.go:35`, which `broker_race`
  refutes, is right. An open stream is always in the map of IDs, whoever replaced it in
  the map of channels; hence `BrokerCloseReachesAll`.
* **Subscriptions** (`SubscriptionsInv`). A goroutine has stored the definitions it
  counts, and nothing removes definitions; hence `ActionsComplete`. For
  `MisfiledOnlyIfRekeyed` (`KeysInv`): as long as a SubID is not re-keyed, whatever was
  subscribed under it is the cell in the action store, and so is what a goroutine has
  put and is about to subscribe; only `PutAction` changes a definition, and then it says so.
  For `RemovalLeavesOnlyLate` (`RemovalInv`): an entry of the node being removed
  under a listed cell is still to be deleted or is in `late`.
  `NobodyForgotten` is the part of `AnnouncedIsSettled` that
  needs no fairness (`Accounted`): every step that takes a connection from the queue of events
  or from a goroutine hands it on, to a monitor or to those given up, and a restart
  announces all of them again.
* **Monitor** (`MonitorInv`). The number of errors a monitor has met tells where its
  goroutine and its `Start` can be; at the second the goroutine is stuck. `MeasurementsAdvance`
  holds for any number of monitors: a monitor has put its indication before it updates the
  cell entity (`HandInv`), and the one that put the newest has that one in hand still or a
  later one, as has the one that wrote the cell entity (`TakenInv`); so if an earlier indication
  is shown last, another monitor had taken a later one meanwhile (`Late`). `TopologyFollowsStore`
  is about a monitor that has the stream for itself: between its indications the
  entity shows the one put last, or that one is among `dropped` (`InStep`, `SoleInv`); a
  deleted entry or an entity created anew says nothing.
* **Records, MonitorData**. The statements are about recursive functions, for which the
  provers have no induction of their own. Lemma `Loop` makes it available: the least
  element of a set of numbers exists because `<` is well-founded (`Least`), so a set with 0
  and every successor has all of them (`SetInduction`), so the function a loop defines
  exists; `LoopInvariant` is then the usual rule. The invariants say what holds after j
  values of an item (`ItemHasValues`: the records so far are the values so far that have a
  name, in order), after j records (`ItemReportsAreLatest`) and after i items
  (`KpiReportsAfterItems`: the report of a name is the value at the last place so far).
  That `InTime` messages have advancing time stamps is what lets every record pass the
  test of `UpdateCellAspects`. `ReportsLatest` and `AnswerShowsReports` are about any
  message. `MonitorReportsAreLatest` applies the first to `Messages`.
  `MonitorEntityAgreesWithAnswer` needs `TopologyFollowsStore` besides the second: entry and
  entity come to be about the same indication by the steps of the monitor.
* **Northbound** (`ListInv`, `RemovalInv`, `OrderInv`, one part for each safety property).
  A lister in `Entries` holds the lock, so the store stays what it was when it came in, and what the
  response lacks is what has not been handed out or is being looked up. A delivery
  visits only watches that were added and, of removed ones, only if its Put preceded
  the removal: removing makes a new map, and a delivery that begins later reads it.
  What is still to come to a watch is new to it, and older than something it was told
  only if the two were under way together. `NothingAfterRemoval` follows from
  that and from what was told or is held having been put (`HeardInv`): the last Put before
  the removal bounds all of it. The collector is always there for whoever
  waits for it (`CollectorInv`), so that nobody keeps the lock of the store for want of a
  partner (`NorthboundCollectorServes`), but after an error of `Entries` nobody reads
  what it offers.

Only model-checked: liveness (`AcceptedIsDelivered`, `BusyDrainCloses`, both
`CallsReturn`, `AnnouncedIsSettled`, `ArrivedIsTaken`, `EventReachesWatchers`), since the
installed provers do not reason about fairness. Every invariant and every action property
that a passing run checks is stated by a theorem.

## 7. Not modelled

* `Manager.Stop` panics; nothing calls it.
* Lines 140-157 of `watchConfigChanges` run only when the configuration library
  closes its channel.
* A configuration event with another key changes nothing.
* Logging, options, protobuf encoding, gRPC transport, TLS, `main`.
* The place of a message's cell among several cells: the indications of `Monitor` are
  about one cell, and `Subscriptions` has the choice of the cell.
* What a client is shown of the items before the last (`ParseEntry` replaces them): `Records`
  has it, no property is about it.
* `DecodePlmnIDToUint32` and `E2NodeIDs`: nothing that runs calls them.
* The strings of the keys in northbound answers: an entry is told apart by node and cell.
* `Get` of the measurement store, `Delete`, `Entries` and `Watch` of the action store: not
  called.
