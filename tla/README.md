# Verification of the ZTE telemetry collector

TLA+ models of the collector in `src/` (Go): devices stream protobuf telemetry
over gRPC, the collector parses it, buffers it in sharded maps and writes it to
PostgreSQL/TimescaleDB in batches. The models are checked with TLC on small
instances; every safety property that a passing run checks, the refinement of
the abstract `Delivery`, and that the composition implements both its parts, are
proved with TLAPS for every size. Liveness is model-checked.

## 1. Inventory

| Part | State | Operations | Hard behaviour |
|---|---|---|---|
| buffer manager (`internal/buffer/buffer_manager.go`) | five sharded maps, five bounded channels, counters, `stopChan` | `Add*Metrics`, `Flush*Metrics`, writers, `writeWithRetry`, timer, `Stop`, `GetStats` | many goroutines on the same maps and channels; time-outs whose database call runs on; full channels; shutdown |
| sharded map (`sharded_map.go`) | 16 shards, one lock each | insert, `Len`, `SwapAll` | neither `Len` nor `SwapAll` is atomic over the shards |
| gRPC collector (`internal/collector`) | connection registry, per-stream context, shutdown channels | `Publish`, register/unregister/activity, watcher goroutine, monitor, `Stop` | a variable shared by two goroutines without synchronisation; time-out against activity; shutdown order |
| main (`main.go`) | signal channel, previous counter values | start-up, shutdown, metrics loop, alert thresholds | `Start` races with the signal; order of the stops; differences of counters that change while they are copied |
| telemetry parser (`internal/parser/telemetry_parser.go`) | three `sync.Pool`s | `ParseTelemetryData`, routing, sixteen handlers | pooled objects shared by all streams; different error policies; order of the route table |
| alarm parser (`alarm_parser.go`) | none | `parseAlarmData` and its decoders | protobuf decodes a message as another type |
| database (`internal/database`) | pgx pool | `BatchInsert*` (COPY), conversions | all-or-nothing commit, lost replies, calls that never return |
| database schema (`create_tables.sql`) | column names and types of three tables | | nothing compares them with the inserts |
| conversions (`parser/helpers.go`), models (`internal/models`) | none | wire value to record, record to column | zero values, ranges, unsigned numbers in signed columns |
| monitoring (`internal/monitoring`) | Prometheus counters and gauges | `Update*`, served over HTTP | counters only grow, so each round must add exactly what is new |
| configuration, logger, generated code | | load; log; decode | defaults, zero values |

Interaction: a `Publish` handler calls the parser, then the `Add*` call of each
kind of metric, then answers the device. An `Add*` call that finds the map at
its threshold starts a flush goroutine; the timer and `Stop` flush all tables.
A flush empties the map into batches and sends them to the table's channel, or
writes them itself when the channel is full. Writers take batches from the
channel and call the database through `writeWithRetry`. `main` stops the
collector, which stops the buffer manager and then drains the handlers.

What makes each part correct:

- *buffer manager*: a record that was accepted is written, still on its way, or
  accounted for as given up; it is in one place at a time; it is written again
  only when the outcome of an attempt is unknown; `Stop` takes what is in the
  map, and returns.
- *collector*: an answer means the data is buffered; a time-out report means a
  silent device and the other way round; shutdown drains and ends.
- *parser*: the result of a message is a function of that message, whatever is
  parsed beside it; the most specific route wins; no report is lost.
- *conversions, merge, keys*: a row is one element of one device and one second;
  each of its values has one definite origin; no value changes its meaning on the
  way to a column, and one that does not fit is refused, not altered.
- *schema*: the columns that an insert names exist and take the values it hands over.
- *monitoring*: exported counters never run ahead and catch up; alert, gauges and
  connection check agree.

The hazards are listed in `PROJECT.json` with the line where each one bites and
the properties that would catch it.

## 2. Modules

| Module | Models |
|---|---|
| `BufferManager` | the buffer manager for one table, from `Add*` to the commit in the table, with the timer and `Stop` |
| `Delivery` | abstract specification: a record is accepted, pending, then stored or lost, and stored at most a given number of times |
| `BufferManagerProofs` | theorems about `BufferManager`: types, `Stop`, nothing vanishes |
| `CustodyProofs` | who holds a record and how often it is stored; the refinement of `Delivery` |
| `ThresholdProofs` | the flush threshold |
| `Collector` | start-up, `Publish` handlers, registry, contexts and watcher, monitor, `SimpleCollector.Start` and `Stop`, end of `main` |
| `CollectorProofs` | theorems about `Collector` |
| `Parser` | `ParseTelemetryData` with pools, route table, handlers; alarm messages |
| `ParserProofs` | theorems about `Parser`: pools, non-interference, results |
| `Records` | the fields of a record: conversions of the parser, keys, merge, columns, COPY of a batch |
| `RecordsProofs` | theorems about `Records`: keys, merges, columns, refusals, counters |
| `Monitoring` | metrics loop, `GetStats`, Prometheus counters and gauges, alerts, connection check |
| `MonitoringProofs` | theorems about `Monitoring` |
| `Pipeline` | `Collector` and `BufferManager` composed, with the connection pool that `main` closes last |
| `PipelineProofs` | the composition implements both components; theorems about the whole |
| `MCBufferManager`, `MCCollector`, `MCParser`, `MCRecords`, `MCMonitoring`, `MCPipeline` | constants for TLC |

### BufferManager

The five tables run the same code on disjoint state, so one table is modelled.
A record is an opaque value with a key (`KeyOf`, the aggregation key) and its key
a shard (`ShardOf`, the hash). A *row* is the set of records one map entry stands
for: the platform, interface and subinterface tables merge a record into the
entry of its key, the alarm and notification tables overwrite it (`Aggregates`).
Which fields survive a merge is the subject of `Records`. A *batch* is a set of
rows; a Go map has no order, so neither do batches.

| Code | Actions |
|---|---|
| `Add*Metrics` | `BeginAdd`, `AddOne` (one record under its shard's lock), `CountAdded`, `ScanShard` (`Len`, shard by shard), `ReturnBelowThreshold`, `ReturnAndFlush` |
| `Flush*Metrics` | `SweepShard` (`SwapAll`, shard by shard), `Enqueue`, `WriteDirectly`, `FlushGivesUp` |
| writers | `Dequeue`, `WriterGivesUp`, `WriterExits` |
| `writeWithRetry` | `StartAttempt`, `AttemptErrs`, `AttemptTimesOut`, `WriteSucceeds`, `OrphanEnds` (a timed-out call that runs on) |
| `BatchInsert*` | `CallCommits`, `CallFails`, `ReplyIsLost` (external: the server committed, the reply did not arrive) |
| timer, `Stop` | `TimerFire`, `TimerExits`, `Stop` |

The database is not trusted with anything but atomic COPYs: a call may stay
"running" for ever. `overwritten`, `failed`, `dropped`, `doubtful` and
`beforeStop` are history variables; no guard reads them.

The refinement mapping to `Delivery` is `ImplementsDelivery`: a record is pending
while the map, a flush, the channel or a write holds it.

### Collector

One action per step of a handler between two points where another goroutine can
observe it: `Receive`, `Process`, `Send`/`SendFails`, `Cancel`, `Renew`. The Go
variable `ctx` is written by the handler and read twice by the watcher, without
synchronisation: at the start of its `select` (`WatcherStarts`) and after it has
woken (`WatcherEnds`). Both contexts have the same dynamic type, so a read yields
one of the contexts stored, never a mixture. `gen` counts the contexts; every
context but the newest has been cancelled. Time is a counter; `DataTimeout` is
`dataTimeout` in its units. The buffer manager appears through its calls:
`added` at an `Add*` call, `StopBuffer` for the last flush.

`main` runs `LoadConfig`, `NewDatabaseWithConfig` and `Launch`, then waits for a
signal while `Start` goes through `Listen`, `MakeServer` and `Serve` in a goroutine
of its own. `c.listener` and `c.server` are written there and read by `Stop`
without a lock. A `Listen` that fails is logged and the program stays up without
a server. `Stop` waits at most five seconds for the monitor before it looks at
`c.server`, so it finds `nil` only when `Start` is that late or has failed
(`StopFindsNoServer`); `DrainedAtExit` speaks of a `Stop` that
found the server. A time-out report is a log line: it says "将断开连接" (will be
disconnected), but `handleConnectionTimeout` counts connections and logs, and the
stream stays open.

### Parser

One state machine per goroutine in `ParseTelemetryData`, and an object per parser
and pool. `content` is what an object holds: `proto.Unmarshal` resets it first
(external), a failing one leaves `Damaged`. The machine reads the message and the
entry *through* the pooled objects, so an object that is in two hands shows up as
a wrong result. Paths are sequences of fragments cut where the prefixes of the
table end, which makes `strings.HasPrefix` the prefix relation on sequences. Each
handler is a record of what distinguishes it: pool, table, what a damaged entry
does (skip it or fail the message) and how many metrics an entry yields.

### Records

A report is an element, a time, the sections of the protobuf message it has and
their wire values (natural numbers; 0 is the default that is not transmitted). A
field stands for all fields of its struct with the same type and the same
treatment on the whole way; `Fields` gives its section, its conversion and
whether `merge*Metric` takes it over. Keys are sequences, so that joining with
"_" and truncating to seconds are modelled as what they do. Any name may have the
separator in it, the system id included, which may be a host name; only the name
of a subinterface is a number. So two devices can share a key, if the id of one
is that of the other followed by "_" (`GoesOn`): `RowIsOneElement` says that
nothing else does, and `two_devices` shows that this happens.

`ColumnTypes` has the types of `create_tables.sql`. The tables of alarms and
notifications are not in that script; their types are taken from what the inserts
hand over (external). `Fits` says which values a column takes: what pgx encodes for
the type (`Accepts`, external) and what is in its range.

The repository describes the tables twice, and neither description fits the
inserts. `create_tables.sql` has all columns, but names the first one `time` where
every insert says `timestamp`; the tables in `src/README.md` have `timestamp`, but
lack columns that the inserts name (`uptime`, `used_power`, `ifindex` and others).
`TimeColumn` is the name in the database that the program is run with. With the
name of the script `HasColumns` is false, every batch of the three tables is refused
and nothing is ever stored in them. The runs therefore have `timestamp` with the types
of the script, as in a database in which that column was renamed; the theorems hold
for either name.

| Code | Definitions |
|---|---|
| `stringPtr`, `uint*Ptr`, `float64Ptr`, `timePtr`, `convert*` and their calls in the handlers | `Convert`, `Parsed`, `Record` |
| `generate*Key` | `generatePlatformKey`, `generateSubinterfaceKey`, `generateAlarmKey`, `generateNotificationKey` |
| `merge*Metric`, `Add*Metrics` | `mergeMetric`, `AddAggregated`, `AddReplacing` |
| `safe*`, the rows of `BatchInsert*` | `platformColumn`, `interfaceColumn`, `subinterfaceColumn`, `alarmColumn`, `notificationColumn` |
| `create_tables.sql` | `platform_metrics`, `interface_metrics`, `subinterface_metrics`, `Fits`, `HasColumns` |
| COPY of `BatchInsert*` | `CopyBatch` |

What a reader of the tables should know, and the model shows. An unsigned number
above the signed range is stored as a negative one in the platform table and the
optional columns of the alarm tables. In the interface tables it is refused, with
its whole batch and on every retry. So is, in a `NUMERIC(5,2)`, a utilisation of
1000 % or more and a CPU, memory or storage percentage of 1000 or more, which the
parser takes from the device unchecked; and every state of the optical alarm,
which is a text in an `INTEGER` column. A time that was not set is stored as 1970;
a state of 0 (`INVALID`) is stored or left empty depending on the handler.

### Monitoring

One round of the metrics loop is `TickerFires`, `CopyCounter` (twice, in either
order), `ReadPool`, `GetConnectionStats`, `updatePrometheusMetrics` (if there is a
server) and `checkAlertThresholds`; records are counted, writes given up and
connections opened, used and closed between any two of them. `GetStats` copies
the counters under a lock that the atomic adds do not take, hence one read per
counter. The connection snapshot is taken under the registry's lock, hence in one
step. "success" counts records that were *accepted* (`TotalRecordsProcessed`), not
written ones, and a flush that writes directly and fails is not in `TotalErrors`.

`src/docs/zombie-connection-logic.md`, `zombie-logic-summary.md` and
`ZOMBIE_DETECTION_SUMMARY.md` describe this part differently: keepalives pass through
`stream.Recv()` and renew `LastDataTime`, so that the gauge stays at 0 while the log
reports that all connections are stale. In the code `LastDataTime` is renewed after
`Recv` has returned a message (`updateConnectionActivity`), and gRPC answers
keepalives in the transport without handing them to `Recv`; gauge, alert and log are
computed by one function from one registry. The model follows the code: time passes
for an open connection until a message comes. `SilenceIsNoticed` is thus the
opposite of what the documents say of lasting silence. What the two observers do disagree on
is the moment: each looks when its own ticker fires, and the warning needs more
than half of the connections where the alert needs `StalePercent`.

### Pipeline

Two instances, `C` of `Collector` and `B` of `BufferManager`, whose records are the
messages with telemetry and whose clients are the handlers. A step of the program
is a step of one of them, or of both where one calls the other:

| Code | Steps |
|---|---|
| `processPublishArgs` calls `Add*` | `CallAdd`, `AddGoesOn`, `AddReturns` (the call returns and `C!Process` is done, in one step) |
| `SimpleCollector.Stop` calls `bufferManager.Stop` | `CallStop`, `StopReturns` (when the flush of `Stop` has ended, with `C!StopBuffer`) |
| deferred `db.Close()` of `main` | `ClosePool`, `Exit` |

`pgxpool.Pool.Close` (external) waits until every connection has been given back
and refuses attempts that begin after it was called. So an attempt that was given
up by `BatchTimeout`, but whose call has not returned, keeps the program from
exiting: `main` sets no limit on the close. `ShutdownEnds` therefore has the
premise that calls return, beside the one that devices close their streams, on
which `GracefulStop` waits. `SimpleCollector.Stop` stops the buffer
manager before `GracefulStop` drains the handlers, so a message may be added and
answered after the last flush, and its record is still in the map when the program
exits. `ExitLeavesLateRecords` says that such records are the only ones. The
watchers, the deadlines of their contexts and the clock are left out of the composition, since no other goroutine looks at them.

## 3. Runs

| Run | Shows | Instance |
|---|---|---|
| `sharing` | one hand per record; a map at the threshold is being flushed; types | 2 handlers, 3 records on 2 keys in 2 shards, 1 threshold flush, timer, 1 writer, channel of 1, writes that fail |
| `retry` | nothing vanishes but by being overwritten or given up; duplicates only after an attempt of unknown outcome, at most `RetryAttempts`; written counter; refinement of `Delivery` | a table that overwrites (`Aggregates = FALSE`), 3 records on 2 keys, 2 attempts, lost replies and time-outs, channel of 1, batches of 1 |
| `live` | the flush of `Stop` takes the whole map; every buffered record is settled, and `Stop` and all goroutines end (liveness) | 2 records, batches of 2, `Stop` at any moment, the database may hang |
| `collector` | answers, time-out reports, the exit finds no handler and an empty registry; no leaked watcher and a shutdown that ends, from whatever point of the start-up (liveness) | 1 stream, 2 messages, clock 0..2, time-out 1 |
| `parser` | results against the reference definition while a second parser interferes through the pools; no metric of another message; pools | one parser takes every route, paths below it, no entry or two (the first of every shape, the second damaged or with several elements), all alarm paths; the other two messages of a second device |
| `rows` | origin of every value of a row; rows, counters, refusals, numbers at the limits | up to 3 reports out of 49 for all five tables, two devices one of whose ids goes on where the other ends, numbers at 0, `Half` - 1, `Half`, 2`Half` - 1 |
| `monitoring` | exported counters, alerts (safety); counters catch up, silence is noticed (liveness) | 2 connections, time-out 1, threshold 50 % so that one of two is exactly at it, 2 records, 1 error, with and without a server |
| `pipeline` | an answered record is held, stored or given up through the whole shutdown, and the exit leaves only what came after `Stop` (safety); an answered record is settled, and the program exits (liveness) | 1 stream with 1 message, threshold 1, timer, 1 threshold flush, 1 writer, failing, hanging and refused attempts, a signal at any moment |

Runs that are expected to fail, each a disagreement between the code and what
its comments, log lines or docs say (details in `PROJECT.json`, "findings"):

| Run | What the counterexample shows |
|---|---|
| `stop_loses` | `Stop` closes `stopChan`, which sends the writers home, and only then flushes into their channels: batches stay there |
| `no_report` | the only watcher ends at the first `cancel()`: a device that falls silent after its first answer is never reported |
| `merge_loses` | the CPU and the temperature section of one component arrive as two messages in one second: they share a key, the merge takes over six fields only, and the second section never reaches the table |
| `two_devices` | component `1_card` of device `r` and component `card` of device `r_1` have the same key: the report of the second device is merged into the row of the first |

Three more disagreements are in what passing runs show. `parser`: the generic case
of `alarm_parser.go` announces that notifications are tried after alarms, but
`ReportsKept` says that on such a path the result has no notification; an entry
with notifications only becomes one blank alarm, because the decoder of an alarm
accepts it. `rows`: the requirements and `src/README.md` have the state of the
optical alarm as a text, the script has an `INTEGER` column, and this text is one
of the causes of a refusal in `RefusedForCause`. `monitoring`: the documents on
stale connections say that keepalives keep a connection active, and
`SilenceIsNoticed` says that a connection without messages is reported.

**Bounds.** `Spawned` bounds the threshold flushes at work at once; an `Add` that
would start one more waits in the model, which removes interleavings and adds
none. A channel of one batch with batches of one row makes the full channel and
the direct write frequent, and a flush hold several batches. Two shards are
enough for a scan or a sweep to be overtaken between shards. `MaxMsgs` and
`MaxTime` bound the collector: two messages are needed to renew a context, and a
clock that reaches twice the time-out lets the second context expire. `Env` selects
which failures a run has. Two entries per message show what a damaged entry does
to the one before and after it. In `Records` a second is two ticks and `Half` is 4
in place of 2^31 and 2^63: what matters is on which side of it a number is; three
reports are enough for a value to be merged, overwritten and merged again. In `Monitoring` ages beyond the
time-out are one value, and `MaxRecords` and `MaxErrors` allow an add before,
during and after a copy. `Pipeline` has one message, one shard and one attempt: it
is about the order of calls between the parts, and the interleavings inside the
buffer manager are those of `sharing`, `retry` and `live`. Symmetry is used in the safety runs of `BufferManager`
only: of records with the same key, and of handlers. Deadlock is checked except
in the runs of the collector and the pipeline, the two with `Stop` (`live`,
`stop_loses`), and those of `Records`: these behaviours end by design.

**Fairness.** A goroutine that can run does run (weak fairness of the steps of
each handler, flush, writer and retry loop): the Go scheduler. The flush timer,
`BatchTimeout` and the context timers fire. `TimerExits` is strongly fair: after
each flush the timer is armed anew for `FlushInterval`, so the next `select` of
that loop finds only the closed `stopChan`. `Pipeline` assumes the same of the same
goroutines. `Start` goes on (`StartStep`), the clock
advances, and the tickers of the metrics loop and of the connection check fire. Nothing is assumed of the database,
the devices, the arrival of messages or the operator. A database call that never
returns is therefore part of `live`, and what ends the wait is the time-out of
the attempt.

## 4. Proofs

All theorems are about `Spec` of a model with arbitrary constants. What is assumed
of the constants is named `...Assumption` in the module that declares them and
evaluated by TLC in every run of that module. A theorem has a strengthened invariant where the
property is not inductive; the invariant, and why the property alone does not do,
is what each paragraph tells. Names are given as they are in the modules.

**`BufferManagerProofs`**, for any numbers of records, keys, shards, handlers,
writers and flushes. Assumptions: records and keys are finite sets, keys have
shards, the goroutines are distinct, `QueueCap` and `MaxBatchSize` are positive
(with `MaxBatchSize` 0 the loop of a flush never advances), `RetryAttempts` is a
natural number.

- `TypeCorrect`: `Spec => []TypeOK`, inductive as it stands. It includes that the
  channel keeps to its capacity and a write to its attempts.
- `StopSweeps`: `Spec => []StopSweepsMap`. Inductive invariant `StopInv`: the
  records counted as being there before `Stop` were all inserted, so no later
  `AddOne` can put one of them back behind the sweep (`InsertedIsStable`).
- `NothingIsForgotten`: `Spec => []NothingVanishes`. Inductive invariant
  `CustodyInv`. `NothingVanishes` alone is not inductive: a successful call lets
  go of its batch, which is safe only because the batch of a call that returned
  "ok" is in the table (`CallInv`), and an `AddOne` needs that a record still to be
  inserted is in no other handler's message (`AddInv`). `CopiesGrow` says that a
  stored record stays stored, `AccountedStep` is the case analysis over the actions.

**`CustodyProofs`**, under the same assumptions. Its invariants build on each other.

- `NobodyShares`: `Spec => []SingleCustody`. The property counts places; the
  inductive invariant `HandInv` says the same of each record alone: it is in at most
  one of map, flushes, channel and writes (`OnePlace`), there with one goroutine, in
  one batch and one row (`OneFlush`, `OneBatch`, `OneWrite`). It is kept because a
  message is in one handler only (`MsgInv`), a map entry has records of its own key
  (`KeyInv`), and a record that is still to be inserted has left no trace
  anywhere, not even in a call that nobody waits for (`TraceInv`).
- `StoredWithinAttempts`: `Spec => []CopiesBounded`. Late commits make the property
  itself useless as an induction hypothesis. `LoadInv` counts, for a record, the
  copies in the table, the orphaned calls that may still commit, and the call
  that is under way: together they are at most the attempts that the retry loop
  holding the record has started, and there are none before it reaches a writer.
- `DuplicateImpliesDoubt`: `Spec => []NoDuplicateWithoutDoubt`. `DoubtInv`: a
  record whose outcomes are all known has no orphaned call, and whoever holds it
  for writing has it stored exactly if its call has returned "ok".
- `CountedIsStored`: `Spec => []WrittenIsStored`. `WrittenInv`: `written` is at most
  the number of records that are stored and in nobody's hands. Records, not rows, are
  counted: rows hold at least one record (`FullInv`) and no two the same
  (`RowsWithinRecords`), and such a record stays settled (`DoneStays`).
- `DeliveryImplemented`: `Spec => ImplementsDelivery`. `DeliveryStep` maps every
  step under `HandInv` and `LoadInv`; the same case analysis of who hands what to
  whom (`HandedOn`, `LetGo`, `Taken`) gives both this theorem and the counter's.

**`ThresholdProofs`**: `FullMapIsFlushed`, `Spec => []ThresholdHonoured`. The property
speaks of the moments without an `Add` call and is silent about all others, so it
cannot be inductive. `WatchInv` says what holds in between: a map at its threshold is
watched by a handler whose `Len` has counted at least the entries now in the
shards it has passed, or by a flush that has every occupied shard before it.

**`CollectorProofs`**, for any number of streams and messages, any time-out and any
order of start-up, handlers, watchers and shutdown. Assumptions: `Streams` is
finite, `DataTimeout` positive, the bounds are natural numbers.

- `TypeCorrect`: `Spec => []TypeOK`. That `activeConnCount` is never negative needs
  `RegistryInv`: the registry is the set of streams whose handler is at work, and
  the counter its cardinality. `MessageInv` says that a handler past `Recv` has a
  message. `CollectorInv` is their conjunction and the base of the others.
- `AcksAreBuffered`: `Spec => []AckMeansBuffered`. The strengthening `AnswerInv`: a
  handler about to send has a message that parsed, and whose records were added.
- `ExitIsDrained`: `Spec => []DrainedAtExit`. `DrainInv` says it of the handlers; it is
  kept because a stopped server accepts no stream, and `RegistryInv` carries it
  over to registry and counter.
- `ReportsAreOld`: `Spec => ReportIsOld`, an action property. `DeadlineInv`: a
  deadline is `DataTimeout` after the renewal, and an expired context is past it.
  The watcher's second read of `ctx` may be of a newer context than the one it
  waited for; the invariant holds for that one too.

**`MonitoringProofs`**, for any finite set of connections and any thresholds.

- `TypeCorrect`: `Spec => []TypeOK`, inductive as it stands with two lemmas on the
  snapshot and the ratio.
- `ExportsOnce`: `Spec => []ExportedIsSeen`. Not inductive alone, since adding a
  difference is right only if it is not negative and not too large:
  `CopiesBetween` says that what a round has copied lies between what was last
  exported and the counter as it is now.
- `AlertsAreExact`: `Spec => []AlertIsExact`. The property compares the alert with the
  gauges after the round, when the snapshot it was taken from is gone:
  `GaugesAreSeen` ties the two while the round lasts. `WholePart` and
  `ReachesExactly` say that the ratio, which is a quotient of integers, reaches the
  threshold exactly when the product it stands for does.

**`PipelineProofs`**, for any instance.

- `ImplementsCollector` (`Spec => C!Spec`) and `ImplementsBufferManager`
  (`Spec => B!Spec`). Every step of the composition is, seen from one component, one
  of its steps or leaves its variables alone. `CP` and `BP` are instances of
  `CollectorProofs` and `CustodyProofs` with the same substitutions; their
  assumptions follow from those of `Pipeline`, so the theorems about the components
  are theorems about the program (`CollectorHolds`, `BufferManagerHolds`).
- `ProgramDelivers`: the program implements `Delivery`, from the start of `main` to its
  exit.
- `AnswersAreHeld`: `Spec => []AnsweredIsHeld`. Neither component knows both ends of
  this. `CallerInv` ties a handler in an `Add` call to the message it has received,
  `AddedInv` says that the record of a message that counts as added was inserted;
  the rest is `AckMeansBuffered` of one component and `NothingVanishes` of the other.
- `ExitAfterFlush`: `Spec => []ExitLeavesLateRecords`. `StoppedInv`: once
  `SimpleCollector.Stop` has come back from the buffer manager its flush is over and
  none begins again in its place, and `StopSweepsMap` says what that flush took.

**`RecordsProofs`**, for any reports of the five tables and any width of the
numbers. Assumption: a report has the sections and the wire values that its table
allows (`ReportSpace`); its names are any sequences.

- `RowsAreSound`: `Spec => []RecordsInv`: every row in a map, in a table or in a
  refused batch satisfies `RowInv`, sits under its own key, and fits its columns if
  it is stored. `RowInv` is what a merge preserves; besides what the properties
  say it has to carry along that, of the reports behind a row that have a field,
  there is a last one (`LastHaving`), to which the explanation of its value refers.
- `KeysSeparate`: `Spec => []RowIsOneElement`. `KeyTellsElement`: equal keys come
  from the same second, and from the same element or from devices one of whose ids
  goes on where the other ends. The separator after the system id of one key is, in
  the other, at the end of the system id or within it (`LongerGoesOn`,
  `KeyIsUnique`); the number of a subinterface is one part, so that the last
  separator ends the name (`SubKeyIsUnique`). `RowInv` has to carry along that the
  names of a row are those of its first report, since the later ones may differ.
- `MergesExplained`: `Spec => []RowExplained`, for any number of merges.
- `RefusalsHaveCause`: `Spec => []RefusedForCause`. `ColumnsSuit` goes through all
  fields and the types of their columns, `Conversions` through what the parser makes
  of a wire value; `Refusal` puts the two together: which values of which kinds a
  column does not take. The one column of a wrong type, that of the optical alarm, is
  part of the statement (`Unstorable`); any other would refute it.
- `ColumnsAreExact`: `Spec => []NumbersRecoverable`, with `TwosComplement`.
- `NothingUncounted`: `Spec => []RecordsCounted`. `CountInv` adds that the maps are
  finite; each step changes the size of one map and the counters by the same amount.

**`ParserProofs`**, for any number of parsers and any messages. Assumptions: counts
are natural numbers, a bare `CurrentAlarm` is one alarm, and "nothing", which marks
a metric that came from no element, is nobody's name.

- `PoolsShared`: `Spec => []PoolsExclusive`. The property counts holders; `PoolInv`
  says of each object that it is in its pool or in one hand of one parser, and of
  each parser at which points it has which object.
- `ResultsAreOwn`: `Spec => []OwnMetricsOnly`. `Undisturbed` is non-interference: what
  a parser reads through its objects is what it has decoded into them, although every
  other parser may be decoding into objects of the same pools. `OutInv` follows.
- `ResultsAreDue`: `Spec => []ResultDependsOnMessageOnly`, and `NoReportLost`:
  `Spec => []ReportsKept`. `Progress` says how far a parser has come: its result is
  what the entries before the current one yield, one after the other, and a handler
  that does not skip has met no damaged one. The table of the routes is searched for the
  first match, the reference takes the longest prefix: `FirstIsBest` is that these
  agree for every path, as of two routes that match one the longer comes first
  (`RouteOrder`, from `RouteShape`, which says how a path begins that a route
  matches).

`FlattenSeq` of the community modules is recursive. What `Progress` needs of it is
proved by induction nevertheless, with a set where the library's theorem has an
operator as parameter (`Induction`): the set of positions up to which a
statement holds has 0 and with each number the next, and a least number outside it
cannot exist (`LeastElement`). `FlattenMore`, `FlattenJoin` and `NotBlankParts` come
from that. `NotBlank` is a `FlattenSeq` for the same reason.

**Reading the modules.** `UNION A \cap UNION B` and `SUBSET X \ Y` are read differently
by SANY and tlapm: SANY lets the prefix operator bind closer. Parentheses are put
wherever the two could disagree.

**Only model-checked.** Liveness (`Delivered`, `StopReturns`, `WatcherGoesAway`,
`ShutdownCompletes`, `ExportCatchesUp`, `SilenceIsNoticed`, `AnsweredIsDelivered`,
`ShutdownEnds`): fairness and `ENABLED` are outside the prover's reach. And the runs
that are expected to fail, whose counterexamples are TLC's.

## 5. Not modelled

- The pgx pool (external: what it refuses, and that a COPY is all or nothing, is
  modelled from its use), the log, GOMAXPROCS and the status reporter, which reads
  and logs.
- Gauges that copy a number nothing depends on (buffer lengths, memory, open and
  idle database connections). `Stop` of the Prometheus server is never called.
- Parsing of the configuration file: its values are the constants of the modules,
  and its failure ends the program in `Collector`.
- Code that the program does not call: `internal/database/helpers.go`, the
  formatting functions and enum methods of `internal/models`, the
  `*StatusToString` and unit helpers of the parser, `Get`, `Set` and `Swap` of the
  aggregating maps.
- Generated protobuf code beyond the shape of the messages and the defaults of
  the getters: descriptors and accessors.
- JSON telemetry: not implemented in the code (`TODO` in `processPublishArgs`).

## 6. Plan

Done: all modules of section 2, and the theorems of section 4 for every safety
property of section 3.

What is left:

1. The safety part of the liveness properties: that the invariants they rest on (a
   goroutine that is to act can, as long as something is left to do) hold for every
   size. The fairness argument on top of them stays with TLC.
2. Deadlock freedom of the buffer manager as an invariant: in a state without a
   step `Stop` has returned and every goroutine has ended.
3. `Pipeline` with more than one message per stream in a run of its own; the
   theorems hold for any number already.
