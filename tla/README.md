# drasi-core: a TLA+ verification project

Drasi-core evaluates continuous queries. Sources push changes of a property
graph; a query absorbs them into its indexes and emits the changes of its
result; reactions act on those results. With a persistent backend all three
survive crashes, and the code makes promises about it: results are numbered,
every result reaches a reaction at least once, a query that finds its state
inconsistent refuses or rebuilds. This project models the parts that keep those
promises, from the source's log or replication slot to the reaction's
checkpoint, together with the commands that start, stop and replace components
and the queries that depend on time; it checks them with TLC on small instances,
and proves the safety properties with TLAPS for every instance.

Paths below are relative to `src/`.

## Inventory

| Component | State | Operations | Interacts through |
|---|---|---|---|
| Priority queue (`lib/src/channels/priority_queue.rs`, keyed by `lib/src/queries/priority_queue.rs`) | heap, capacity, one `Notify` | `enqueue`, `enqueue_wait`, `dequeue`, `drain` | forwarder tasks push, one processor pops |
| Durable query (`lib/src/queries/manager.rs`, `queries/base.rs`, `queries/sequence_dedup.rs`) | config hash, source checkpoints, indexes, status, dedup | `start`, event processor, bootstrap supervisor, `stop` | subscribes to sources, dispatches results, is fetched from |
| Query output (`lib/src/queries/output_state.rs`) | sequence, outbox, live rows, generation; in memory and on disk | `apply_committed_sequence`, `hydrate`, `reset_from_generation`, `reconcile_durable_output` | query writes, reactions read |
| Result fan-out (`lib/src/channels/dispatcher.rs`, `dispatch_query_results`, `Query::subscribe`) | list of dispatchers, channels or ring | dispatch, subscribe, receive | locks `output_state` and `dispatchers` |
| Reaction (`lib/src/reactions/manager.rs`, `reactions/common/base.rs`, `common/checkpoint_state.rs`) | durable checkpoint, shared checkpoints, queue, gate | `start_reaction`, forwarder, gap recovery, `run_standard_loop`, `stop_reaction` | query outbox and snapshot, state store |
| RocksDB checkpoint store (`components/indexes/rocksdb/src/checkpoint.rs`) | hash, sequence, generation, checkpoints | direct writes and session writes | query |
| Source base (`lib/src/sources/base.rs`) | dispatchers, sequence counter, position marks, position handles, sequence-to-position map | `dispatch_event`, `subscribe_with_replay`, `subscribe_with_bootstrap`, `compute_confirmed_position` | queries subscribe; concrete sources dispatch |
| Source WAL (`lib/src/wal/traits.rs`, `components/wals/redb/`) | events table, counter | `append`, `read_from`, `prune_up_to`, `head_sequence` | a source appends and prunes, subscriptions read |
| Application source (`components/sources/application/`) | channel from its handles, pruning task | `send`, `process_events`, `subscribe` | WAL, source base |
| PostgreSQL source (`components/sources/postgres/`) | replication task, read position, fence | `start`, `stop`, `subscribe` with rewind, feedback, keepalive, reconnection | a replication slot, source base |
| Component graph (`lib/src/component_graph/`, `lib/src/managers/lifecycle_helpers.rs`, `lib/src/lib_core_ops/`) | node status, runtimes, dependencies, update channel | add, start, stop, update, remove, `wait_for_status` | callers of DrasiLib, reports of components |
| Temporal functions (`core/src/evaluation/functions/future/`, `core/src/in_memory_index/in_memory_future_queue.rs`, `core/src/query/continuous_query.rs`) | element index, time markers, future queue | `process_source_change`, `process_due_futures` | query processor, the poll of due futures |
| Rest of the core engine, parsers, functions, middleware, index backends | indexes | incremental evaluation inside a session | query processor |
| Other sources, reactions, bootstrappers, SDKs | adapters | I/O | the traits above |

What is hard here: the query processor, the bootstrap supervisor, a reaction's
start, its forwarder and its loop are separate tokio tasks that meet at locks,
channels and a shared `Notify`; every durable write can be the last one before a
crash; a wipe of a query is a series of writes; dispatch drops or blocks at a
limit; a replay overlaps the live stream, and a rewind for one query replays for
all; a command and a component's own report both write its status; and what one
task read before an `await` another may have changed after it. `hazards` in `PROJECT.json` lists the places, line by line.

What makes each part correct: the queue neither loses nor doubles events, keeps
a source's order and lets nobody sleep for ever; a restart of a query resumes
from exactly what was committed, serves what is on disk and never reuses an
(epoch, sequence); a reaction's checkpoint claims nothing that was not acted on,
and every result arrives; fan-out has no hole and no deadlock; a query's index
has every change of its source below its checkpoint, once; a source forgets
nothing a subscribed query still needs; the graph shows what a component is and
no task outlives its component; a row that depends on time is shown when its
time has come, and not before.

## Modules

| Module | What it is |
|---|---|
| `PriorityQueue` | the queue, its forwarders and its consumer |
| `ResultLog` | abstract: what a query promises its reactions |
| `DurableQuery` | the query lifecycle; implements `ResultLog` |
| `ReactionRecovery` | a durable reaction on a query that is a `ResultLog` |
| `ResultFanout` | locks and channels between one query and its reactions |
| `SourceWal` | a source with a write-ahead log and its durable queries |
| `CdcSource` | a source that reads a replication slot and its durable queries |
| `Lifecycle` | one source under the commands of several callers |
| `TemporalQuery` | a query with trueFor, trueLater or trueUntil |
| `DurableQueryProofs`, `ResultFanoutProofs`, `PriorityQueueProofs`, `ReactionRecoveryProofs`, `TemporalQueryProofs`, `LifecycleProofs`, `CdcSourceProofs`, `SourceWalProofs` | the theorems about the module each is named after |
| `MC...` | the sets of configurations and bounds TLC starts from |

`map` in `PROJECT.json` gives the lines of every definition. The operators whose
comment begins with "Mutant:" are plausible bugs of the definition that follows
them; each property is violated when its mutant takes that definition's place.

### PriorityQueue

A producer is a forwarder task, named by the rank of its source. A critical
section of the heap's mutex is one step, and the `notify_one()` after the unlock
is another. The `Notify` is modelled from tokio's documented behaviour: a FIFO
line of sleepers and at most one stored permit; a task that was woken and is
aborted before it runs passes the notification on. `Abort` may hit any task at
an await point, `Drain` and `Restart` follow when all are off, on the same
queue: that is `stop()` and `start()` of a query.

### ResultLog and DurableQuery

`ResultLog` has three variables: an epoch, the results of that epoch by number,
and whether the query is up. A query appends when up, and may give up an epoch
for a later one when down.

In `DurableQuery` a source change is a position in a log; `log[n]` says whether
it changes the result. `disk` is what survives, `ram` is `QueryOutputState`,
which survives a stop but not a crash, and `pc` is where the query is: each step
of a wipe (`w_...`), of a first start, of hydration, subscription and bootstrap
has its own value, so that `Crash` and `Fails` come between any two. The
processor's transaction per event (`Commit`, `CommitQuietly`) is one step, and
what follows it in memory (`Apply`) the next. `config` is chosen once: recovery
policy, bootstrap enabled, a bootstrap provider, a source that honours
`resume_sequence`. The source is external: it publishes, prunes, and on
subscription replays, rewinds further than asked, or answers with a snapshot.

The generation is `disk.gen`. `output_epoch_hash` mixes it with the config hash;
collisions of that 64-bit mix are left out, so that an epoch is its generation.

### ReactionRecovery

The query is `ResultLog`'s actions with a bounded outbox and a channel (Channel
or Broadcast). `rpc`, `fpc` and `lpc` are the program counters of
`start_reaction`, the forwarder and the standard loop. A checkpoint is a
(sequence, epoch); `store` is the durable one, `shared` the one the forwarder is
told, `cache` the loop's `CheckpointState`. `handled` and `excused` are history:
what was acted on, and what a snapshot covered or a policy gave up. Five
switches admit what the passing runs exclude, see *Restrictions*.

A full Channel holds the query up; a full Broadcast ring overwrites its oldest
result, and the forwarder is not told: `BroadcastChangeReceiver::recv`
(`lib/src/channels/dispatcher.rs:272-285`) logs `RecvError::Lagged` and goes on
with the oldest result left, so that the branch for lag in the forwarder
(`reactions/manager.rs:1303-1333`) is never taken and is not in the model. What
remains is the comparison of sequence numbers (`GapBefore`), which the code
leaves out while `last_forwarded_seq` is 0. `Position` is what
`last_forwarded_seq` is, or will be when the gate opens, and `EarlyOverrun`
admits an overrun while it is 0. After a gap `AutoSkipGap` gives up what is
before the query's head; with the query stopped the checkpoint stays where it
is, and what lies before the result that revealed the gap is given up
(`Before`).

### ResultFanout

Channel mode with several reactions, reduced to numbers and locks:
`dispatch_query_results` numbers a result under `output_state`, then walks the
list of dispatchers under its read lock, waiting for room in each channel;
`Query::subscribe` samples the head and waits for the list's write lock while it
holds `output_state`; a starting reaction fetches under `output_state` before
its gate opens. Entries of earlier starts stay in the list, as in the code.

### SourceWal

The stretch that `DurableQuery` takes for granted: a change is sent, appended to
the log, acknowledged, dispatched, forwarded, queued, processed. A change is its
sequence number; `recv[q]` are the receivers of a query, each a replay in front of
a live channel (`ReplayThenLiveReceiver`: `Received` and `Rest`), `pq[q]` its
queue, and `ckpt[q]` its committed checkpoint, which is also its duplicate filter.
`subscribe_with_replay` is two steps, as in the code: the head is captured and
the dispatcher added under the lock (`Attach`), the log is read and stamped
without it (`ReadWal`). Pruning is two steps too (`PruneCompute`, `PruneUpTo`).
The queue orders by timestamp and then by sequence, as `RankedSourceEvent` does.
An append may fail after its number was taken, a send may be dropped between
append and enqueue, and `Crash` keeps the log, its stored counter and the
checkpoints only. `acked` and `base` are history: what a query is owed.

### CdcSource

A log of the database cut into transactions (`Txn`), a replication slot with its
flush and restart positions, the PostgreSQL source's task, and queries that
resume. Sequence numbers are given by the source and start again at one with
each process; positions are the database's. `subscribe` is taken apart where
other tasks run in between: `Check` (position against slot and stream),
`Attach` (the task aborted, the map cleared, the fence set, the dispatcher added,
the sequence raised above the query's), `Filter` (the mark set, the stream
restarted), `Seed` (the handle reported). A rewind replays for every subscriber;
`mark` is what keeps the others from seeing a change twice. What
`START_REPLICATION` delivers is external (`FirstFrom`), and so is the end of the
log a keepalive carries: `handle_keepalive` takes it as the read position whatever
it was, and `Keepalive` has a server never report an end before what it has sent.

### Lifecycle

The status of a source's node has two writers: commands, under the graph's lock,
and the source's reports, through a channel, applied by `ApplyUpdate` if they
are valid transitions. A command is a sequence of steps (`call[c].at`): look up
the runtime, claim the node, start or stop the source, wait, take the runtime,
deregister or replace. `local`, `alive` and `held` are of an instance: its own
status, its tasks, its handle on one of them. `RegisterQuery` stands for a query
that depends on the source. `AbortTask` leaves out that
`ComponentRuntime::stop` looks at the status after the source's own `stop` and
returns an error if it is not Stopped (`lifecycle_helpers.rs:54-65`); it takes
two overlapping stops to get there.

### TemporalQuery

Elements with a condition that turns true and false, one of the three functions,
and time as ticks. A change is evaluated before and after under the clocks that
`continuous_query.rs` gives them, with side effects on the time marker and the
future queue; `rows` is the sum of what was reported. `Look` is the peek, and
`PopFuture` the session that pops and evaluates: once for the core's own
consumer (`set_future_consumer`), until the queue is empty for the library's
(`Consumer = "lib"`, the FuturesDue signal).

The queue and the indexes are the ones in memory, whose session is
`NoOpSessionControl`: rolling it back undoes nothing. So `PopFails` leaves the
future popped, with or without the side effects of the evaluation that failed
(`Reapply`), and reports no row; the core's consumer logs the error and goes on.
`lost` is history: the elements whose condition holds and whose future went that
way. A change that queues a new future or turns the condition takes an element
out of it. The library's query goes to Error on a failed future and leaves its
loop (`lib/src/queries/manager.rs:3611-3620`, `:3516`), so that `PopFails` is of
the core's consumer. Persistent queues, which do roll back, and a source change
whose evaluation fails are not modelled.

## Runs

| Run | Checks | Bounds, and why they are enough |
|---|---|---|
| `queue` | `TypeOK`, `ExactlyOnce`, `SourceOrder`, `NoLostWakeup`, `Drained` | three forwarders (two blocking with two events each, one that drops), two slots: the queue fills and empties, both kinds of waiters share the line, two events of one source tie on their timestamp |
| `durable_query` | `TypeOK`, `CrashConsistent`, `RamServesDisk`, `UniqueEpoch`, `RefinesLog` | all twelve distinct configurations, three changes, outbox of two (so it overflows), three faults: a crash in a wipe that follows a crash in a bootstrap, and one more |
| `durable_query_recovers` | `Recovers` | AutoReset with a WAL, two changes, two faults, slow stops and unreadable checkpoints included |
| `reaction` | `TypeOK`, `AtLeastOnce` | all eight valid configurations, four results in each of two epochs, outbox of one, channel of two, two faults: outbox gaps, results a ring overwrote, rebuilds and a crash within their recovery |
| `reaction_arrives` | `EveryResultArrives` | AutoReset in both dispatch modes, three results, outbox and channel of one, two epochs, one fault |
| `fanout` | `TypeOK`, `NothingMissed`, `StartsComplete` | two reactions, one with snapshots, started twice each, channels of one slot, three results |
| `wal_replay` | `TypeOK`, `NoHole`, `OnItsWay`, `UnconfirmedKept` | a query that starts from the log and one that starts live, a log of two under both capacity policies, three changes, a crash and one other fault: the log fills, evicts and is pruned, and a query resumes behind a faster one, after a crash, a stop, a failed append |
| `wal_delivers` | `EventuallyApplied`, `FullDrains` | two changes fill the log, one fault |
| `cdc_rewinds` | `TypeOK`, `ExactlyOnce`, `SlotServes` | two interchangeable queries, a transaction of two changes and one of one (a checkpoint can be inside a transaction), a crash and one other fault: a rewind during another, and a crash, stop or reconnection around it |
| `cdc_arrives` | `EventuallyApplied` | one transaction of two changes, one fault (a crash resets the numbers) |
| `lifecycle` | `TypeOK`, `GraphTellsTruth`, `NoStrayTask`, `NotStuck` | two callers, five commands, three instances, two faults: a source is added, started, updated and removed, with failures on the way and the other caller's stop, remove or update overlapping |
| `temporal` | `TypeOK`, `ResultMatches`, `NotEarly`, `EventuallyShown` | two elements, three changes, time to five with a duration of two, one failed evaluation: an element is inserted, turned, deleted and inserted again within its waiting time, or changed after its future was lost |

`CHECK_DEADLOCK FALSE` stands where the bounds on changes, results, starts and
faults let a model come to rest; the queue's run has none and checks deadlock.
In `SourceWal` and `CdcSource`, `MaxEach` bounds the faults of one kind (a crash;
anything else an operator or a failure does; in `SourceWal` also a start of a
query in Error) and `MaxFaults` all of them. The runs have at most one of each
kind; two crashes or two stops in one behaviour are left to the theorems, which
know no such bound.

The passing properties in words: `ExactlyOnce`, every event a forwarder took is
in the heap, taken once, refused, or lost with a task that was aborted, and a
blocking forwarder's event is never refused. `SourceOrder`, a source's events
are taken in its order. `NoLostWakeup`, nobody sleeps beside what he waits for
with nobody left to wake him. `Drained`, what is queued is taken unless the
consumer is stopped. `CrashConsistent`, whatever a restart would resume from,
indexes, checkpoint, rows, outbox and sequence are those of one and the same
prefix of changes. `RamServesDisk`, between two events a running query serves
what a restart would load. `UniqueEpoch`, no reader sees two results under one
(epoch, sequence). `Recovers`, a query that is down runs again. `AtLeastOnce`,
the durable checkpoint claims only results acted on, covered or given up.
`EveryResultArrives`, each result reaches a reaction that stays up.
`NothingMissed`, from its attachment on, a reaction's channel holds consecutive
results, each once, up to the last one due, and reaches back to what its
forwarder has covered. `StartsComplete`, a reaction that began to subscribe gets to run.
`NoHole`, every acknowledged change at or below a query's checkpoint is in its
index. `OnItsWay`, what a running query lacks is in the source's channel, its
receiver or its queue. `UnconfirmedKept`, pruning leaves what a subscribed query
has not committed. `FullDrains`, a full log gets room. `ExactlyOnce` (of
`CdcSource`), each query applies the database's changes one by one, without gap
or repetition. `SlotServes`, the slot has not passed a running query.
`EventuallyApplied`, a change reaches a query that stays up. `GraphTellsTruth`,
once reports are applied and no command is under way, the node's status is the
source's. `NoStrayTask`, no task runs for an instance that is not in the graph.
`NotStuck`, a node in a transitional state leaves it. `ResultMatches`, when all
is processed the rows are those for which the function is true, all but those
whose future was popped by an evaluation that failed. `NotEarly`, no row is shown
before its time. `EventuallyShown`, a row that is due is shown, with the same
exception.

### Fairness

The tokio runtime polls every task that can run: weak fairness of the steps of
one task (`Consume`, `Produce(p)`; `Process`, `Starting`; `Dispatch`,
`StartReaction`, `Forwarding`, `Loop`; dispatch, replay, forwarders, processors
and the pruning task in `SourceWal`; the replication task and a subscription's
steps in `CdcSource`; a command's steps and the update loop in `Lifecycle`; the
poll of futures in `TemporalQuery`, where time also passes). Its `Mutex` and `RwLock` queue their
waiters fairly: strong fairness of the two steps of `ResultFanout` that wait for
a lock (`Attach`, `Fetch`). An operator starts what is down: `WF(Start)`,
`WF(QueryOpens)`; without it a stopped query is simply stopped. Nothing obliges
a source to publish, a query to emit, an operator to stop, or anything to fail.

### Restrictions of the passing runs

Each is a switch, a member of `Races` or a bound whose other value has a
counterexample; the ones that contradict a comment or doc of the code are under
`findings`, the others under `hazards`:

| Passing runs assume | Otherwise |
|---|---|
| a stopping processor finishes its event (`SlowStop = FALSE`) | `DurableQuery_slow_stop.cfg` |
| checkpoints can be read (`ReadsFail = FALSE`, run `durable_query`) | `DurableQuery_unread_checkpoint.cfg` |
| liveness for sources with a WAL | `DurableQuery_empty_snapshot.cfg` |
| a query stops only when nothing is under way (`StopAnytime = FALSE`) | `Reaction_catchup_skipped.cfg`; of `AtLeastOnce`, `Reaction_first_gap.cfg` with `StopAnytime` in place of `EarlyOverrun` |
| a Broadcast ring does not overrun a forwarder that is to go on from 0 (`EarlyOverrun = FALSE`) | `Reaction_first_gap.cfg` |
| a query is rebuilt only while its reaction is down (`ResetInPlace = FALSE`) | `Reaction_reset_in_place.cfg` |
| a failed reaction restarts with its process (`RetryInPlace = FALSE`) | `Reaction_retry.cfg` |
| the wall clock does not step back (`ClockSteps = FALSE`; always in `SourceWal`) | `Reaction_clock.cfg` |
| one fault in `reaction_arrives` | `Reaction_persist_fails.cfg` |
| reactions start one at a time (`Concurrent = FALSE`) | `ResultFanout_deadlock.cfg` |
| a slot in the queue for every blocking forwarder | `PriorityQueue_lost_wakeup.cfg` |
| no live change while a replay is set up | `SourceWal_replay.cfg` with `live_during_replay` |
| a query whose processor failed restarts with its process | `SourceWal_replay.cfg` with `restart_after_failure` |
| pruning does not empty the log below an idle query | `SourceWal_replay.cfg` with `emptied_wal` |
| the halves of a pruning are not parted by a subscription | `SourceWal_replay.cfg` with `slow_prune` |
| pruning does not pass a first-run query that has reported nothing | `SourceWal_replay.cfg` with `unreported` |
| a query on a slot stops with an empty queue | `CdcSource_rewinds.cfg` with `leftover_queue` |
| the stream stands still while a subscription that needs no rewind is made | `CdcSource_rewinds.cfg` with `stream_moves_on` |
| a rewind does not cut a dispatch short | `CdcSource_rewinds.cfg` with `abort_mid_dispatch` |
| feedback does not pass a query whose handle is not seeded | `CdcSource_rewinds.cfg` with `feedback_overtakes` |
| after a failed stream no query resumes ahead of the others | `CdcSource_rewinds.cfg` with `starts_ahead` |
| no subscription behind what the position map holds, except by rewind | `CdcSource_rewinds.cfg` with `map_kept` |
| the slot's restart position keeps up with its flush position | `CdcSource_rewinds.cfg` with `restart_lags` |
| nothing is claimed of idle queries below the fence | `CdcSource_fence.cfg` |
| the PostgreSQL source is not started or stopped while a subscription is under way (`StartSource`, `StopSource`) | not modelled, no switch: `start()` and `stop()` do not take `subscribe_lock` (`postgres/src/lib.rs:903`, `:940`) |
| no command overlaps a start | `Lifecycle_overlapping_start.cfg` |
| one update at a time | `Lifecycle_overlapping_start.cfg` with `double_update` |
| look-up and claim of a runtime are not parted by its replacement | `Lifecycle_stale_runtime.cfg` |
| a command claims the node when the update channel is empty | `Lifecycle_late_reports.cfg` |
| no add during a remove | `Lifecycle_readd.cfg` |
| no query is registered on a source that is being removed | `Lifecycle_orphan.cfg` |
| a task does not fail before its source reports Running | `Lifecycle_early_failure.cfg` |
| the core's consumer of futures, one per look | `TemporalQuery_drain.cfg` |
| nothing changes the queue so that a look is stale | `TemporalQuery_late_signal.cfg` with `stale_look` |
| a due future is processed before a later change of its element | `TemporalQuery_late_signal.cfg` |
| and after an earlier change | `TemporalQuery_late_signal.cfg` with `late_change` |
| nothing is claimed of the row whose future a failed evaluation popped (`lost`) | `TemporalQuery_failed_pop.cfg` |

A cfg that is not a run is checked by hand, for instance
`tlc -config Reaction_clock.cfg MCReactionRecovery`; TLC reports the violation
of the property it names. "With" a race means that cfg with that one member in
`Races`.

## Proofs

TLC shows a property on one small instance; the theorems below hold for every
set of forwarders, reactions, elements or callers, every capacity and every
bound on changes, results, epochs, commands and faults. Each module has an inductive invariant
`IInv` with a lemma for the initial states, one lemma per part or per action for
the steps, and a theorem per property. `IInv` was checked with TLC on the
instances of the runs before it was proved. An assumption of a theorem is a
switch of the model; the configuration beside it is the counterexample without
it.

| Module | Theorem | Property | Assumes |
|---|---|---|---|
| `DurableQueryProofs` | `TypeCorrect` | `TypeOK` | `~SlowStop` (`DurableQuery_slow_stop.cfg`) |
| | `EpochsUnambiguous` | `UniqueEpoch` | the same |
| | `ImplementsResultLog` | `RefinesLog` | the same |
| | `ConsistentAfterCrash` | `CrashConsistent` | the same and `~ReadsFail` (`DurableQuery_unread_checkpoint.cfg`) |
| | `MemoryServesDisk` | `RamServesDisk` | the same two |
| `ResultFanoutProofs` | `TypeCorrect` | `TypeOK` | |
| | `NoResultMissed` | `NothingMissed` | nothing: starts may overlap |
| `PriorityQueueProofs` | `TypeCorrect` | `TypeOK` | |
| | `NoEventLost` | `ExactlyOnce` | |
| | `KeepsSourceOrder` | `SourceOrder` | |
| | `WakeUpsKept` | `NoLostWakeup` | a slot for every blocking forwarder (`PriorityQueue_lost_wakeup.cfg`) |
| `ReactionRecoveryProofs` | `TypeCorrect` | `TypeOK` | |
| | `ProcessedAtLeastOnce` | `AtLeastOnce` | `~StopAnytime`, `~ResetInPlace`, `~RetryInPlace`, `~ClockSteps`, `~EarlyOverrun` (the `Reaction_...cfg` of *Restrictions*) |
| `TemporalQueryProofs` | `TypeCorrect` | `TypeOK` | |
| | `NoRowEarly` | `NotEarly` | `Consumer = "core"` (`TemporalQuery_drain.cfg`), `Races = {}` (`TemporalQuery_late_signal.cfg`) |
| | `AnswersAddUp` | `ResultMatches` | the same two |
| | `NoneMissing` | `NoRowLost` | the same two and `MaxFaults = 0` (`TemporalQuery_failed_pop.cfg`) |
| `LifecycleProofs` | `TypeCorrect` | `TypeOK` | |
| | `StatusTrue` | `GraphTellsTruth` | `Races = {}` (the `Lifecycle_...cfg` of *Restrictions*) |
| | `NoTaskLeft` | `NoStrayTask` | the same |
| `CdcSourceProofs` | `TypeCorrect` | `TypeOK` | |
| | `AbsorbedExactlyOnce` | `ExactlyOnce` | `Races = {}` (`CdcSource_rewinds.cfg` with each of the seven races of *Restrictions*) |
| | `SlotServesRunning` | `SlotServes` | the same |
| `SourceWalProofs` | `TypeCorrect` | `TypeOK` | |
| | `NothingPassedOver` | `NoHole` | `Races = {}` (`SourceWal_replay.cfg` with each of the five races of *Restrictions*) |
| | `MissingIsOnItsWay` | `OnItsWay` | the same |
| | `UnconfirmedIsKept` | `UnconfirmedKept` | the same |

Besides, each module's `ASSUME` about its constants (`ConfigAssumption` and its
like), which TLC evaluates on every run.

### DurableQueryProofs

`RefinesLog` maps the epoch to `disk.gen`, the results to the history `emitted`,
and up to "processing". `UniqueEpoch` is not inductive: it says nothing of what
is on disk, where the next number comes from. `IInv` adds, besides types,

* `DiskInv`: under a current hash the stored output is that of its generation,
  or visibly short of it (a lost sequence with an outbox beyond it); without a
  hash nothing is stored;
* `WipeInv`: the marker stands as long as a wipe is under way, the planned
  generation is the stored one until it is replaced by a higher one, and what a
  step has cleared is clear;
* `StartInv`: a start that did not resume found nothing to resume, a processing
  query has a current hash and an undamaged sequence, a crash leaves no memory;
* `RamInv`: memory is where the disk is whenever somebody can read it, one
  result behind between commit and apply;
* `SeenInv`: what was read in this generation is on record under its number, and
  nothing was read in a later one.

The step that needs them all is `Commit`: the number it gives is memory's
sequence plus one, so memory must be where the disk is (`RamInv`), which fails
after an aborted processor: hence `~SlowStop`. The step lemmas go action by
action (`TypeStep`, `CoreStep`, `SeenStep`); `Unread` disposes of the actions
that publish nothing. Refinement then is `Appends` (commit) and `Renews`
(`WipeGen`, the only step that changes the generation), and a stutter otherwise.

Crash consistency is about contents, not numbers, and has a second layer,
`ExactInv`, on top of `IInv`: what a start would resume is what one stretch of
changes produces, and a wipe or a bootstrap that is under way has left nothing
else behind (`StoreInv`); subscription, duplicate filter and resume position
stand where the checkpoint does (`PositionInv`); memory has the rows and the
outbox of the disk (`MemoryInv`). `PositionInv` is what a start that could not
read its checkpoint breaks.

### ResultFanoutProofs

What a forwarder has not covered is in its channel only if nothing was numbered
between the head it sampled and its entry in the list, and if the dispatcher
skips no entry. `LockInv`: at most one reaction holds `output_state`, and the
head it sampled stands meanwhile. `ListInv`: a live receiver has exactly one
entry in the list. `MarkInv`: no reaction has covered more than was numbered. The proof needs no order of the starts: the overlap that can deadlock
(`ResultFanout_deadlock.cfg`) loses no result.

### PriorityQueueProofs

`HandInv`, `PlaceInv`, `FoundInv` and `OrderInv` account for each event: a
forwarder has at most one in hand, an event is in one of heap, taken, dropped
and cut, everything received and not in hand is in one of them, and an event
that is taken has no earlier one of its source behind it. `LineInv` is about the
line of the `Notify`: those asleep, each once. `WakeInv` is what wake-ups rest
on: there are at least as many events in the heap as forwarders asleep, one less
while the consumer announces what it took; a sleeping consumer is the first in
line, and an event beside it is being announced. With fewer slots
than blocking forwarders a notification meant for the consumer can wake a
forwarder instead, which finds the heap full and sleeps again.

### ReactionRecoveryProofs

A checkpoint may pass a result only if it is handled or excused, and the
checkpoint moves for several reasons: the loop's write, a snapshot at start, a
reset or a skipped gap, and the restart's refresh. The invariant follows each
result: behind the checkpoints of this epoch all is done (`StoreInv`,
`CacheInv`, `EpochInv`); what the forwarder has passed on, or was given when its
gate opened, is done, queued or in the loop's hands (`LastInv`). What it will not
receive any more, because a ring overwrote it, is found by the gap check or else
must be nothing: a forwarder whose position is 0 has all results still before it
(`PastInv`). This is the part that needs `~EarlyOverrun`. While a gap is
recovered the forwarder holds a target and the result that revealed the gap
(`GapInv`), covered by a snapshot (`ResetInv`) or given up. `LoopInv` and
`SkipInv` are about the loop's cached checkpoint, which is stale after a recovery
moved the stored one, `QueueInv` about what the forwarder passed on. `TaskInv`,
`ChannelInv` and `StartInv` say which tasks run and that the channel holds the
last results dispatched. Each of the five assumptions breaks one of these parts.

### TemporalQueryProofs

The rows are the sum of differences, each computed from what the index shows and
what the marker and the queue hold at that moment. `PathInv` relates index and
source: the changes on their way lead, one after the other, from what the index
shows to the truth. `ElementInv` relates, for each element, marker, row and
future to the index: a condition that holds has a marker, no later than the
change it is from (`MarkOf`); a row is an element whose time has come, before
any change still on its way, and it has no future left (`RowOf`); an element
that waits has a future, no later than its time, unless it was lost (`FutureOf`),
and a lost one has neither row nor future (`LostOf`); and a future, also
one left by a deleted element, is no later than that of a change still to come
(`QueueOf`), so that what is inserted again is not shown late. `OrderInv` and
`TimeOf` are the order of changes that the races break.

### LifecycleProofs

Both properties are about moments when nothing is under way; the invariant says
what leads there. `TypeOK` needs that there is room for the instances the
commands under way will create (`RoomInv`). `TurnInv`: a start has its claim
alone, while stops, removes and an update may overlap one another. `TaskInv`: an
instance has at most one task, whose handle it holds; one that is running is the
one in the graph, and one between two states is in the hands of a caller that
has not finished. `StartInv` and `StopInv` say what a caller under way knows: the
instance it found is still the graph's, or the graph's is a stopped one.
`AddInv` keeps a remove and an add apart. The reports are the delicate part,
because one that is no valid transition is dropped. `ReportInv` says which
reports may be in the channel together, and who follows up on the last of them;
`OwnInv`, that a source which runs or has failed is shown to, or will be when
the reports are applied, or is about to be stopped or started; `NodeInv`, that a
node between two states has a caller or a report that takes it out. So with an
empty channel and no caller the node is where the source is. One lemma per
action of the code shows that all parts are kept. TLC finds each race breaking a
part: `TurnInv` (`overlapping_start`), `StopInv` (`double_update`), `StartInv`
and `StopInv` (`stale_runtime`), `ReportInv` (`late_reports`), `AddInv`
(`readd`, `late_query`) and `TaskInv` (`early_failure`).

### CdcSourceProofs

A change reaches an index only through a subscriber's channel and queue, so
`ExactlyOnce` is followed back along them. `AppliedAt`: the index has the changes
up to its checkpoint, in order. `OrderAt`: queue and channel continue it without
a gap, and a query that is in place (subscribed, its mark set) has been sent
everything up to its mark, which is what makes a replay for another query
harmless. `SeqAt`: their numbers grow and are above the checkpoint's, although a
rewind or a restart gives numbers anew, so that the duplicate filter takes
nothing away. `ServeAt`, `ReadInv` and `RewindInv` are about the other end: the
stream, wherever it stands or will be started from, reaches back to what every
such query lacks. `SlotServes` rests on `SlotAt` (the slot has what a
subscription under way needs) and on `MapAt`: a number of the position map at or
below one that a query has committed, or has on its way, never stands for a later
position than the query's, so that the least reported number is translated to a
position that all have passed.
`RoomAt`, `LockAt`, `LockInv` and `StatusInv` say what a query has in each phase
of `subscribe`, and that one at a time is in it.

Two facts about the data are proved by descent rather than induction: any set of
naturals has a least element, since among the intervals from zero to its
elements one is contained in all the others (`FS_StrictSubsetOrderingWellFounded`
of the library); from this, transactions come in the order of their changes.

### SourceWalProofs

`NoHole` is not inductive: the processor commits the number of whatever is first
in the queue, so everything smaller that the query is owed must have come before
it. The invariant is stated with what a query lacks (`Missing`: acknowledged and
above its checkpoint; `Due`: the same with the change that a send has in hand).
`AppliedAt` is `NoHole` itself. `QueueAt`: whatever is missing below a queued
change is queued too, and comes before it. `OrderAt` says the same of the
replay and the live channel behind the queue, `StampAt` that the stamps by which
the queue sorts grow along that way, and `FlowAt` that nothing missing is
outside of it: while a query subscribes, what is after the head it captured is
still in the channel. `BoundAt` and `PhaseAt` say what can be there at all.

A replay fills the gap only if the log still has it. `LogInv`: what the log has
lost is older than all it has, so a log that reaches back to the resume position
has everything after it (`ReplayComplete`); `EmptyInv`: nobody lacks anything of
an empty log, which `read_from` takes for complete. `PruneInv` bridges the two
halves of a pruning: the position computed in the first spares what any running
query lacks, and still does when the second is done. `KeptInv` adds what
`RejectIncoming` keeps, also for a query that is subscribing. TLC finds each race
breaking a part: `PhaseAt` (`live_during_replay`: a change is in the receiver
before the replay is stamped; `restart_after_failure`: two receivers feed one
queue), `EmptyInv` (`emptied_wal`) and `PruneInv` (`slow_prune`, `unreported`).

### Only model-checked

* All liveness (`Drained`, `Recovers`, `EveryResultArrives`, `StartsComplete`,
  `EventuallyApplied`, `FullDrains`, `NotStuck`, `EventuallyShown`): fairness
  and `ENABLED` are outside the prover's reach.
* That the assumptions are needed: TLC's counterexamples show it.

## Not modelled, and why

Parsers, most functions, middleware, path matching, joins and aggregation are
sequential computations over data; the models use only that a session commits as
a whole. Sources and reactions other than the ones named, bootstrappers, SDKs
and stores are I/O behind the modelled traits. The bulk of the repository is of
these two kinds, so the modelled lines are a small share of it.

Within the modelled parts: queries on several sources and reactions on several
queries, volatile queries, bootstrap channels of a source (in `SourceWal` and
`CdcSource` a query starts from the log, the slot or the live stream), channels
with a capacity between source and query (`ResultFanout` has them between query
and reaction), queries and reactions as components of the graph, the order of
starting and shutting down whole libraries, windows and aggregates over time,
futures of several query parts, due futures in a durable query's output (they
are committed like a change), control signals (sequence 0, dropped by the
forwarder), metrics and logging.

Hazards seen and not covered: a source position above the size limit is left out
of a checkpoint (`lib/src/queries/manager.rs:3658`); an epoch is read before the
snapshot it is paired with (`lib/src/reactions/manager.rs:52`, one step in
`ReactionRecovery`); a source that stops with `stop_common` only keeps position
marks by index (`lib/src/sources/base.rs:1601`; the PostgreSQL source clears
them); "one slow reaction cannot block delivery to the others" is said of a
function that query results do not go through (`lib/src/queries/base.rs:181`).

## Plan

1. `DurableQuery` on `SourceWal`'s source instead of its external one, so that
   the refinement reaches from a send to a result; absent positions.
2. Queries and reactions in `Lifecycle`, with the topological order.
