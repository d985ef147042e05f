# kstream: TLA+ models, checks and proofs

kstream is a Kafka Streams implementation in Go. An application builds a
topology of processors; the runner starts group consumers; each assigned set of
partitions becomes a *task* that reads records, runs them through its
sub-topology, writes results, changelog records and offsets in one Kafka
transaction, and keeps its state in local stores restored from changelog topics.
This directory models the parts where several threads, Kafka and failures meet.

## 1. Inventory

| Part | State | Operations | What makes it correct |
|---|---|---|---|
| task (`streams/tasks/ktask.go`) | `dataChan`, message loops, processing loop, `ignore` marks, `shutDownOnce` | `Init`, `Start`, `start`, `process`, `reProcessCommitBuffer`, `shutdown` | each input record takes effect once or is rejected; a stop ends; nothing is committed half done |
| commit buffer (`streams/tasks/buffer.go`) | `records`, `offsetMap`, `closing` | `Init`, `Add`, `Flush`/`commit`, `Reset`, `handleTxError`, `Close` | offsets committed = one past the last buffered record; buffer, transaction and cache agree |
| transactional producer (`kafka/adaptors/librd/transactional_producer.go`, `producer.go`) | librdkafka instance, `txBegin` | `InitTransactions`, `BeginTransaction`, `ProduceAsync`, `SendOffsetsToTransaction`, `CommitTransaction`, `AbortTransaction`, `Restart`, `Close` | an aborted or failed transaction is never committed with a later batch |
| task manager, consumer instance (`streams/tasks/task_manager.go`, `streams/stream_consumer_instance.go`) | map of tasks shared by the instances of a process, current assignment | `AddTask`, `RemoveTask`, `Task`, `OnPartitionAssigned`, `OnPartitionRevoked`, `Consume` | a partition's records reach the task added for it; a new owner sees all the old owner committed |
| group consumer (`kafka/adaptors/librd/group_consumer.go`) | assignment, partition channels, stop signal | `Subscribe`, poll loop, `assign`, `revoke`, `Unsubscribe` | a rebalance and a stop are always served; output is committed once across members |
| partition consumer (`kafka/adaptors/librd/partition_consumer.go`) | map of partition channels, one poll loop for all | `ConsumePartition`, poll loop, `Close` | events reach the reader they were fetched for |
| changelog syncer (`streams/state_stores/changelog_syncer.go`) | `syncing`, `running`, `stopping`, `synced` | `Sync`, its loop, `Stop` | "synced" means the store holds the changelog |
| stores, cache, indexes (`streams/state_stores`, `streams/stores`, `backend`) | backend, write batch, index entries | `Set`/`Delete` with changelog record, `Flush`, `Reset`, iterators, `RebuildIndexes`, reads by index | disk = committed changelog whenever a task processes; index and store agree |
| registry, queries (`streams/stores/registry.go`, `http.go`, `streams/queryble_store_wrapper.go`) | names of stores; the manager's tasks | requests for a key, a store, an index value | a row that is there all the time is in the answer |
| topology builder (`streams/*.go`, `streams/topology`) | nodes, edges, stores and sources of every sub-topology | DSL calls, `Build`, `Reset` | merging loses nothing; what is joined is co-partitioned; repartition topics meet |
| processors (`streams/processors`) | children | `Run`, `Forward` | a record visits each node as often as the edges say, and nothing after an error |
| task generation (`streams/tasks/assigner.go`) | none | `Generate`, `Assign`, `FindMappingByTP` | instances agree on ids; every partition has one task per sub-topology |
| run group (`pkg/async/run_group.go`) | two wait groups, `stopping`, `stopped`, `err` | `Add`, `Run`, `Ready`, `Stop` | `Ready` and `Run` report the first error; `Stop` ends |
| stream consumer, runner (`streams/stream_consumer.go`, `streams/runner.go`) | `running`, `stop`, `done` channels | `Run`, `Ready`, `Stop` | `Stop` reaches every `Run`; tables are ready first and stop last |
| admin (`kafka/adaptors/sarama/kafka_admin.go`) | `tempTopicConfigs` | `StoreConfigs`, `ApplyConfigs`, `FetchInfo`, `DeleteTopics` | as used by `Build` and `Reset` |
| franz-go adaptor (`kafka/adaptors/franz`) | client, assignment | as the librdkafka consumers and producer | documented as at-least-once |
| in-memory backend's expiry (`backend/memory`) | `sync.Map`, cleaner | expiry loop | only expired records are removed |

Interaction. The DSL calls build sub-topologies; `Build` sets them up, creates
their topics and hands them to the runner, which starts the global tables and,
when these are restored, one or more group consumers. A group consumer's poll
loop calls the rebalance handler, which restores and initialises tasks
(`OnPartitionAssigned`), then hands every partition a channel and a goroutine
that ends in `task.Start`. That message loop feeds `dataChan`; one processing
loop per task drains it, flushes the commit buffer on a ticker and recovers from
errors; a revocation stops the task from yet another goroutine. Restores share
one partition consumer per task manager. HTTP requests read the stores of
whatever tasks the manager holds. librdkafka's own threads may declare a
transaction or the producer failed at any time. `PROJECT.json` lists the hazards
that follow from this, each at its line.

## 2. Modules

| Modules | What | Runs | Proofs |
|---|---|---|---|
| StreamTask, ExactlyOnce, MCStreamTask | one task id through failures, stops and crashes, and its abstract specification (sections 3 to 5) | `task_*` | StreamTaskInv, StreamTaskProofs |
| RunGroup, Runner, MCRunner | runner, stream consumer and global consumer over run groups (section 6) | `runner*` | RunnerProofs |
| GroupBroker, TaskManager, GroupConsumer, MCGroup | members of a consumer group hand tasks over (section 7) | `group` | GroupInv, GroupProofs |
| IndexedStore, StoreRestore, StoreQueries, MCStoreQueries | stores are restored, indexed, updated and queried (section 8) | `stores` | StoreProofs, RestoreProofs |
| Topology, Pipeline, TopologySetup, TaskAssigner, MCTopology | programs of DSL calls, set-up, record paths, tasks (section 9) | `topology` | TopologyProofs, SetupProofs, Loops |

Composition is by EXTENDS, each module adding the component that drives the one
below it: StoreQueries over StoreRestore over IndexedStore; GroupConsumer over
TaskManager over GroupBroker; TopologySetup over Pipeline over Topology, and over
TaskAssigner; Runner over RunGroup. The parts meet at abstractions: a task is the
whole of StreamTask in one module and a batch with a transaction in TaskManager, a
restore is one step in both and a loop in StoreRestore.

Still open, in this order: refinement of TaskManager's task by StreamTask's; errors
of the rebalance callbacks; the franz-go adaptor; expiry in the in-memory backend.
Every safety property of a passing run has a theorem, but for `RecordsFollowPaths` of
section 9.

## 3. StreamTask

`StreamTask.tla` models one task id over its whole life: instances of it start,
process, fail, stop and crash one after the other; Kafka and the disk survive.

| Model | Code |
|---|---|
| `broker`, `tx` | what read-committed readers see, and the same plus the open transaction: sink records and last aggregate per input record, group offsets (Kafka, external) |
| `prod`, `txBegin` | state of the librdkafka instance; `librdTxProducer.txBegin` |
| `store`, `view` | pebble database; the same read through the write batch (`stores.Cache`) |
| `fetch`, `claim`, `dataChan` | `task.Start` loops and the channel; a loop that is `sending` has received the record at `fetch` and sees nothing else until `dataChan` takes it |
| `records`, `offsetMap` | `commitBuffer` |
| `batch`, `idx` | the `records` slice and loop variable of `reProcessCommitBuffer` |
| `ignored`, `dlq` | `Record.ignore`; records given to `failedMessageHandler` |
| `pc` | where the processing loop is: `select`, `reprocess`, `reset`, `handleTx`, `txInit`, `redo`, `commit`, `commitTx`, `flushStore`, `flushed` |
| `txErr`, `txInits`, `ret` | the recursion of `handleTxError`: current error, enclosing calls that still call `InitTransactions`, and whether `Init` or `Reset` called it |
| `stop` | progress of `shutdown`; any value but `no` is `commitBuffer.closing` |

An action is the code between two points where another thread may interfere:
one call of `process` with the `Add` that follows it, one call of the producer,
one step of `shutdown`. The topology is source, aggregate, sink: the aggregate
keeps one key whose value is the bag of records folded into it, so a record
counted twice or dropped shows in the changelog, in the cache and in the sink.

The librdkafka rules the code depends on are external: `InitTransactions` works
on a new instance only (otherwise `ErrState`, which asks for a restart),
`BeginTransaction` only when no transaction is open (otherwise the adaptor
panics), a produce in an abortable transaction fails, an abort without a
transaction is `ErrState`, which the adaptor takes for success. `closing` is a
plain bool written by one goroutine and read by another; a late view of the
write is the same as a later `MarkAsCosing`, which the model allows. A panic of
the task kills the process (`Dies`).

Left out of the module: metrics, logging, interceptors, the `FlushInterval`
(a tick may come at any time) and the buffer's size limit as a separate trigger
(the same flush), several stores per task (flushed in a loop; one failing store
is `FlushStoreErr`).

### Failures and bounds

`Faults` says which failures the environment may inject, `MaxFaults`,
`MaxCrashes` and `MaxStops` how many. Two partitions of two records let a batch
span partitions, be split over two transactions, and hold an ignored record
before and after a good one; `ChanCap = 2` lets the channel be full. Three
failures allow an error in the recovery from an error in the recovery, which is
the depth at which `handleTxError` recurses into an already initialised producer.
In `task_live` the channel holds one of three records, so that a message loop is
blocked in its send when the stop comes: the stop then waits for the processing loop
to take a record, even if that loop is recovering from a failure. A processing loop
that takes no more records once it is told to stop is the mutant of `StopCompletes`.
Partitions are interchangeable, so they are a symmetry set.

### Runs

| Run | Bounds | Shows |
|---|---|---|
| `task_crash` | 2 x 2 records, 3 failures of every kind but `storeFlush`, 1 crash, no stop | `ExactlyOnceEffects` (nothing lost, twice or torn), `IgnoredExcluded`, `StoreIsCommitted`, `ViewMatchesBuffer`, and that the task implements `ExactlyOnce` |
| `task_stop` | 2 x 2 records, 2 producer failures, 1 crash, 1 stop | the same promises while a stop races the failures and skips their recovery |
| `task_live` | one partition, every failure, a crash and a stop, fair scheduling | `StopCompletes`, `EveryRecordHandled` |
| `task_viol_user` | topology error and a stop | `IgnoredExcluded` is violated |
| `task_viol_meta` | group-metadata error and a stop | `NothingLost` is violated |
| `task_viol_flush` | store flush error | `NothingTwice` is violated |

Fairness: weak fairness of the processing loop, of each message loop, of the
shutdown goroutine and of the group assigning the partition again. Go's
scheduler runs every runnable goroutine and a consumer group reassigns the
partitions of a stopped member. A send that is blocked needs no strong fairness:
the records are finite, and a tick without records changes nothing. `select` with
several ready cases chooses at random; the model only needs that the loop as a whole
goes on. Failures, crashes
and stops are never forced.

### What the violations show

* A record that fails in the topology is added to the commit buffer all the same
  (`ktask.go:356` tests the flag of the record that came from the channel, while
  `process` sets it on the copy). Reprocessing excludes it, unless the task is
  being stopped: then `reProcessCommitBuffer` returns at once and the next flush
  commits the half-processed record.
* When `GroupMeta` fails, `commit` aborts the transaction but keeps the buffer.
  If the task is being stopped the reprocessing is skipped, and the next flush
  commits the buffer's offsets in a transaction without its results.
* The store flush runs after `CommitTransaction`. If it fails, the batch is
  reprocessed although it is committed.

Under producer failures alone a skipped reprocessing is harmless, for a reason
that is easy to break: `resetState` clears `txBegin` while librdkafka keeps the
failed transaction, so the next `BeginTransaction` fails and the adaptor panics
before anything can be committed. `task_stop` checks exactly that.

## 4. ExactlyOnce

The abstract specification has the committed topics, offsets and rejected
records as its only state and two actions: `CommitBatch` moves offsets forward
and, in the same step, counts every record they pass once in the sink and once
in the aggregate, or not at all if it was rejected; `Reject` hands an
uncommitted record to the failed-message handler. `ImplementsExactlyOnce` is
checked by TLC as a refinement: every step of the task is one of these two or
changes nothing.

## 5. Fidelity notes

* `StartTask` replays the changelog onto what the disk holds or onto an empty
  disk (another machine). An empty changelog leaves the disk alone, as the code
  does: the pebble backend reports itself not persistent, so the offset store is
  not used and the replay always starts at the beginning.
* The changelog replay is one step here; its loop is in `StoreRestore`, and the
  window between it and the fencing of an older instance in `TaskManager`.
* Records left in `dataChan` at a stop are dropped, as in the code; they are read
  again from the committed offset.

## 6. RunGroup and Runner

`RunGroup.tla` models `async.RunGroup`; the bodies of its functions are open.
`Runner.tla` extends it: the group is the one of the global table consumer, and
a function is the body that `GlobalTableConsumer.Init` adds for one partition of
a global table. `GroupStep` is what the group does by itself; its other actions
(`Add`, `Run`, `ReadyCall`, `StopCall`, `SignalReady`, `BodyReturns`) are taken as
conjuncts of the runner's.

| Model | Code |
|---|---|
| `runState`, `fpc`, `ret` | `Run` and the goroutine it starts per function, with what the body returned |
| `ready`, `counted` | the ready channel of a function and who closed it; the helper goroutines that have called `readyWg.Done` |
| `err`, `once` | the error kept by `notifyErrOnce`; `shutDownOnce`: free, held (`shuttingDown` is set), done (`stopping` is closed) |
| `rd`, `st` | where a caller of `Ready` and one of `Stop` are |
| `parts` | which kinds of sub-topologies the topology has, chosen in `Init` |
| `rpc`, `consumers`, `storesReady` | `streamRunner.Run`, `r.consumers`, the channel `globalStateStoresReady` |
| `gpc`, `table`, `restored` | the goroutine of the global consumer; the global tasks |
| `spc`, `instance`, `unsub` | the goroutine of `streamConsumer.Run`; its instances and those told to unsubscribe |
| `running`, `stop`, `done` | the three channels of `streamConsumer` |
| `sd`, `user` | where `runner.shutdown` is, whoever called it; the caller of `runner.Stop` |

No lock protects these fields, so every read and every write that another
goroutine can observe is a step: the two reads of `err` and the one of
`shuttingDown` in `Ready`, `shuttingDown` before `stopping`, the making of `stop`
and `done` one after the other, the loop that starts instances against the loop
that unsubscribes them. `consumer.running` is made by the runner before the
consumer is started, so the test for nil in `Run` never succeeds.

Failures (`RunnerFaults`) are those of building the consumers and managers, of
reading the topics, of a table, of building an instance, of an instance that shuts
itself down and of a `Subscribe` that panics, which ends the process.

| Run | Bounds | Shows |
|---|---|---|
| `runner` | every topology kind, 2 tables, 2 instances, every failure, a Stop at any moment, fair scheduling | `ReadyHonest`, `RunReports`, `GlobalFirst`, `RunLeavesNothing`, `StreamStopsFirst`, `GlobalStopEnds`, `FailureEndsGlobal` |
| `runner_viol_stop` | no tables, one instance, no failure | `StopSignalsRun` is violated |
| `runner_viol_tables` | 2 tables, one instance, tables may fail | `TablesRestored` is violated |

Two tables let one fail while the other restores, is restored or stops; two
instances let `Stop` find one started and one not. Deadlock is not checked: a
runner that is not stopped, or that the hazards below block, stays where it is.

Fairness: weak fairness of the runner's goroutine, of `shutdown`, of the global
consumer's goroutine, of the group's steps and of each table's, whose changelog is
read to its end unless it fails. Nothing is assumed of the stream consumer, and
nothing needs it: the liveness properties concern the global consumer.

What the violations show:

* `streamConsumer.Run` closes `running` before it makes `stop` and `done`. `Stop`,
  woken by `running`, may find `stop` nil, skip the close and return; `Run` then
  waits on a channel nobody will close.
* The helper goroutine of a global table calls `opts.Ready()` whatever
  `task.Ready()` returned. `Ready` of the group may read `err` before the failed
  function has recorded it: the runner gets nil and starts the stream consumer.

Two more states the module reaches are listed as hazards without a property: a
`consumer.Run` that fails calls `shutdown`, which waits for `running`, which only
that `Run` would have closed; and a `Stop` during the restore uses up
`shutDownOnce` before the stream consumer that `Run` goes on to start.

## 7. Group

`GroupConsumer.tla` models the librdkafka group consumers of one group with the
rebalance handler each of them calls, over `TaskManager.tla` (the task managers
and the transactional life of their tasks), over `GroupBroker.tla` (external:
membership, generations, transactional ids, committed output and offsets).

| Model | Code |
|---|---|
| `members`, `rejoined`, `phase`, `gen`, `target` | the coordinator's group, rebalanced eagerly (Kafka, external) |
| `epoch`, `outputs`, `committed` | newest producer per transactional id; committed results with their changelog entries; committed offsets |
| `process`, `manager` | which instances live in one process; the `tasks` map of its manager, id to task |
| `task[i][t]` | the task built by instance i: its store, its open batch, whether its offsets are sent, `closing` |
| `work`, `victim` | the goroutines of `OnPartitionAssigned` and `OnPartitionRevoked`, one per task, and the task each waits for |
| `memberGen` | the group metadata the producer sends with its offsets |
| `pc`, `stopping` | the poll loop and `Unsubscribe` |
| `current`, `held`, `pos` | `currentAssignment`; what the client is assigned, and its fetch positions |
| `chan`, `claim`, `sending` | the claims' channels, the `Consume` goroutines, the record the poll loop is blocked with |

The window the handover depends on is explicit: `AddRestored` replays the changelog
before `InitTask` fences the old owner. What the old owner commits in between is not
in the new owner's store (`slipped`, per instance and task); `Assign` fetches offsets
after the fence, so the output is still exact. `OwnerStoreComplete` names that window
as an exception.

| Run | Bounds | Shows |
|---|---|---|
| `group` | 2 instances in one process or two, 1 task, 2 records, 2 rebalances, 1 crash or eviction, 1 stop, channel of 1 | `ExactlyOnceOutput`, `OwnerStoreComplete`, `ClaimsHaveTheirTask`, `StopReturns` |

Two rebalances move the task there and back; one fault lets an owner disappear or
be fenced while it holds a batch; a channel of one lets the poll loop block in a
send. `MaxEpoch` stops two producers from fencing each other for ever. Deadlock is
not checked: a group whose rebalances are used up and whose records are read stops.

The exceptions of the properties are states the code reaches. The instances of one
process share one map of tasks: a revocation callback of an evicted instance that
comes late deletes, and its claim feeds, the task of the instance that took over
(`Evicted`, `Shared`). `ExactlyOnceOutput`, `OwnerStoreComplete`,
`ClaimsHaveTheirTask` and `StopReturns` say nothing of that case.
A task that was deleted from the map runs on unknown to it.

Fairness: weak fairness of the coordinator's rebalance and of every instance as a
whole. Nobody has to unsubscribe; crashes and evictions may never come.

Left out: errors of the handler and of `c.Assign`, the error stream, a task that
`AddTask` overwrites without anybody stopping it, the initial offset of a source
other than the stored one (`stream_consumer_instance.go:54` applies it again at
every assignment). The processing loop is reduced to batches, and `dataChan` is
merged with the claim's channel.

## 8. Stores

`IndexedStore.tla` is what a store and its index do, as operators.
`StoreRestore.tla` is the restore: the poll loop that all restores of a manager
share, a syncer per store, the rebuild of the indexes by the runner.
`StoreQueries.tla` adds the registry and a request over HTTP.

| Model | Code |
|---|---|
| `kind` | the manager of the stream tasks ("local") or of the global tables |
| `end`, `assigned`, `pos`, `eof` | the changelog partition and the client's assignment |
| `channel`, `polled` | the events channel in the consumer's map; the event the poll loop holds, and the channel it is blocked on |
| `sync`, `signal`, `updating` | the syncer's loop; `synced`; the record whose index is written and whose value is not |
| `store`, `index` | the backend of the store and of its index |
| `task`, `stopping` | the local task in its manager; the global run group |
| `rebuild`, `snapshot`, `todo` | `RebuildIndexes` and its iterator |
| `registered`, `req` | the registry; the request with what is still to be read and what was read |

Events are not marked with the restore they were fetched for: the poll loop looks
the channel up by partition when it delivers, so the end of an earlier assignment
may come to a later restore (`early`). A syncer that updates while the runner
rebuilds is not locked out (`raced`); an update that fails is only logged
(`failed`). `SyncedIsComplete` and `IndexAgreesWithStore` hold outside these
cases, and each of the three breaks them. What a store should hold is a reference
of its own (`Replayed`): the value of the last record about each key.

| Run | Bounds | Shows |
|---|---|---|
| `stores` | local and global, 2 partitions, channel of 1, 2 restores, 1 record written meanwhile to changelogs of 2 and none, or of 1 each, 1 failing update, 1 key that is written, overwritten and deleted | `SyncedIsComplete`, `IndexAgreesWithStore`, `FoundIfHeld`, `RestoreEnds` |

One key and two values suffice for an index: entries of different keys do not
interfere. A channel of one blocks the poll loop; the second partition or a second
restore of the first shows who is blocked with it. Index requests are asked of
one partition, and only after the rebuild. Deadlock is not checked: a restored
system at rest has no step.

Fairness: weak fairness of the poll loop, of the rebuild and of each syncer.
`RestoreEnds` excepts a poll loop that waits in a send to a channel whose reader
has stopped (`StuckOn`): a syncer closes its partition, but a record the poll
loop had taken before may fill the channel nobody reads.

Left out: a `Sync` that fails before its loop, the changes a processing task makes
to a local store (StreamTask has them), index names that are prefixes of each other
(`index.go:71` reads entries by prefix), entries left in an index by an earlier
process (`DeleteAll` removes nothing in either backend; a global table's store
starts empty). Looking a channel up and sending to it are one step of the poll loop.

## 9. Topology

`Topology.tla` models the DSL as one action per call, on sub-topologies of nodes
that are pointers: a handle keeps the sub-topology it was derived from even when a
join has merged that sub-topology into another. `TopologySetup.tla` adds `Build`,
`Reset` and the admin client; `Pipeline.tla` says which nodes a record visits;
`TaskAssigner.tla` has the tasks and their ids.

The loops of `setup` are recursive functions of how far a loop has come, one inside
the other: `Setup` over the sub-topologies, and in it `Counted` (counts of the
topics), `NodesSetUp` (names, topics to be created) and `ChangelogsSetUp` over the
nodes and the stores of one. An error or a panic in a round is kept by all that follow.

| Model | Code |
|---|---|
| `tp.node`, `tp.store` | every node builder and store builder ever made |
| `tp.sub`, `tp.live` | `kSubTopologyBuilder`s; those in `kTopologyBuilder.subTopologies` |
| `stream` | the stream, table, global-table and split handles of the program |
| `broker`, `unknown` | the topics that exist (external) and those metadata requests do not know yet |
| `temp`, `registry` | `tempTopicConfigs`; the offset stores' registry |
| `gens` | the task list each instance generated |
| `stale`, `marks` | history: a call through a handle of a merged-away sub-topology; all a source was ever to be co-partitioned with |

| Run | Bounds | Shows |
|---|---|---|
| `topology` | programs of up to 5 calls (`MCCalls` says which at each step), 2 topics with 1 or 2 partitions, 1 reset, 2 instances | `NothingLost`, `StoresPresent`, `JoinedSourcesCoPartitioned`, `RepartitionTopicsMeet`, `RecordsFollowPaths`, `AgreedTasks` |

Five calls make two sources, give one of them a table, join or merge, and go on
from the result. One topic name is a prefix of the other (`MCLetters`). Record paths are checked
against a reference (`FollowsPaths`: visits counted edge by edge) for every failing
node, dropped record, set of matching branches and number of copies. Deadlock is
not checked: a built topology has nothing more to do.

Exceptions the code needs, each a state the run reaches: a call through a stale
handle adds nodes to a sub-topology nobody builds (and when that sub-topology is
merged once more, edges lead from one into another: that takes seven calls, more
than the run makes); a source that is joined twice
keeps only the last co-partitioning mark, and a topic that already exists is not
compared with what was wanted (`CheckedOnce`); ids are agreed only if sources have
equally many partitions, feed one sub-topology each and have names that do not
coincide when joined without a separator (`Regular`).

One more exception, `NamedApart`, came out of the proof of
`JoinedSourcesCoPartitioned`: `setup` keeps one entry per unformatted topic name for
all sub-topologies (`ktopology_builder.go:178`) and takes a source for one whose topic
it has still to create if the last source of that name is. Such a source is not
counted, and its topic need not be fetched. Six calls show it, one more than the run
makes: topics `a`, `b` and `c` have 1, 2 and 2 partitions, `b` is repartitioned through
topics that are given the names `a` and `c`, and the streams of `a` and `c` are
merged. Neither is counted, zero is compared with zero, and `Build` succeeds although
the comment (`ktopology_builder.go:179`) says that they have to be co-partitioned.

A merger is listed once per parent and numbered by its last place in
the list, also when the list is merged into another.

## 10. Proofs

`StreamTaskProofs` proves `TypeCorrect`: `Spec => []TypeOK` for every set of
partitions, number of records, channel capacity, fault set and bounds
(`ConstantsAssumption`). The proof goes action by action; lemmas give the types
of the ledgers' updates, of the buffer operations and of a lost instance.

`StreamTaskInv` states the inductive invariant `IInv` for the exactly-once
promise. `ExactlyOnceEffects` alone is not inductive: that a commit is right
depends on what the buffer, the transaction, the cache, the batch being
reprocessed and the channel hold. `IInv` adds that these stages are in offset
order per partition (`OrderInv`), that `offsetMap` is one past the last buffered
record (`OffsetInv`), that no record between the committed offset and the fetch
position is missing from all stages (`CoverInv`), and that transaction and cache
hold the buffer and nothing else (`SyncInv`). A closing task whose producer can
no longer begin a transaction is exempt (`Doomed`): it commits nothing more.
TLC finds `IInv` to hold on the bounds of `task_crash` and `task_stop`.

`StreamTaskProofs` proves `IInv` inductive. These theorems assume `SafeFaults`: the
store's own flush does not fail, and a task that may be stopped gracefully meets
neither topology errors nor group-metadata errors. Each excluded failure breaks
the promise: they are the three violation runs of section 3. Everything else is
left open: producer faults, aborts that fail, recursive error handling, fencing,
crashes, any number of restarts.

- Lemmas about sequences of records (`AppendSeq`, `TailSeq`, `RestSeq`) reduce the
  stages of the pipeline to sets in offset order.
- `IInv` is split into `PipeInv`, what is said of records, offsets and topics, and
  `CoreInv`, what is said of control, transaction and cache. `PipeFrame` settles
  `PipeInv` for the many steps that touch neither.
- There is one lemma per action. The two that carry the argument are
  `ProcessOkStep` (a record leaves the channel or the batch and enters buffer,
  transaction and cache together) and `CommitTransactionStep`, which rests on
  `CommitReady`: when CommitTransaction is called, the transaction is the committed
  ledger plus the buffer, and its offsets cover exactly the buffered and the
  ignored records.
- A closing task skips its reset, so its stages may disagree; `Doomed` records
  that its producer would panic on the next begin, and every action that commits
  is shown to be disabled or to end the instance.

From `InvariantHolds` (`SafeFaults /\ Spec => []IInv`) follow `ExactlyOnceHolds`,
`IgnoredExcludedHolds`, `StoreIsCommittedHolds` and `ViewMatchesBufferHolds`.
The last theorem is `TaskRefinesExactlyOnce`: only CommitTransaction and a
rejected record change the abstract state, the former as one atomic step by
`CommitReady`; every other step is a stutter.

`RunnerProofs` proves `GroupReports`: `GroupSpec => [](ReadyHonest /\ RunReports)`,
where the bodies of the functions may do anything at any time. The inductive
invariant `GroupInv` says what each place of a function's goroutine, of `Ready` and
of `Stop` has behind it: an error is recorded before the function is made ready on
its return, `counted` holds only ready functions, a nil so far in `Ready` was read
when all were ready.

It also proves `RunnerUsesGroup`, that every step of the runner is a step
of `GroupNext` or leaves the group alone, so that `RunnerIsTold` carries the
group's promises over to the runner. `RunnerTypes`, `GlobalFirstHolds` and
`RunLeavesNothingHolds` follow from `RunnerInv`: what `Run` has passed when it is at
a place (`ProgressInv`), a function that is ready has a table that is not restoring
(`TableInv`), and the stream consumer passes its wait only when every instance is
down (`InstanceInv`). They hold for any number of tables and instances and any failures.
`StreamStopsFirstHolds` proves the nested temporal property in two steps: a shutdown
that has found the stream consumer stays in `FoundStream`, where it cannot pass
`awaitRunning` before `running` is closed, and `OrderInv` says that then every
instance is down, and that only the end of shutdown stops the global group.

`GroupProofs` proves `GroupTypeOK`, `GroupExactlyOnce`, `GroupStoreComplete` and
`GroupClaims`: the three safety properties of section 7 for any number of instances,
tasks, records, generations, crashes and evictions, with all instances in one process
or each in its own. Of the constants they assume what the modules' ASSUMEs say. None
of the properties is inductive; `GroupInv` states what is, `IInv`:

- `Types` holds always: types, `EpochInv` (every Init and every restart makes a newer
  producer, so two tasks never share one), `BatchInv`, and `MemberInv`: who holds an
  assignment and is a member has not rejoined, was given it in this generation, and no
  two members were given the same partition.
- `Core` holds while the run is `Regular`, that is without an eviction or with one
  instance per process; where the exception of a property does not apply, the run is
  (`UnlessShared`). `LifeInv` lists the seven situations a task of an instance can be
  in, from `Outside` over `Added`, `Restored`, `Started`, `Claimed` and `Stopping` to
  `Removed`; `StoredInv` says that the map names only tasks of instances that have
  them. By these two and `MemberInv` a callback finds its own task or none
  (`StoredOwn`), which is what fails once an evicted instance is late in a shared map.
- `FenceInv`: once the owner of a task has initialised it, nobody else's transaction
  can commit. `FlowInv`: what is committed, the batch, the channel, the record that
  waits to be sent and the fetch position follow each other without gap. Both need the
  fence to come before the fetch of the offsets: `InitTaskCore` establishes the one,
  `AssignCore` the other from it, and `CommitTransactionCore` uses both to extend
  `OutputInv`. `StoreInv` carries the store, with `slipped` for the window.

One lemma per action (`...Core`) shows that `Core` is kept; `Keeps` and `InstanceCore`
settle what a step does not concern. On the way it is proved that `OnPartitionAssigned`
never finds a task missing that it added (`NoPanic`), and that it never has to stop an
older one first (`TaskStepCore`), in regular runs. TLC finds every part of `IInv` to
hold on the bounds of `group`.

The proofs about stores assume of the constants what the modules' ASSUMEs say: a
changelog that is not empty, of any records, with any number of them written at the
beginning; at least one partition and one place
in a channel; index queries for values.

`StoreProofs` proves `IndexAgreesHolds` and `FoundIfHeldHolds`. That an index agrees
is not inductive: between its index and its value a record is half written, and
during the rebuild only part of the entries exist. The invariant `StoreInv` speaks
of the store to be (`Target`): every entry is right about it, during an undisturbed
rebuild every key that is done has its entry, afterwards every key has one
(`Indexes`), and only live syncers of global tables and the rebuild write an
index (`Writers`). `RequestInv` says that each row a request must report was read
already or is still on its list, in a store that is still open (`SureRow`).

`RestoreProofs` proves `SyncedIsCompleteHolds`. The channel, the event in hand and
the client's position are a stream of events; the invariant `RestoreInv` claims a
witness for it (`Stream`): how many records the store holds now and will hold after
each event. An event is the next record, or the partition's end after at least the
records of `first`, or, before all others, a record that the poll loop had taken
for an earlier assignment (`Advances`): `HandInv` says it is one of the first
`first` records, so the replay overwrites what it wrote, as it overwrites what an
earlier life of the store left (`At`). When the end has been taken, at least
`first` records are in, and the store is exactly what the changelog makes of it
(`AtComplete`). TLC finds `StoreInv`, `RequestInv` and `RestoreInv` to hold on the
bounds of `stores`, and `RestoreInv` also with two keys, a channel of two and three
restores.

`TopologyProofs` proves `StoresPresentHolds`, `NothingLostHolds` and
`AgreedTasksHolds`: three of the properties of section 9 for programs of any length,
over any topics, stores and processors that `TopologyAssumption` admits. The
invariant `GraphInv` is stated of a topology and a list of handles:

- `GraphOk` holds always. `Listed`: a node in a list knows the list and its last
  place in it. `Stored`: a list has the stores its nodes ask for, also after it was
  merged away, since it may be merged again. `KnownHandle`: a handle of a table has
  the table's store where it adds nodes; without it a join of two tables could make a
  joiner that misses a store.
- `NoneLost` holds until a stale handle is used. `Homed`: every node is in the list
  it names, and that list will be built. `EdgesIn`: edges stay in one list.
  `RootedHandle`: a handle of a live sub-topology has its root there, and a branched
  stream also where its parent's handle points.
- `Tidy` holds always and is there for set-up: the mark a source is checked by is one
  it was given (`MarksOk`), a source or a sink has one place in a list (`OnePlace`), and
  the list of a global table has one source (`OneGlobal`).
- `Pairs`, of the repartition sinks and their sources, holds always: a formatted sink
  has a formatted source of the same name that set-up creates.

A DSL call is a chain of builder operations, so there is one lemma per operation
(`AddNodeKeeps`, `AddEdgeKeeps`, `AddStoreKeeps`, `MergedKeeps`, ...) that says what
it keeps of any topology, with the set of nodes that are made and not yet listed;
`Grows` is what every chain keeps for the handles. Then comes one lemma per call; the
merging ones go through `MergeCallKeeps`. That `Build` and `Reset` change names and
counts only is `LeavesKeeps`. TLC finds `GraphInv` and `TaskInv` to hold on the
bounds of `topology`.

For the tasks, `TaskInv` says that each list is what `Generate` made of the one
topology. `GenerateByHash`: if no two tasks have the same hash, the order in which
the map of mappings was iterated does not show in the ids. `WholeTasks`: an
assignment that depends on a partition's number and count only gives whole tasks.

`SetupProofs` proves `JoinedSourcesHold` and `RepartitionTopicsHold`, that is
`JoinedSourcesCoPartitioned` and `RepartitionTopicsMeet`, for any number of topics,
partitions, sub-topologies, nodes and resets. The brokers' counts are at least one
(`SetupAssumption`). Both are about what four loops, one inside the other, compute:

- The library's induction theorems take an operator as a parameter, which the provers
  cannot instantiate. `Loops` states a loop once, with `Start` and `Round` as constant
  operators of the module, and proves from the well-foundedness of `<` that the
  recursive function satisfies its own equations (`Unfold`), and induction up to a bound
  for a set of numbers (`InductionUpTo`). `SetupProofs` takes an instance of it for each
  loop: `Counting`, `Naming`, `Logging` and `Settling`.
- Each loop has an invariant: `CountsLoop` (once a source with a mark is passed, one of
  the two maxima is at least one, so that no topic is created with none; counts that
  were fetched stay), `NodesLoop` (a node before the index is done, `NodeDone`; the
  others are as they were), `ChangelogsLoop` and `SetUpTo`. `SubKeeps` puts the inner three together, `SetupFacts`
  says what a whole set-up has done.
- `CheckedAll`: when no two sources of a sub-topology read the same topic, the
  comparison per topic is one per source. It is here that `CheckedOnce` is needed.
- `CountAtBroker`: under `NamedApart` the count that was compared is the count at the
  broker when the tasks are made, since what existed was fetched and what did not
  was created with that count.
- `SetupInv` ties them to the program: before `Build` the broker has at least one
  partition of each topic and `Pairs` holds, also after a `Reset`, which leaves names
  formatted (`ResetKeepsPairs`); afterwards the two properties hold.

Only model-checked: the liveness properties (`RestoreEnds`, `StopReturns` and those of
the task and of the run group), which need fairness; and `RecordsFollowPaths`, which is
about what a recursion over the children of a node computes, with a fold over them in
every step: its reference counts visits over the whole graph, and the induction over
two such recursions at once has not been done.

## 11. Not modelled

- The franz-go adaptor: a second set of clients. Its partition consumer never
  reports the end of a partition, so no restore over it ends by itself; its offsets
  are committed outside the transaction, which the repository documents.
- Errors in the rebalance callbacks and in `c.Assign`; a `Sync` that fails before its
  loop; the hazards without a property say what follows from them.
- Expiry in the in-memory backend, off by default; encoders, names and routes of the
  HTTP interface, metrics, logging, mocks and examples.
- The plain producer (`ProduceSync`), which no task uses.
- What user functions compute: processors are outcomes (drop, copies, failure).
