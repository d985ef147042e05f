----------------------------- MODULE StreamTask -----------------------------
(***************************************************************************)
(* One stream task of kstream: the processing loop of streams/tasks/       *)
(* ktask.go, its commit buffer (streams/tasks/buffer.go), the transactional*)
(* librdkafka producer behind it (kafka/adaptors/librd/                    *)
(* transactional_producer.go) and the write-back cache of its state store  *)
(* (backend/pebble/cache.go, streams/state_stores).                        *)
(*                                                                         *)
(* The task runs a topology source -> aggregate -> sink.  The aggregate is *)
(* the bag of records folded into it, kept under one key, so that counting *)
(* a record twice, or not at all, is visible in the store, in the          *)
(* changelog and in the sink topic.                                        *)
(*                                                                         *)
(* Threads: the processing loop (pc), one message loop per claimed         *)
(* partition (claim), the goroutine that stops the task (stop), and        *)
(* librdkafka's background threads (ProducerFault).                        *)
(***************************************************************************)
EXTENDS Integers, Sequences

CONSTANTS
  Partitions,   \* the topic-partitions of the task
  NumRecords,   \* records in each partition, at offsets 0 .. NumRecords - 1
  ChanCap,      \* capacity of dataChan (10 in task_manager.go)
  Faults,       \* the kinds of failure the environment may inject
  MaxFaults,    \* bound: injected failures
  MaxCrashes,   \* bound: process crashes that no failure explains
  MaxStops      \* bound: graceful stops of the task

FaultKinds ==
  { "user",        \* a processor of the topology returns an error
    "rawProduce",  \* Produce fails with an error librd cannot classify
    "queueFull",   \* Produce fails with ErrQueueFull
    "delivery",    \* a queued message is not delivered: transaction must abort
    "fatal",       \* the producer instance fails (fenced, for example)
    "abortFails",  \* AbortTransaction asks for another abort
    "groupMeta",   \* the consumer group metadata cannot be read
    "storeFlush" } \* the store's batch commit returns an I/O error

ASSUME ConstantsAssumption ==
  /\ Partitions # {}
  /\ NumRecords \in Nat
  /\ ChanCap \in Nat \ {0}
  /\ Faults \subseteq FaultKinds
  /\ MaxFaults \in Nat
  /\ MaxCrashes \in Nat
  /\ MaxStops \in Nat

Records == [part : Partitions, off : 0 .. NumRecords - 1]
Counts  == [Records -> Nat]
Offsets == [Partitions -> Nat]

\* What read-committed readers see, and the same with the open transaction.
Ledger  == [out : Counts,    \* records of the sink topic, by input record
            log : Counts,    \* last aggregate in the changelog topic
            off : Offsets]   \* offsets of the consumer group

NoCounts  == [r \in Records |-> 0]
NoOffsets == [p \in Partitions |-> 0]
EmptyLedger == [out |-> NoCounts, log |-> NoCounts, off |-> NoOffsets]

VARIABLES
  \* Kafka
  broker,     \* the committed Ledger
  tx,         \* the Ledger as it would be if the open transaction committed
  \* librdTxProducer
  prod,       \* state of the librdkafka instance
  txBegin,    \* librdTxProducer.txBegin
  \* state store
  store,      \* the aggregate on disk
  view,       \* the aggregate read through the cache (the pebble batch)
  \* task and commitBuffer
  fetch,      \* next offset each message loop sends to dataChan
  dataChan,   \* task.dataChan
  records,    \* commitBuffer.records
  offsetMap,  \* commitBuffer.offsetMap, 0 where a partition is absent
  ignored,    \* records whose Record.ignore is set
  batch,      \* the records argument of reProcessCommitBuffer
  idx,        \* position in batch
  dlq,        \* records handed to failedMessageHandler
  \* control
  pc,         \* where the processing loop is
  txErr,      \* the error handleTxError is handling
  txInits,    \* enclosing handleTxError calls that still call InitTransactions
  ret,        \* who called handleTxError: commitBuffer.Init or Reset
  stop,       \* progress of task.shutdown
  claim,      \* message loop of each partition
  \* environment bounds
  faults, crashes, stops

kafkaVars  == <<broker, tx, prod, txBegin>>
storeVars  == <<store, view>>
bufVars    == <<records, offsetMap, ignored, batch, idx, dlq>>
inVars     == <<fetch, dataChan, claim>>
errVars    == <<txErr, txInits, ret>>
boundVars  == <<faults, crashes, stops>>
vars == <<kafkaVars, storeVars, bufVars, inVars, pc, errVars, stop, boundVars>>

closing == stop # "no"              \* commitBuffer.closing

TypeOK ==
  /\ broker \in Ledger
  /\ tx \in Ledger
  /\ prod \in {"uninit", "ready", "open", "abortable", "fatal"}
  /\ txBegin = TRUE \/ txBegin = FALSE
  /\ store \in Counts
  /\ view \in Counts
  /\ fetch \in Offsets
  /\ dataChan \in Seq(Records)
  /\ records \in Seq(Records)
  /\ offsetMap \in Offsets
  /\ ignored \in SUBSET Records
  /\ batch \in Seq(Records)
  /\ idx \in Nat \ {0}
  /\ dlq \in SUBSET Records
  /\ pc \in {"down", "select", "reprocess", "reset", "handleTx", "txInit",
             "redo", "commit", "commitTx", "flushStore", "flushed"}
  /\ txErr \in {"none", "abort", "restart"}
  /\ txInits \in Nat
  /\ ret \in {"init", "reset"}
  /\ stop \in {"no", "marked", "signalled", "drained", "closing"}
  /\ claim \in [Partitions -> {"new", "running", "sending", "done"}]
  /\ \A p \in Partitions : claim[p] = "sending" => pc # "down" /\ fetch[p] < NumRecords
  /\ faults \in Nat
  /\ crashes \in Nat
  /\ stops \in Nat

Init ==
  /\ broker = EmptyLedger
  /\ tx = EmptyLedger
  /\ prod = "uninit"
  /\ txBegin = FALSE
  /\ store = NoCounts
  /\ view = NoCounts
  /\ fetch = NoOffsets
  /\ dataChan = <<>>
  /\ records = <<>>
  /\ offsetMap = NoOffsets
  /\ ignored = {}
  /\ batch = <<>>
  /\ idx = 1
  /\ dlq = {}
  /\ pc = "down"
  /\ txErr = "none"
  /\ txInits = 0
  /\ ret = "init"
  /\ stop = "no"
  /\ claim = [p \in Partitions |-> "new"]
  /\ faults = 0
  /\ crashes = 0
  /\ stops = 0

\* The environment injects one failure of kind f.
Inject(f) ==
  /\ f \in Faults
  /\ faults < MaxFaults
  /\ faults' = faults + 1
  /\ UNCHANGED <<crashes, stops>>

-----------------------------------------------------------------------------
(* Start and loss of a task instance.                                      *)

\* The process dies: all that is not in Kafka or on disk is gone, and the
\* transaction it left open can only be aborted.
Dies ==
  /\ pc' = "down"
  /\ tx' = broker
  /\ prod' = "uninit"
  /\ txBegin' = FALSE
  /\ view' = store
  /\ fetch' = NoOffsets
  /\ dataChan' = <<>>
  /\ claim' = [p \in Partitions |-> "new"]
  /\ records' = <<>>
  /\ offsetMap' = NoOffsets
  /\ ignored' = {}
  /\ batch' = <<>>
  /\ idx' = 1
  /\ txErr' = "none"
  /\ txInits' = 0
  /\ ret' = "init"
  /\ stop' = "no"
  /\ UNCHANGED <<broker, store, dlq>>

Crash ==
  /\ pc # "down"
  /\ crashes < MaxCrashes
  /\ crashes' = crashes + 1
  /\ UNCHANGED <<faults, stops>>
  /\ Dies

\* Mutant of StartTask: the stores are not restored.
StartTaskNoRestore ==
  /\ pc = "down"
  /\ fetch' = broker.off
  /\ pc' = "txInit"
  /\ ret' = "init"
  /\ UNCHANGED <<kafkaVars, storeVars, bufVars, dataChan, claim, txErr, txInits,
                 stop, boundVars>>

\* taskManager.addTask and task.Init: a new instance replays the changelog on
\* top of what its disk holds (nothing, when it starts on another machine),
\* consumes from the committed offsets and calls InitTransactions.
StartTask ==
  /\ pc = "down"
  /\ \E disk \in {store, NoCounts} :
        store' = IF broker.log = NoCounts THEN disk ELSE broker.log
  /\ view' = store'
  /\ fetch' = broker.off
  /\ pc' = "txInit"
  /\ ret' = "init"
  /\ UNCHANGED <<kafkaVars, bufVars, dataChan, claim, txErr, txInits, stop,
                 boundVars>>

-----------------------------------------------------------------------------
(* Message loops (task.Start), one per claimed partition.                  *)

Live == pc # "down" /\ ret # "init"   \* the goroutines of the task exist

\* consumerLoops.Add(1)
ClaimStart(p) ==
  /\ Live
  /\ claim[p] = "new"
  /\ claim' = [claim EXCEPT ![p] = "running"]
  /\ UNCHANGED <<kafkaVars, storeVars, bufVars, fetch, dataChan, pc, errVars,
                 stop, boundVars>>

\* The select of the loop takes a record from claim.Records(), the one at fetch.
ClaimReceive(p) ==
  /\ Live
  /\ claim[p] = "running"
  /\ fetch[p] < NumRecords
  /\ claim' = [claim EXCEPT ![p] = "sending"]
  /\ UNCHANGED <<kafkaVars, storeVars, bufVars, fetch, dataChan, pc, errVars,
                 stop, boundVars>>

\* Mutant of ClaimSend: sends the record after the one that was received.
ClaimSendNext(p) ==
  /\ Live
  /\ stop # "closing"
  /\ claim[p] = "sending"
  /\ Len(dataChan) < ChanCap
  /\ dataChan' = Append(dataChan, [part |-> p, off |-> fetch[p] + 1])
  /\ fetch' = [fetch EXCEPT ![p] = @ + 1]
  /\ claim' = [claim EXCEPT ![p] = "running"]
  /\ UNCHANGED <<kafkaVars, storeVars, bufVars, pc, errVars, stop, boundVars>>

\* The send to dataChan is outside the select: while the channel is full the
\* loop is blocked in it and does not see a stop.
ClaimSend(p) ==
  /\ Live
  /\ stop # "closing"
  /\ claim[p] = "sending"
  /\ Len(dataChan) < ChanCap
  /\ dataChan' = Append(dataChan, [part |-> p, off |-> fetch[p]])
  /\ fetch' = [fetch EXCEPT ![p] = @ + 1]
  /\ claim' = [claim EXCEPT ![p] = "running"]
  /\ UNCHANGED <<kafkaVars, storeVars, bufVars, pc, errVars, stop, boundVars>>

\* A message loop that was scheduled only after the task stopped waiting for
\* the others is in its send when dataChan is closed: panic.
ClaimSendsOnClosed(p) ==
  /\ Live
  /\ stop = "closing"
  /\ claim[p] = "sending"
  /\ Dies
  /\ UNCHANGED boundVars

\* The select of the loop takes its stopping channel; consumerLoops.Done().
\* (claim.Records() is closed only after the task was stopped: revoke.)
ClaimStop(p) ==
  /\ Live
  /\ stop \in {"signalled", "drained", "closing"}
  /\ claim[p] = "running"
  /\ claim' = [claim EXCEPT ![p] = "done"]
  /\ UNCHANGED <<kafkaVars, storeVars, bufVars, fetch, dataChan, pc, errVars,
                 stop, boundVars>>

-----------------------------------------------------------------------------
(* The transactional producer.                                             *)

\* librdkafka finds out by itself that the transaction or the instance failed.
ProducerFault ==
  /\ pc # "down"
  /\ \/ /\ Inject("delivery")
        /\ prod = "open"
        /\ prod' = "abortable"
     \/ /\ Inject("fatal")
        /\ prod # "fatal"
        /\ prod' = "fatal"
  /\ UNCHANGED <<broker, tx, txBegin, storeVars, bufVars, inVars, pc, errVars,
                 stop>>

\* Mutant of BeginPanics: a failed BeginTransaction goes unnoticed.
NeverPanics == FALSE

\* ProduceAsync and SendOffsetsToTransaction begin a transaction when txBegin
\* is unset, and panic when BeginTransaction fails.
BeginPanics == ~txBegin /\ prod # "ready"
ProducerWorks == ~BeginPanics /\ prod \in {"ready", "open"}

\* Mutant of AbortOk: the transaction stays open.
AbortForgotten ==
  /\ prod # "fatal"
  /\ txBegin' = FALSE
  /\ prod' = IF prod = "uninit" THEN "uninit" ELSE "ready"
  /\ UNCHANGED <<broker, tx, boundVars>>

\* AbortTransaction succeeds; ErrState (nothing to abort) counts as success.
AbortOk ==
  /\ prod # "fatal"
  /\ prod' = IF prod = "uninit" THEN "uninit" ELSE "ready"
  /\ tx' = broker
  /\ txBegin' = FALSE
  /\ UNCHANGED <<broker, boundVars>>

\* AbortTransaction returns error e; resetState runs all the same.
AbortErr(e) ==
  /\ \/ e = "restart" /\ prod = "fatal" /\ UNCHANGED <<prod, boundVars>>
     \/ /\ e = "abort" /\ prod \in {"open", "abortable"}
        /\ Inject("abortFails")
        /\ prod' = "abortable"
  /\ txBegin' = FALSE
  /\ UNCHANGED <<broker, tx>>

-----------------------------------------------------------------------------
(* task.process and its two callers.                                       *)

Bump(f, r) == [f EXCEPT ![r] = @ + 1]

\* Mutant of Add: commits the offset of the record instead of the next one.
AddWithoutOne(r) ==
  /\ records' = Append(records, r)
  /\ offsetMap' = [offsetMap EXCEPT ![r.part] = r.off]

\* commitBuffer.Add
Add(r) ==
  /\ records' = Append(records, r)
  /\ offsetMap' = [offsetMap EXCEPT ![r.part] = r.off + 1]

\* Mutant of FromChan: a task that is stopped takes no more records.
FromChanNotStopped(r) ==
  /\ pc = "select"
  /\ stop \in {"no", "marked"}
  /\ dataChan # <<>>
  /\ r = Head(dataChan)
  /\ dataChan' = Tail(dataChan)

\* The processing loop receives r from dataChan.
FromChan(r) ==
  /\ pc = "select"
  /\ dataChan # <<>>
  /\ r = Head(dataChan)
  /\ dataChan' = Tail(dataChan)

\* Mutant of FromBatch: ignored records are processed again.
FromBatchIgnored(r) ==
  /\ pc = "redo"
  /\ idx <= Len(batch)
  /\ r = batch[idx]
  /\ UNCHANGED dataChan

\* reProcessCommitBuffer comes to r, which is not ignored.
FromBatch(r) ==
  /\ pc = "redo"
  /\ idx <= Len(batch)
  /\ r = batch[idx]
  /\ r \notin ignored
  /\ UNCHANGED dataChan

\* process(r) succeeds: the aggregate goes to the changelog and to the cache,
\* the result to the sink, and r to the commit buffer.
ProcessOk(r) ==
  /\ FromChan(r) \/ FromBatch(r)
  /\ ProducerWorks
  /\ prod' = "open"
  /\ txBegin' = TRUE
  /\ view' = Bump(view, r)
  /\ tx' = [tx EXCEPT !.log = Bump(view, r), !.out = Bump(@, r)]
  /\ Add(r)
  /\ idx' = IF pc = "redo" THEN idx + 1 ELSE idx
  /\ UNCHANGED <<broker, store, fetch, claim, ignored, batch, dlq, pc, errVars,
                 stop, boundVars>>

\* What process(r) leaves behind when it fails: nothing, or the update of the
\* aggregate (changelog and cache) without the sink record.
HalfDone(r) ==
  \/ UNCHANGED <<view, tx, prod, txBegin>>
  \/ /\ ProducerWorks
     /\ view' = Bump(view, r)
     /\ tx' = [tx EXCEPT !.log = Bump(view, r)]
     /\ prod' = "open"
     /\ txBegin' = TRUE

\* The caller of process(r) gets an error: the loop adds r to the buffer all
\* the same (start() tests the ignore flag of the outer record, which process
\* never sets) and reprocesses; reProcessCommitBuffer starts over.
Failed(r) ==
  /\ pc' = "reprocess"
  /\ \/ FromChan(r) /\ Add(r)
     \/ FromBatch(r) /\ UNCHANGED <<records, offsetMap>>
  /\ UNCHANGED <<broker, store, fetch, claim, batch, idx, errVars, stop>>

\* A processor fails: the record goes to the DLQ handler and is ignored.
ProcessUserErr(r) ==
  /\ Failed(r)
  /\ Inject("user")
  /\ HalfDone(r)
  /\ dlq' = dlq \cup {r}
  /\ ignored' = ignored \cup {r}

\* Mutant of ProduceFails: handleTxError does not call resetState.
ProduceFailsNoReset(r) ==
  /\ \/ UNCHANGED <<view, tx>>
     \/ view' = Bump(view, r) /\ tx' = [tx EXCEPT !.log = Bump(view, r)]
  /\ txBegin' = TRUE

\* ProduceAsync fails after it began a transaction; txBegin is reset although
\* librdkafka still has the transaction open.
ProduceFails(r) ==
  /\ \/ UNCHANGED <<view, tx>>
     \/ view' = Bump(view, r) /\ tx' = [tx EXCEPT !.log = Bump(view, r)]
  /\ txBegin' = FALSE

\* Errors that implement kafka.ProducerErr.
ProcessProducerErr(r) ==
  /\ Failed(r)
  /\ ProduceFails(r)
  /\ \/ Inject("queueFull") /\ ProducerWorks /\ prod' = "open"
     \/ /\ txBegin /\ prod \in {"abortable", "fatal"}
        /\ UNCHANGED <<prod, boundVars>>
  /\ UNCHANGED <<dlq, ignored>>

\* Errors librdTxProducer.handleTxError returns unclassified: process takes
\* them for an error of the topology.
ProcessRawErr(r) ==
  /\ Failed(r)
  /\ ProduceFails(r)
  /\ Inject("rawProduce") /\ ProducerWorks /\ prod' = "open"
  /\ dlq' = dlq \cup {r}
  /\ ignored' = ignored \cup {r}

ProcessPanics ==
  /\ \/ pc = "select" /\ dataChan # <<>>
     \/ pc = "redo" /\ idx <= Len(batch) /\ batch[idx] \notin ignored
  /\ BeginPanics
  /\ Dies
  /\ UNCHANGED boundVars

-----------------------------------------------------------------------------
(* reProcessCommitBuffer, commitBuffer.Reset and handleTxError.            *)

\* A closing task keeps its buffer and its transaction as they are.
ReprocessSkipped ==
  /\ pc = "reprocess"
  /\ closing
  /\ pc' = "select"
  /\ batch' = <<>>
  /\ idx' = 1
  /\ UNCHANGED <<kafkaVars, storeVars, records, offsetMap, ignored, dlq,
                 inVars, errVars, stop, boundVars>>

Reprocess ==
  /\ pc = "reprocess"
  /\ ~closing
  /\ batch' = IF batch = <<>> THEN records ELSE batch
  /\ pc' = "reset"
  /\ UNCHANGED <<kafkaVars, storeVars, records, offsetMap, ignored, idx, dlq,
                 inVars, errVars, stop, boundVars>>

\* OffsetReset, and on to the first record of the batch.
ClearBuffer ==
  /\ records' = <<>>
  /\ offsetMap' = NoOffsets
  /\ idx' = 1
  /\ pc' = "redo"
  /\ UNCHANGED <<ignored, batch, dlq>>

\* Mutant of ResetCache: the cache keeps half processed states.
KeepCache == view' = view

\* Cache.Reset: the batch over the store is dropped.
ResetCache == view' = store

Reset ==
  /\ pc = "reset"
  /\ ResetCache
  /\ \/ AbortOk /\ ClearBuffer /\ UNCHANGED errVars
     \/ \E e \in {"abort", "restart"} :
          /\ AbortErr(e)
          /\ txErr' = e
          /\ txInits' = 0
          /\ pc' = "handleTx"
          /\ UNCHANGED <<ret, bufVars>>
  /\ UNCHANGED <<store, inVars, stop>>

\* handleTxError returns: an enclosing call goes on with InitTransactions, the
\* outermost one returns to Reset or to Init.
TxReturn ==
  /\ txErr' = "none"
  /\ \/ /\ txInits > 0
        /\ txInits' = txInits - 1
        /\ pc' = "txInit"
        /\ UNCHANGED <<ret, bufVars>>
     \/ /\ txInits = 0 /\ ret = "reset"
        /\ ClearBuffer
        /\ UNCHANGED <<txInits, ret>>
     \/ /\ txInits = 0 /\ ret = "init"
        /\ pc' = "select"
        /\ ret' = "reset"
        /\ UNCHANGED <<txInits, bufVars>>

HandleTxSkipped ==
  /\ pc = "handleTx"
  /\ closing
  /\ TxReturn
  /\ UNCHANGED <<kafkaVars, storeVars, inVars, stop, boundVars>>

HandleTxAbort ==
  /\ pc = "handleTx"
  /\ ~closing
  /\ txErr = "abort"
  /\ \/ AbortOk /\ pc' = "txInit" /\ UNCHANGED errVars
     \/ \E e \in {"abort", "restart"} :
          /\ AbortErr(e)
          /\ txErr' = e
          /\ txInits' = txInits + 1
          /\ UNCHANGED <<pc, ret>>
  /\ UNCHANGED <<storeVars, bufVars, inVars, stop>>

\* Restart: the old instance is closed by force, a new one takes its place.
HandleTxRestart ==
  /\ pc = "handleTx"
  /\ ~closing
  /\ txErr = "restart"
  /\ prod' = "uninit"
  /\ tx' = broker
  /\ txBegin' = FALSE
  /\ pc' = "txInit"
  /\ UNCHANGED <<broker, storeVars, bufVars, inVars, errVars, stop, boundVars>>

\* InitTransactions works on a new instance only; ErrState and fatal errors
\* both ask for a restart.
InitTransactions ==
  /\ pc = "txInit"
  /\ \/ /\ prod = "uninit"
        /\ prod' = "ready"
        /\ TxReturn
     \/ /\ prod # "uninit"
        /\ txErr' = "restart"
        /\ pc' = "handleTx"
        /\ UNCHANGED <<prod, txInits, ret, bufVars>>
  /\ UNCHANGED <<broker, tx, txBegin, storeVars, inVars, stop, boundVars>>

\* The loop over the batch: an ignored record is skipped, the end returns.
RedoSkip ==
  /\ pc = "redo"
  /\ idx <= Len(batch)
  /\ batch[idx] \in ignored
  /\ idx' = idx + 1
  /\ UNCHANGED <<kafkaVars, storeVars, records, offsetMap, ignored, batch, dlq,
                 inVars, pc, errVars, stop, boundVars>>

RedoEnd ==
  /\ pc = "redo"
  /\ idx > Len(batch)
  /\ pc' = "select"
  /\ batch' = <<>>
  /\ idx' = 1
  /\ UNCHANGED <<kafkaVars, storeVars, records, offsetMap, ignored, dlq,
                 inVars, errVars, stop, boundVars>>

-----------------------------------------------------------------------------
(* commitBuffer.Flush, from the ticker or from Close.                      *)

\* An error of Flush: the loop reprocesses, shutdown only logs it.
FlushReturnsErr == pc' = IF stop = "closing" THEN "flushed" ELSE "reprocess"

\* Mutant of Tick: waits for a full buffer.
TickFull ==
  /\ pc = "select"
  /\ stop # "closing"
  /\ pc' = IF Len(records) < 2 THEN "select" ELSE "commit"
  /\ UNCHANGED <<kafkaVars, storeVars, bufVars, inVars, errVars, stop,
                 boundVars>>

Tick ==
  /\ pc = "select"
  /\ stop # "closing"
  /\ pc' = IF records = <<>> THEN "select" ELSE "commit"
  /\ UNCHANGED <<kafkaVars, storeVars, bufVars, inVars, errVars, stop,
                 boundVars>>

\* GroupMeta fails: commit aborts the transaction (whatever that returns).
CommitGroupMetaErr ==
  /\ pc = "commit"
  /\ Inject("groupMeta")
  /\ \/ /\ prod # "fatal"
        /\ prod' = IF prod = "uninit" THEN "uninit" ELSE "ready"
        /\ tx' = broker
     \/ prod = "fatal" /\ UNCHANGED <<prod, tx>>
     \/ /\ "abortFails" \in Faults /\ prod \in {"open", "abortable"}
        /\ prod' = "abortable"
        /\ UNCHANGED tx
  /\ txBegin' = FALSE
  /\ FlushReturnsErr
  /\ UNCHANGED <<broker, storeVars, bufVars, inVars, errVars, stop>>

SendOffsetsToTransaction ==
  /\ pc = "commit"
  /\ ~BeginPanics
  /\ \/ /\ prod \in {"ready", "open"}
        /\ prod' = "open"
        /\ txBegin' = TRUE
        /\ tx' = [tx EXCEPT !.off = [p \in Partitions |->
                     IF offsetMap[p] = 0 THEN @[p] ELSE offsetMap[p]]]
        /\ pc' = "commitTx"
     \/ /\ prod \in {"abortable", "fatal"}
        /\ txBegin' = FALSE
        /\ FlushReturnsErr
        /\ UNCHANGED <<prod, tx>>
  /\ UNCHANGED <<broker, storeVars, bufVars, inVars, errVars, stop, boundVars>>

SendOffsetsPanics ==
  /\ pc = "commit"
  /\ BeginPanics
  /\ Dies
  /\ UNCHANGED boundVars

CommitTransaction ==
  /\ pc = "commitTx"
  /\ txBegin' = FALSE
  /\ \/ /\ prod = "open"
        /\ prod' = "ready"
        /\ broker' = tx
        /\ pc' = "flushStore"
     \/ /\ prod # "open"
        /\ FlushReturnsErr
        /\ UNCHANGED <<prod, broker>>
  /\ UNCHANGED <<tx, storeVars, bufVars, inVars, errVars, stop, boundVars>>

\* Mutant of FlushStore: the batch is dropped instead of committed.
FlushNothing ==
  /\ pc = "flushStore"
  /\ view' = store
  /\ records' = <<>>
  /\ offsetMap' = NoOffsets
  /\ pc' = IF stop = "closing" THEN "flushed" ELSE "select"
  /\ UNCHANGED <<kafkaVars, store, ignored, batch, idx, dlq, inVars, errVars,
                 stop, boundVars>>

\* The cache goes to the store, and the buffer is emptied.
FlushStore ==
  /\ pc = "flushStore"
  /\ store' = view
  /\ records' = <<>>
  /\ offsetMap' = NoOffsets
  /\ pc' = IF stop = "closing" THEN "flushed" ELSE "select"
  /\ UNCHANGED <<kafkaVars, view, ignored, batch, idx, dlq, inVars, errVars,
                 stop, boundVars>>

FlushStoreErr ==
  /\ pc = "flushStore"
  /\ Inject("storeFlush")
  /\ FlushReturnsErr
  /\ UNCHANGED <<kafkaVars, storeVars, bufVars, inVars, errVars, stop>>

-----------------------------------------------------------------------------
(* task.shutdown.                                                          *)

MarkAsCosing ==
  /\ Live
  /\ stop = "no"
  /\ stops < MaxStops
  /\ stops' = stops + 1
  /\ stop' = "marked"
  /\ UNCHANGED <<kafkaVars, storeVars, bufVars, inVars, pc, errVars, faults,
                 crashes>>

\* close(processingStopping)
SignalStop ==
  /\ stop = "marked"
  /\ stop' = "signalled"
  /\ UNCHANGED <<kafkaVars, storeVars, bufVars, inVars, pc, errVars, boundVars>>

\* consumerLoops.Wait() returns; loops that did not start yet do not count.
ConsumersStopped ==
  /\ stop = "signalled"
  /\ \A p \in Partitions : claim[p] \notin {"running", "sending"}
  /\ stop' = "drained"
  /\ UNCHANGED <<kafkaVars, storeVars, bufVars, inVars, pc, errVars, boundVars>>

\* The processing loop selects stopping (records left in dataChan are dropped)
\* and shutdown calls commitBuffer.Close, which is Flush.
LoopStops ==
  /\ pc = "select"
  /\ stop = "drained"
  /\ stop' = "closing"
  /\ pc' = IF records = <<>> THEN "flushed" ELSE "commit"
  /\ UNCHANGED <<kafkaVars, storeVars, bufVars, inVars, errVars, boundVars>>

\* The stores are closed and producer.Close aborts what is left open.
Stopped ==
  /\ pc = "flushed"
  /\ Dies
  /\ UNCHANGED boundVars

-----------------------------------------------------------------------------
Process(r) ==
  \/ ProcessOk(r)
  \/ ProcessUserErr(r)
  \/ ProcessProducerErr(r)
  \/ ProcessRawErr(r)

Recover ==
  \/ ReprocessSkipped
  \/ Reprocess
  \/ Reset
  \/ HandleTxSkipped
  \/ HandleTxAbort
  \/ HandleTxRestart
  \/ InitTransactions
  \/ RedoSkip
  \/ RedoEnd

Commit ==
  \/ Tick
  \/ CommitGroupMetaErr
  \/ SendOffsetsToTransaction
  \/ SendOffsetsPanics
  \/ CommitTransaction
  \/ FlushStore
  \/ FlushStoreErr

\* The steps of the processing loop and, after it, of Close.
Loop ==
  \/ \E r \in Records : Process(r)
  \/ ProcessPanics
  \/ Recover
  \/ Commit
  \/ LoopStops
  \/ Stopped

Consume(p) ==
  \/ ClaimStart(p)
  \/ ClaimReceive(p)
  \/ ClaimSend(p)
  \/ ClaimSendsOnClosed(p)
  \/ ClaimStop(p)

Shutdown == SignalStop \/ ConsumersStopped

Next ==
  \/ StartTask
  \/ Loop
  \/ \E p \in Partitions : Consume(p)
  \/ MarkAsCosing
  \/ Shutdown
  \/ ProducerFault
  \/ Crash

Spec == Init /\ [][Next]_vars

\* Go schedules every runnable goroutine, and the group assigns the partition
\* again after a stop or a crash.  Failures, crashes and stops are not fair.
Fairness ==
  /\ WF_vars(StartTask)
  /\ WF_vars(Loop)
  /\ WF_vars(Shutdown)
  /\ \A p \in Partitions : WF_vars(Consume(p))

FairSpec == Spec /\ Fairness

-----------------------------------------------------------------------------
(* Properties.                                                             *)

\* No committed offset passes a record whose effects are missing, unless the
\* record went to the failed-message handler (process, commit).
NothingLost ==
  \A r \in Records :
     r.off < broker.off[r.part] /\ r \notin dlq =>
        broker.out[r] > 0 /\ broker.log[r] > 0

\* No record is twice in the sink topic or twice in the aggregate, whatever is
\* reprocessed or replayed.
NothingTwice ==
  \A r \in Records : broker.out[r] <= 1 /\ broker.log[r] <= 1

\* Sink, changelog and offsets are committed together: a record counts in both
\* topics or in neither, and in neither before its offset is committed.
NothingTorn ==
  \A r \in Records :
     /\ broker.out[r] = broker.log[r]
     /\ broker.off[r.part] <= r.off => broker.out[r] = 0

\* Exactly-once processing as the committed topics show it.
ExactlyOnceEffects == NothingLost /\ NothingTwice /\ NothingTorn

\* A record that this instance ignored (process set Record.ignore) is excluded
\* from every batch committed afterwards.
IgnoredExcluded ==
  \A r \in ignored : broker.out[r] = 0 /\ broker.log[r] = 0

\* Whenever a task instance processes records, its store on disk is what the
\* committed changelog holds: no crash, abort or producer restart leaves the
\* store behind or ahead.  Only while commit flushes may they differ.
StoreIsCommitted ==
  pc \notin {"down", "flushStore", "flushed"} => store = broker.log

Buffered == {records[i] : i \in DOMAIN records} \ ignored

\* While the loop waits for its next event, the aggregate it reads is the
\* committed one plus each record of the commit buffer once, so that no half
\* processed record leaks into the next result.  (After a failure that a
\* closing task did not clean up, the producer refuses to begin a transaction
\* and nothing more is committed.)
ViewMatchesBuffer ==
  pc = "select" /\ ~BeginPanics =>
    \A r \in Records :
       view[r] = broker.log[r] + (IF r \in Buffered THEN 1 ELSE 0)

\* The task implements the atomic specification.
Atomic == INSTANCE ExactlyOnce WITH
  out <- broker.out, agg <- broker.log, off <- broker.off, rejected <- dlq

\* Every step of the task is a batch commit, a rejection, or invisible.
ImplementsExactlyOnce == Atomic!AtomicSpec

\* A stop that begins ends: no message loop, reprocessing loop or transaction
\* error keeps shutdown waiting for ever.
StopCompletes == closing ~> ~closing

\* Every record is eventually committed or rejected, whatever fails on the way.
EveryRecordHandled ==
  <>[](\A r \in Records : r.off < broker.off[r.part] \/ r \in dlq)
=============================================================================
