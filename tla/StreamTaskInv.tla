---------------------------- MODULE StreamTaskInv ----------------------------
(***************************************************************************)
(* The inductive invariant behind the exactly-once property of StreamTask. *)
(* It follows a record through the pipeline of one task instance:          *)
(*                                                                         *)
(*   claim -> dataChan -> (batch being reprocessed) -> commit buffer       *)
(*         -> open transaction -> committed topics                         *)
(*                                                                         *)
(* and says that per partition the stages are in offset order, that no     *)
(* record between the committed offset and the fetch position is missing   *)
(* from all of them, and that the open transaction and the cache hold the  *)
(* commit buffer and nothing else.                                         *)
(***************************************************************************)
EXTENDS StreamTask

\* The failures under which a task keeps its promise: the store's own flush
\* does not fail, and a task that may be stopped gracefully meets neither
\* topology errors nor group-metadata errors.
SafeFaults ==
  /\ "storeFlush" \notin Faults
  /\ MaxStops = 0 \/ ("user" \notin Faults /\ "groupMeta" \notin Faults)

-----------------------------------------------------------------------------
(* Sequences of records as sets in offset order.                           *)

Elems(q) == {q[i] : i \in 1 .. Len(q)}
Rest(q, k) == {q[i] : i \in k .. Len(q)}

\* Per partition, the records of A come before those of B.
Precede(A, B) ==
  \A a \in A, b \in B : a.part = b.part => a.off < b.off

Sorted(q) ==
  \A i, j \in 1 .. Len(q) :
     i < j /\ q[i].part = q[j].part => q[i].off < q[j].off

\* The claims delivered the records of A; they are not committed yet.
Delivered(A) == \A a \in A : a.off < fetch[a.part]
Pending(A)   == \A a \in A : broker.off[a.part] <= a.off

-----------------------------------------------------------------------------
(* Control.                                                                *)

LoopPc == {"select", "redo", "commit", "commitTx"}

\* A task that is down or initialising has nothing in its pipeline.
Fresh ==
  /\ records = <<>> /\ batch = <<>> /\ dataChan = <<>>
  /\ offsetMap = NoOffsets /\ ignored = {} /\ idx = 1
  /\ stop = "no" /\ tx = broker /\ txBegin = FALSE /\ view = store

ControlInv ==
  /\ pc = "down" => ret = "init" /\ txInits = 0 /\ prod = "uninit"
  /\ ret = "init" => Fresh /\ pc \in {"down", "txInit", "handleTx"}
  /\ ret = "init" /\ pc # "down" => fetch = broker.off
  /\ stop = "closing" => pc \in {"commit", "commitTx", "flushStore", "flushed"}
  /\ stop # "no" => MaxStops > 0
  /\ pc \in {"select", "commit", "commitTx", "flushStore"} =>
       batch = <<>> /\ idx = 1
  /\ pc = "redo" => idx <= Len(batch) + 1

TxInv ==
  /\ prod \in {"uninit", "ready"} => tx = broker /\ ~txBegin
  /\ pc \in {"handleTx", "txInit", "flushStore"} => ~txBegin
  /\ pc = "commitTx" => txBegin
  /\ pc = "flushStore" => tx = broker
  \* Whoever reprocesses has a producer that cannot begin a transaction, or
  \* is never stopped.
  /\ pc = "reprocess" => BeginPanics \/ MaxStops = 0

StoreInv ==
  /\ pc \notin {"down", "flushStore", "flushed"} => store = broker.log
  /\ pc \in {"handleTx", "txInit"} => view = store
  /\ pc = "flushStore" => view = broker.log
  /\ broker.log = NoCounts => store = NoCounts

-----------------------------------------------------------------------------
(* The pipeline.                                                           *)

PositionInv ==
  \A p \in Partitions :
    /\ broker.off[p] <= NumRecords
    /\ fetch[p] <= NumRecords
    /\ pc # "down" => broker.off[p] <= fetch[p]

SortedInv == Sorted(dataChan) /\ Sorted(records) /\ Sorted(batch)

FlightInv ==
  /\ Delivered(Elems(dataChan)) /\ Delivered(Elems(records))
  /\ Delivered(Elems(batch)) /\ Delivered(ignored)
  /\ Pending(Elems(dataChan)) /\ Pending(Elems(batch))
  /\ pc # "flushStore" => Pending(Elems(records))

OrderInv ==
  /\ Precede(Elems(records), Elems(dataChan))
  /\ Precede(Elems(batch), Elems(dataChan))
  /\ Precede(ignored, Elems(dataChan))
  /\ pc = "redo" => /\ Precede(Elems(records), Rest(batch, idx))
                    /\ Elems(records) \subseteq Elems(batch)

IgnoredInv == ignored \subseteq dlq /\ \A r \in ignored : broker.out[r] = 0

\* offsetMap holds, per partition, the offset after the last buffered record.
OffsetInv ==
  \A p \in Partitions :
    \/ /\ offsetMap[p] = 0
       /\ \A r \in Elems(records) : r.part # p
    \/ /\ \E r \in Elems(records) : r.part = p /\ offsetMap[p] = r.off + 1
       /\ \A r \in Elems(records) : r.part = p => r.off < offsetMap[p]

\* The stage that holds the records taken from dataChan but not committed.
Taken ==
  IF pc \in {"select", "commit", "commitTx"} THEN Elems(records)
  ELSE IF pc = "redo" THEN Elems(records) \cup Rest(batch, idx)
  ELSE IF pc = "reprocess" /\ batch = <<>> THEN Elems(records)
  ELSE IF pc \in {"reprocess", "reset", "handleTx", "txInit"} THEN Elems(batch)
  ELSE {}

\* A closing task whose producer cannot begin a transaction commits no more.
Doomed == closing /\ BeginPanics

\* No record between committed offset and fetch position is missing.
CoverInv ==
  \/ Doomed /\ pc \in LoopPc
  \/ pc \in {"down", "flushed"}
  \/ \A r \in Records :
       broker.off[r.part] <= r.off /\ r.off < fetch[r.part] =>
         r \in Elems(dataChan) \cup Taken \cup ignored

\* The open transaction and the cache hold the commit buffer, once.
SyncInv ==
  pc \in LoopPc /\ ~Doomed =>
    /\ Elems(records) \cap ignored = {}
    /\ \A r \in Records :
         LET n == IF r \in Elems(records) THEN 1 ELSE 0 IN
           tx.out[r] = broker.out[r] + n /\ view[r] = broker.log[r] + n
    /\ tx.log = view
    /\ \A p \in Partitions :
         tx.off[p] = IF pc = "commitTx" /\ offsetMap[p] # 0
                     THEN offsetMap[p] ELSE broker.off[p]

IInv ==
  /\ TypeOK
  /\ ControlInv
  /\ TxInv
  /\ StoreInv
  /\ PositionInv
  /\ SortedInv
  /\ FlightInv
  /\ OrderInv
  /\ IgnoredInv
  /\ OffsetInv
  /\ CoverInv
  /\ SyncInv
  /\ ExactlyOnceEffects
=============================================================================
