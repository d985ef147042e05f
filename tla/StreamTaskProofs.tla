-------------------------- MODULE StreamTaskProofs --------------------------
(***************************************************************************)
(* Proofs about StreamTask: its types, that the invariant of StreamTaskInv *)
(* is inductive and what follows from it, and that the task implements the *)
(* atomic specification ExactlyOnce.                                       *)
(***************************************************************************)
EXTENDS StreamTaskInv, TLAPS

USE ConstantsAssumption

\* Splits a step of the task into its actions.
LEMMA NextCases ==
  ASSUME Next
  PROVE  \/ StartTask \/ Crash \/ MarkAsCosing \/ SignalStop \/ ConsumersStopped
         \/ ProducerFault \/ ProcessPanics \/ LoopStops \/ Stopped
         \/ \E r \in Records : Process(r)
         \/ Recover
         \/ Commit
         \/ \E p \in Partitions : Consume(p)
  BY DEF Next, Loop, Shutdown

\* The empty counts, offsets, ledger and buffer have their types.
LEMMA EmptyTypes ==
  /\ NoCounts \in Counts /\ NoOffsets \in Offsets
  /\ EmptyLedger \in Ledger /\ <<>> \in Seq(Records)
  BY DEF NoCounts, NoOffsets, EmptyLedger, Counts, Offsets, Ledger

\* One more effect of a record keeps a ledger count a natural number.
LEMMA BumpType ==
  ASSUME NEW f \in Counts, NEW r \in Records
  PROVE  Bump(f, r) \in Counts
  BY DEF Bump, Counts

\* The fields of a well-typed ledger have the types of the fields.
LEMMA LedgerFields ==
  ASSUME NEW L \in Ledger
  PROVE  L.out \in Counts /\ L.log \in Counts /\ L.off \in Offsets
  BY DEF Ledger

\* A ledger stays well typed when one of its fields is replaced by a typed
\* value.
LEMMA LedgerUpdates ==
  ASSUME NEW L \in Ledger, NEW f \in Counts, NEW g \in Counts, NEW o \in Offsets
  PROVE  /\ [L EXCEPT !.log = f] \in Ledger
         /\ [L EXCEPT !.log = f, !.out = g] \in Ledger
         /\ [L EXCEPT !.off = o] \in Ledger
  BY DEF Ledger

\* CommitBuffer.Add keeps the buffer and its offset map typed.
LEMMA AddType ==
  ASSUME records \in Seq(Records), offsetMap \in Offsets, NEW r \in Records, Add(r)
  PROVE  records' \in Seq(Records) /\ offsetMap' \in Offsets
<1>1. r.part \in Partitions /\ r.off + 1 \in Nat
  BY DEF Records
<1>2. records' \in Seq(Records)
  BY DEF Add
<1>3. offsetMap' \in Offsets
  BY <1>1 DEF Add, Offsets
<1> QED
  BY <1>2, <1>3

\* Taking the next record, from dataChan or from the batch, leaves a typed
\* channel.
LEMMA TakeType ==
  ASSUME dataChan \in Seq(Records), NEW r \in Records, FromChan(r) \/ FromBatch(r)
  PROVE  dataChan' \in Seq(Records)
<1>1. CASE FromChan(r)
  BY <1>1 DEF FromChan
<1>2. CASE FromBatch(r)
  BY <1>2 DEF FromBatch
<1> QED
  BY <1>1, <1>2

\* A failed call of process keeps the buffer and the channel in their types.
LEMMA FailedType ==
  ASSUME TypeOK, NEW r \in Records, Failed(r)
  PROVE  /\ records' \in Seq(Records) /\ offsetMap' \in Offsets
         /\ dataChan' \in Seq(Records) /\ pc' = "reprocess"
         /\ UNCHANGED <<broker, store, fetch, claim, batch, idx, errVars, stop>>
<1>1. dataChan' \in Seq(Records)
  BY TakeType DEF Failed, TypeOK
<1>2. records' \in Seq(Records) /\ offsetMap' \in Offsets
  BY AddType DEF Failed, TypeOK
<1> QED
  BY <1>1, <1>2 DEF Failed

\* Losing an instance keeps every variable in its type.
LEMMA DiesType ==
  ASSUME TypeOK, Dies,
         (UNCHANGED boundVars) \/ (faults' \in Nat /\ crashes' \in Nat /\ stops' \in Nat)
  PROVE  TypeOK'
  BY EmptyTypes DEF TypeOK, Dies, boundVars

\* The return from the transaction error handler leaves control and buffer
\* typed.
LEMMA TxReturnType ==
  ASSUME TypeOK, TxReturn
  PROVE  /\ txErr' = "none" /\ txInits' \in Nat
         /\ pc' \in {"txInit", "redo", "select"} /\ ret' \in {"init", "reset"}
         /\ records' \in Seq(Records) /\ offsetMap' \in Offsets
         /\ idx' \in Nat \ {0} /\ UNCHANGED <<ignored, batch, dlq>>
<1> USE EmptyTypes DEF TypeOK, bufVars
<1>1. CASE txInits > 0
  BY <1>1 DEF TxReturn
<1>2. CASE txInits = 0 /\ ret = "reset"
  BY <1>2 DEF TxReturn, ClearBuffer
<1>3. CASE txInits = 0 /\ ret = "init"
  BY <1>3 DEF TxReturn
<1> QED
  BY <1>1, <1>2, <1>3

\* Every step keeps every variable in its type.
LEMMA TypeStep == TypeOK /\ [Next]_vars => TypeOK'
<1> SUFFICES ASSUME TypeOK, [Next]_vars PROVE TypeOK'
  OBVIOUS
<1> USE EmptyTypes DEF TypeOK, kafkaVars, storeVars, bufVars, inVars, errVars, boundVars
<1>1. CASE UNCHANGED vars
  BY <1>1 DEF vars
<1>2. CASE StartTask
  <2>1. store' \in Counts /\ fetch' \in Offsets
    BY <1>2, LedgerFields DEF StartTask
  <2> QED
    BY <1>2, <2>1 DEF StartTask
<1>3. CASE Crash
  <2>1. Dies /\ faults' \in Nat /\ crashes' \in Nat /\ stops' \in Nat
    BY <1>3 DEF Crash
  <2> QED
    BY <2>1, DiesType
<1>4. CASE MarkAsCosing
  BY <1>4 DEF MarkAsCosing
<1>5. CASE SignalStop
  BY <1>5 DEF SignalStop
<1>6. CASE ConsumersStopped
  BY <1>6 DEF ConsumersStopped
<1>7. CASE ProducerFault
  BY <1>7 DEF ProducerFault, Inject
<1>8. CASE ProcessPanics
  BY <1>8, DiesType DEF ProcessPanics
<1>9. CASE LoopStops
  BY <1>9 DEF LoopStops
<1>10. CASE Stopped
  BY <1>10, DiesType DEF Stopped
<1>11. ASSUME NEW r \in Records, Process(r) PROVE TypeOK'
  <2>1. Bump(view, r) \in Counts /\ Bump(tx.out, r) \in Counts
    BY BumpType, LedgerFields
  <2>2. CASE ProcessOk(r)
    <3>1. tx' \in Ledger
      BY <2>1, <2>2, LedgerUpdates DEF ProcessOk
    <3>2. records' \in Seq(Records) /\ offsetMap' \in Offsets
      BY <2>2, AddType DEF ProcessOk
    <3>3. dataChan' \in Seq(Records)
      BY <2>2, TakeType DEF ProcessOk
    <3> QED
      BY <2>1, <2>2, <3>1, <3>2, <3>3 DEF ProcessOk
  <2>3. [tx EXCEPT !.log = Bump(view, r)] \in Ledger
    BY <2>1, LedgerUpdates
  <2>4. CASE ProcessUserErr(r)
    <3>1. tx' \in Ledger /\ view' \in Counts
      BY <2>1, <2>3, <2>4 DEF ProcessUserErr, HalfDone
    <3>2. Failed(r)
      BY <2>4 DEF ProcessUserErr
    <3>3. /\ records' \in Seq(Records) /\ offsetMap' \in Offsets
          /\ dataChan' \in Seq(Records) /\ pc' = "reprocess"
          /\ UNCHANGED <<broker, store, fetch, claim, batch, idx, errVars, stop>>
      BY <3>2, FailedType
    <3> QED
      BY <2>4, <3>1, <3>3 DEF ProcessUserErr, HalfDone, Inject
  <2>5. CASE ProcessProducerErr(r)
    <3>1. tx' \in Ledger /\ view' \in Counts
      BY <2>1, <2>3, <2>5 DEF ProcessProducerErr, ProduceFails
    <3>2. Failed(r)
      BY <2>5 DEF ProcessProducerErr
    <3>3. /\ records' \in Seq(Records) /\ offsetMap' \in Offsets
          /\ dataChan' \in Seq(Records) /\ pc' = "reprocess"
          /\ UNCHANGED <<broker, store, fetch, claim, batch, idx, errVars, stop>>
      BY <3>2, FailedType
    <3>4. CASE Inject("queueFull") /\ ProducerWorks /\ prod' = "open"
      BY <2>5, <3>1, <3>3, <3>4 DEF ProcessProducerErr, ProduceFails, Inject
    <3>5. CASE UNCHANGED <<prod, boundVars>>
      BY <2>5, <3>1, <3>3, <3>5 DEF ProcessProducerErr, ProduceFails
    <3> QED
      BY <2>5, <3>4, <3>5 DEF ProcessProducerErr
  <2>6. CASE ProcessRawErr(r)
    <3>1. tx' \in Ledger /\ view' \in Counts
      BY <2>1, <2>3, <2>6 DEF ProcessRawErr, ProduceFails
    <3>2. Failed(r)
      BY <2>6 DEF ProcessRawErr
    <3>3. /\ records' \in Seq(Records) /\ offsetMap' \in Offsets
          /\ dataChan' \in Seq(Records) /\ pc' = "reprocess"
          /\ UNCHANGED <<broker, store, fetch, claim, batch, idx, errVars, stop>>
      BY <3>2, FailedType
    <3> QED
      BY <2>6, <3>1, <3>3 DEF ProcessRawErr, ProduceFails, Inject
  <2> QED
    BY <1>11, <2>2, <2>4, <2>5, <2>6 DEF Process
<1>12. CASE Recover
  <2>1. CASE ReprocessSkipped
    BY <2>1 DEF ReprocessSkipped
  <2>2. CASE Reprocess
    BY <2>2 DEF Reprocess
  <2>3. CASE Reset
    <3>1. CASE AbortOk /\ ClearBuffer /\ UNCHANGED errVars
      BY <2>3, <3>1 DEF Reset, ResetCache, AbortOk, ClearBuffer
    <3>2. ASSUME NEW e \in {"abort", "restart"}, AbortErr(e), txErr' = e,
                 txInits' = 0, pc' = "handleTx", UNCHANGED <<ret, bufVars>>
          PROVE  TypeOK'
      BY <2>3, <3>2 DEF Reset, ResetCache, AbortErr, Inject
    <3> QED
      BY <2>3, <3>1, <3>2 DEF Reset
  <2>4. CASE HandleTxSkipped
    BY <2>4, TxReturnType DEF HandleTxSkipped
  <2>5. CASE HandleTxAbort
    <3>1. CASE AbortOk /\ pc' = "txInit" /\ UNCHANGED errVars
      BY <2>5, <3>1 DEF HandleTxAbort, AbortOk
    <3>2. ASSUME NEW e \in {"abort", "restart"}, AbortErr(e), txErr' = e,
                 txInits' = txInits + 1, UNCHANGED <<pc, ret>>
          PROVE  TypeOK'
      BY <2>5, <3>2 DEF HandleTxAbort, AbortErr, Inject
    <3> QED
      BY <2>5, <3>1, <3>2 DEF HandleTxAbort
  <2>6. CASE HandleTxRestart
    BY <2>6 DEF HandleTxRestart
  <2>7. CASE InitTransactions
    BY <2>7, TxReturnType DEF InitTransactions
  <2>8. CASE RedoSkip
    BY <2>8 DEF RedoSkip
  <2>9. CASE RedoEnd
    BY <2>9 DEF RedoEnd
  <2> QED
    BY <1>12, <2>1, <2>2, <2>3, <2>4, <2>5, <2>6, <2>7, <2>8, <2>9 DEF Recover
<1>13. CASE Commit
  <2>1. CASE Tick
    BY <2>1 DEF Tick
  <2>2. CASE CommitGroupMetaErr
    BY <2>2 DEF CommitGroupMetaErr, Inject, FlushReturnsErr
  <2>3. CASE SendOffsetsToTransaction
    <3>1. ASSUME tx' = [tx EXCEPT !.off = [p \in Partitions |->
                     IF offsetMap[p] = 0 THEN @[p] ELSE offsetMap[p]]]
          PROVE  tx' \in Ledger
      BY <3>1 DEF Ledger, Offsets
    <3> QED
      BY <2>3, <3>1 DEF SendOffsetsToTransaction, FlushReturnsErr
  <2>4. CASE SendOffsetsPanics
    BY <2>4, DiesType DEF SendOffsetsPanics
  <2>5. CASE CommitTransaction
    BY <2>5 DEF CommitTransaction, FlushReturnsErr
  <2>6. CASE FlushStore
    BY <2>6 DEF FlushStore
  <2>7. CASE FlushStoreErr
    BY <2>7 DEF FlushStoreErr, Inject, FlushReturnsErr
  <2> QED
    BY <1>13, <2>1, <2>2, <2>3, <2>4, <2>5, <2>6, <2>7 DEF Commit
<1>14. ASSUME NEW p \in Partitions, Consume(p) PROVE TypeOK'
  <2>1. CASE ClaimStart(p)
    BY <2>1 DEF ClaimStart
  <2>2. CASE ClaimReceive(p)
    BY <2>2 DEF ClaimReceive, Live
  <2>3. CASE ClaimSend(p)
    <3>1. [part |-> p, off |-> fetch[p]] \in Records /\ fetch' \in Offsets
      BY <2>3 DEF ClaimSend, Records, Offsets
    <3> QED
      BY <2>3, <3>1 DEF ClaimSend, Offsets
  <2>4. CASE ClaimSendsOnClosed(p)
    BY <2>4, DiesType DEF ClaimSendsOnClosed
  <2>5. CASE ClaimStop(p)
    BY <2>5 DEF ClaimStop
  <2> QED
    BY <1>14, <2>1, <2>2, <2>3, <2>4, <2>5 DEF Consume
<1> QED
  BY <1>1, <1>2, <1>3, <1>4, <1>5, <1>6, <1>7, <1>8, <1>9, <1>10, <1>11,
     <1>12, <1>13, <1>14, NextCases

\* Type correctness: no step of the task, its producer or its environment
\* takes a variable out of its type; in particular every record in dataChan,
\* in the commit buffer and in the batch is a record of the input.
THEOREM TypeCorrect == Spec => []TypeOK
<1>1. Init => TypeOK
  BY EmptyTypes DEF Init, TypeOK
<1> QED
  BY <1>1, TypeStep, PTL DEF Spec

-----------------------------------------------------------------------------
(* The inductive invariant.                                                *)

-----------------------------------------------------------------------------
(* Sequences of records.                                                   *)

\* The elements of a sequence of records are records, those of its rest are elements.
LEMMA ElemsInRecords ==
  ASSUME NEW q \in Seq(Records)
  PROVE  Elems(q) \subseteq Records /\ (\A k \in Nat \ {0} : Rest(q, k) \subseteq Elems(q))
  BY DEF Elems, Rest

\* The empty sequence has no elements and is sorted.
LEMMA EmptySeq ==
  /\ Elems(<<>>) = {} /\ Sorted(<<>>)
  /\ \A k \in Nat \ {0} : Rest(<<>>, k) = {}
  BY DEF Elems, Sorted, Rest

\* Only the empty sequence has no elements.
LEMMA NonEmptyElems ==
  ASSUME NEW q \in Seq(Records), Elems(q) = {}
  PROVE  q = <<>>
  BY DEF Elems

\* Append adds one element and keeps the order when that element comes last.
LEMMA AppendSeq ==
  ASSUME NEW q \in Seq(Records), NEW r \in Records
  PROVE  /\ Elems(Append(q, r)) = Elems(q) \cup {r}
         /\ Append(q, r) # <<>>
         /\ Sorted(q) /\ Precede(Elems(q), {r}) => Sorted(Append(q, r))
<1> DEFINE s == Append(q, r)
<1>1. /\ Len(s) = Len(q) + 1 /\ s[Len(q) + 1] = r
      /\ \A i \in 1 .. Len(q) : s[i] = q[i]
  OBVIOUS
<1>2. Elems(s) = Elems(q) \cup {r}
  BY <1>1 DEF Elems
<1>3. ASSUME Sorted(q), Precede(Elems(q), {r}) PROVE Sorted(s)
  <2> SUFFICES ASSUME NEW i \in 1 .. Len(s), NEW j \in 1 .. Len(s), i < j,
                      s[i].part = s[j].part
               PROVE  s[i].off < s[j].off
    BY DEF Sorted
  <2>1. CASE j = Len(q) + 1
    BY <1>1, <1>3, <2>1 DEF Precede, Elems
  <2>2. CASE j # Len(q) + 1
    BY <1>1, <1>3, <2>2 DEF Sorted
  <2> QED
    BY <2>1, <2>2
<1> QED
  BY <1>1, <1>2, <1>3

\* The head of a sorted sequence precedes its tail, which is sorted.
LEMMA TailSeq ==
  ASSUME NEW q \in Seq(Records), q # <<>>, Sorted(q)
  PROVE  /\ Head(q) \in Records /\ Tail(q) \in Seq(Records)
         /\ Elems(q) = {Head(q)} \cup Elems(Tail(q))
         /\ Sorted(Tail(q))
         /\ Precede({Head(q)}, Elems(Tail(q)))
<1>1. /\ Len(q) \in Nat \ {0} /\ Head(q) = q[1]
      /\ Len(Tail(q)) = Len(q) - 1
      /\ \A i \in 1 .. Len(q) - 1 : Tail(q)[i] = q[i + 1]
  OBVIOUS
<1>2. Head(q) \in Records /\ Tail(q) \in Seq(Records)
  OBVIOUS
<1>3. Elems(q) \subseteq {Head(q)} \cup Elems(Tail(q))
  <2> SUFFICES ASSUME NEW i \in 1 .. Len(q), i # 1
               PROVE  q[i] \in Elems(Tail(q))
    BY <1>1 DEF Elems
  <2>1. i - 1 \in 1 .. Len(Tail(q)) /\ Tail(q)[i - 1] = q[i]
    BY <1>1
  <2> QED
    BY <2>1 DEF Elems
<1>4. {Head(q)} \cup Elems(Tail(q)) \subseteq Elems(q)
  BY <1>1 DEF Elems
<1>5. Sorted(Tail(q))
  BY <1>1 DEF Sorted
<1>6. Precede({Head(q)}, Elems(Tail(q)))
  BY <1>1 DEF Sorted, Precede, Elems
<1> QED
  BY <1>2, <1>3, <1>4, <1>5, <1>6

\* Moving the index of the reprocessing loop by one takes the next record off
\* the rest.
LEMMA RestSeq ==
  ASSUME NEW q \in Seq(Records), Sorted(q), NEW k \in 1 .. Len(q)
  PROVE  /\ q[k] \in Records /\ q[k] \in Elems(q)
         /\ Rest(q, k) = {q[k]} \cup Rest(q, k + 1)
         /\ Precede({q[k]}, Rest(q, k + 1))
  BY DEF Elems, Rest, Sorted, Precede

\* At index 1 the rest is the whole batch, past the end it is empty.
LEMMA RestAll ==
  ASSUME NEW q \in Seq(Records)
  PROVE  /\ Rest(q, 1) = Elems(q)
         /\ \A k \in Nat : k > Len(q) => Rest(q, k) = {}
  BY DEF Elems, Rest

-----------------------------------------------------------------------------
(* Steps that leave the pipeline of records alone.                         *)

pipeVars == <<broker, fetch, dataChan, records, offsetMap, ignored, batch, idx, dlq>>

\* The parts of the invariant that speak of the pipeline.
PipeInv ==
  /\ PositionInv /\ SortedInv /\ FlightInv /\ OrderInv
  /\ IgnoredInv /\ OffsetInv /\ ExactlyOnceEffects

\* A step that leaves the pipeline's variables alone keeps its invariant.
LEMMA PipeFrame ==
  ASSUME PipeInv, UNCHANGED pipeVars, pc # "down" \/ pc' = "down",
         pc # "flushStore" \/ pc' = "flushStore", pc' = "redo" => pc = "redo"
  PROVE  PipeInv'
<1> USE DEF PipeInv, pipeVars
<1>1. PositionInv'
  BY DEF PositionInv
<1>2. SortedInv'
  BY DEF SortedInv
<1>3. FlightInv'
  BY DEF FlightInv, Delivered, Pending
<1>4. OrderInv'
  BY DEF OrderInv
<1>5. IgnoredInv' /\ OffsetInv'
  BY DEF IgnoredInv, OffsetInv
<1>6. ExactlyOnceEffects'
  BY DEF ExactlyOnceEffects, NothingLost, NothingTwice, NothingTorn
<1> QED
  BY <1>1, <1>2, <1>3, <1>4, <1>5, <1>6

\* The parts that speak of control, transaction, store and cache.
CoreInv == ControlInv /\ TxInv /\ StoreInv /\ CoverInv /\ SyncInv

\* What the lemmas below assume of every step.
Safe == SafeFaults /\ IInv /\ TypeOK'

\* The numbers behind the types.
LEMMA Numbers ==
  ASSUME TypeOK
  PROVE  /\ \A p \in Partitions : /\ broker.off[p] \in Nat /\ tx.off[p] \in Nat
                                  /\ fetch[p] \in Nat /\ offsetMap[p] \in Nat
         /\ \A r \in Records : /\ r.part \in Partitions
                               /\ r.off \in Nat /\ r.off < NumRecords
                               /\ broker.out[r] \in Nat /\ broker.log[r] \in Nat
                               /\ tx.out[r] \in Nat /\ view[r] \in Nat
<1>1. ASSUME NEW r \in Records
      PROVE  r.part \in Partitions /\ r.off \in Nat /\ r.off < NumRecords
  <2>1. r.part \in Partitions /\ r.off \in 0 .. NumRecords - 1
    BY DEF Records
  <2> QED
    BY <2>1
<1>2. /\ broker.off \in Offsets /\ tx.off \in Offsets /\ fetch \in Offsets
      /\ offsetMap \in Offsets /\ broker.out \in Counts /\ broker.log \in Counts
      /\ tx.out \in Counts /\ view \in Counts
  BY LedgerFields DEF TypeOK
<1>3. \A f \in Offsets, p \in Partitions : f[p] \in Nat
  BY DEF Offsets
<1>4. \A f \in Counts, r \in Records : f[r] \in Nat
  BY DEF Counts
<1> QED
  BY <1>1, <1>2, <1>3, <1>4

-----------------------------------------------------------------------------
(* Start and loss of an instance.                                          *)

\* An empty pipeline satisfies what is said of it.
LEMMA EmptyPipe ==
  ASSUME PositionInv', ExactlyOnceEffects',
         records' = <<>>, batch' = <<>>, dataChan' = <<>>,
         offsetMap' = NoOffsets, ignored' = {}, idx' = 1
  PROVE  PipeInv'
<1>1. SortedInv'
  BY EmptySeq DEF SortedInv
<1>2. FlightInv'
  BY EmptySeq DEF FlightInv, Delivered, Pending
<1>3. OrderInv'
  BY EmptySeq DEF OrderInv, Precede
<1>4. OffsetInv'
  BY EmptySeq DEF OffsetInv, NoOffsets
<1> QED
  BY <1>1, <1>2, <1>3, <1>4 DEF PipeInv, IgnoredInv

\* A step that leaves topics, offsets and dead letters alone keeps
\* the promise.
LEMMA EffectsFrame ==
  ASSUME ExactlyOnceEffects, UNCHANGED <<broker, dlq>>
  PROVE  ExactlyOnceEffects'
  BY DEF ExactlyOnceEffects, NothingLost, NothingTwice, NothingTorn

\* A crash, or any fatal exit of the instance, keeps the invariant: nothing
\* uncommitted survives.
LEMMA DiesStep ==
  ASSUME Safe, Dies
  PROVE  IInv'
<1>1. PositionInv'
  <2>1. PositionInv /\ broker' = broker /\ fetch' = NoOffsets /\ pc' = "down"
    BY DEF Safe, IInv, Dies
  <2> QED
    BY <2>1 DEF PositionInv, NoOffsets
<1>2. ExactlyOnceEffects'
  BY EffectsFrame DEF Safe, IInv, Dies
<1>3. PipeInv'
  BY <1>1, <1>2, EmptyPipe DEF Safe, Dies
<1>4. CoreInv'
  BY DEF Safe, IInv, Dies, CoreInv, ControlInv, Fresh, TxInv, StoreInv, CoverInv, SyncInv, LoopPc
<1> QED
  BY <1>3, <1>4 DEF Safe, IInv, PipeInv, CoreInv

\* Starting an instance resumes at the committed offsets and keeps the
\* invariant.
LEMMA StartStep ==
  ASSUME Safe, StartTask
  PROVE  IInv'
<1> USE DEF Safe, IInv, StartTask, kafkaVars, bufVars, boundVars
<1>1. Fresh
  BY DEF ControlInv
<1>2. store' = broker.log
  BY DEF StoreInv
<1>3. PositionInv'
  BY Numbers DEF PositionInv
<1>4. ExactlyOnceEffects'
  BY EffectsFrame
<1>5. PipeInv'
  BY <1>1, <1>3, <1>4, EmptyPipe DEF Fresh
<1>6. ControlInv'
  BY <1>1 DEF ControlInv, Fresh
<1>7. TxInv' /\ StoreInv'
  BY <1>1, <1>2 DEF TxInv, StoreInv, Fresh
<1>8. CoverInv'
  BY Numbers DEF CoverInv
<1>9. SyncInv'
  BY DEF SyncInv, LoopPc
<1> QED
  BY <1>5, <1>6, <1>7, <1>8, <1>9 DEF PipeInv

-----------------------------------------------------------------------------
(* Steps that leave the pipeline alone.                                    *)

\* Only the message loops and the bounds change.
LEMMA FrameStep ==
  ASSUME Safe, UNCHANGED <<kafkaVars, storeVars, bufVars, fetch, dataChan, pc, errVars, stop>>
  PROVE  IInv'
<1> USE DEF Safe, kafkaVars, storeVars, bufVars, errVars
<1>1. PipeInv'
  BY PipeFrame DEF IInv, PipeInv, pipeVars
<1>2. ControlInv' /\ TxInv' /\ StoreInv'
  BY DEF IInv, ControlInv, Fresh, TxInv, StoreInv, BeginPanics
<1>3. CoverInv'
  BY DEF IInv, CoverInv, Doomed, closing, BeginPanics, Taken
<1>4. SyncInv'
  BY DEF IInv, SyncInv, Doomed, closing, BeginPanics
<1> QED
  BY <1>1, <1>2, <1>3, <1>4 DEF IInv, PipeInv

\* A failing producer only makes more tasks doomed.
LEMMA ProducerFaultStep ==
  ASSUME Safe, ProducerFault
  PROVE  IInv'
<1> USE DEF Safe, ProducerFault, storeVars, bufVars, errVars, inVars
<1>1. PipeInv'
  BY PipeFrame DEF IInv, PipeInv, pipeVars
<1>2. prod' \in {"abortable", "fatal"}
  OBVIOUS
<1>3. ControlInv' /\ TxInv' /\ StoreInv'
  BY <1>2 DEF IInv, ControlInv, Fresh, TxInv, StoreInv, BeginPanics
<1>4. Doomed => Doomed'
  BY <1>2 DEF Doomed, closing, BeginPanics
<1>5. CoverInv'
  BY <1>4 DEF IInv, CoverInv, Taken
<1>6. SyncInv'
  BY <1>4 DEF IInv, SyncInv
<1> QED
  BY <1>1, <1>3, <1>5, <1>6 DEF IInv, PipeInv

\* The stop marks a doomed task at most; it changes nothing else.
LEMMA StopStep ==
  ASSUME Safe, MarkAsCosing \/ SignalStop \/ ConsumersStopped
  PROVE  IInv'
<1> USE DEF Safe, kafkaVars, storeVars, bufVars, errVars, inVars
<1>1. /\ UNCHANGED <<kafkaVars, storeVars, bufVars, inVars, pc, errVars>>
      /\ stop' \in {"marked", "signalled", "drained"}
      /\ stop # "no" \/ MarkAsCosing
  BY DEF MarkAsCosing, SignalStop, ConsumersStopped
<1>2. ret # "init" /\ MaxStops > 0
  <2>1. CASE MarkAsCosing
    BY <2>1 DEF MarkAsCosing, Live, TypeOK, IInv
  <2>2. CASE stop # "no"
    BY <2>2 DEF IInv, ControlInv, Fresh
  <2> QED
    BY <1>1, <2>1, <2>2
<1>3. PipeInv'
  BY <1>1, PipeFrame DEF IInv, PipeInv, pipeVars
<1>4. ControlInv' /\ TxInv' /\ StoreInv'
  BY <1>1, <1>2 DEF IInv, ControlInv, Fresh, TxInv, StoreInv, BeginPanics
<1>5. Doomed => Doomed'
  BY <1>1 DEF Doomed, closing, BeginPanics
<1>6. CoverInv'
  BY <1>1, <1>5 DEF IInv, CoverInv, Taken
<1>7. SyncInv'
  BY <1>1, <1>5 DEF IInv, SyncInv
<1> QED
  BY <1>3, <1>4, <1>6, <1>7 DEF IInv, PipeInv

\* The loop goes from select to commit, or to the end of an empty task.
LEMMA SelectStep ==
  ASSUME Safe, Tick \/ LoopStops
  PROVE  IInv'
<1> USE DEF Safe, kafkaVars, storeVars, bufVars, errVars, inVars
<1>1. /\ UNCHANGED <<kafkaVars, storeVars, bufVars, inVars, errVars>>
      /\ pc = "select" /\ pc' \in {"select", "commit", "flushed"}
      /\ \/ stop' = stop /\ stop # "closing"
         \/ stop # "no" /\ stop' = "closing" /\ pc' # "select"
  BY DEF Tick, LoopStops
<1>2. ret # "init"
  BY <1>1 DEF IInv, ControlInv
<1>3. PipeInv'
  BY <1>1, PipeFrame DEF IInv, PipeInv, pipeVars
<1>4. ControlInv' /\ TxInv' /\ StoreInv'
  BY <1>1, <1>2 DEF IInv, ControlInv, Fresh, TxInv, StoreInv, BeginPanics
<1>5. Doomed = Doomed'
  BY <1>1 DEF Doomed, closing, BeginPanics
<1>6. CoverInv'
  BY <1>1, <1>5 DEF IInv, CoverInv, Taken, LoopPc
<1>7. SyncInv'
  BY <1>1, <1>5 DEF IInv, SyncInv, LoopPc
<1> QED
  BY <1>3, <1>4, <1>6, <1>7 DEF IInv, PipeInv

-----------------------------------------------------------------------------
(* Recovery.                                                               *)

\* The buffer is emptied to process the batch again: cache and transaction are
\* empty too, or the task is doomed.
LEMMA RedoEntry ==
  ASSUME Safe, pc \in {"reset", "handleTx", "txInit"}, ClearBuffer,
         UNCHANGED <<broker, store, inVars, ret, stop>>, ret = "reset",
         view' = broker.log, tx' = broker \/ Doomed',
         prod' \in {"uninit", "ready"} => tx' = broker /\ txBegin' = FALSE
  PROVE  IInv'
<1> USE DEF ClearBuffer, inVars
<1>1. TypeOK /\ TypeOK' /\ PipeInv /\ CoreInv
  BY DEF Safe, IInv, PipeInv, CoreInv
<1>2. /\ Elems(records') = {} /\ Rest(batch', idx') = Elems(batch)
      /\ Sorted(records')
  BY <1>1, EmptySeq, RestAll DEF TypeOK
<1>3. PositionInv'
  BY <1>1 DEF PipeInv, PositionInv
<1>4. SortedInv' /\ FlightInv'
  BY <1>1, <1>2 DEF PipeInv, SortedInv, FlightInv, Delivered, Pending
<1>5. OrderInv'
  BY <1>1, <1>2 DEF PipeInv, OrderInv, Precede
<1>6. IgnoredInv' /\ OffsetInv'
  BY <1>1, <1>2 DEF PipeInv, IgnoredInv, OffsetInv, NoOffsets
<1>7. ExactlyOnceEffects'
  BY <1>1, EffectsFrame DEF PipeInv
<1>8. ControlInv'
  BY <1>1 DEF CoreInv, ControlInv, TypeOK
<1>9. TxInv' /\ StoreInv'
  BY <1>1 DEF CoreInv, TxInv, StoreInv
<1>10. CoverInv'
  BY <1>1, <1>2 DEF CoreInv, CoverInv, Taken, LoopPc
<1>11. SyncInv'
  <2>1. CASE Doomed'
    BY <2>1 DEF SyncInv
  <2>2. CASE tx' = broker
    BY <1>1, <1>2, <2>2, Numbers DEF SyncInv
  <2> QED
    BY <2>1, <2>2
<1> QED
  BY <1>1, <1>3, <1>4, <1>5, <1>6, <1>7, <1>8, <1>9, <1>10, <1>11 DEF IInv

\* Steps between the states of the recovery that keep buffer and batch.
LEMMA RecoverFrame ==
  ASSUME Safe, pc \in {"reset", "handleTx", "txInit"}, pc' \in {"handleTx", "txInit"},
         UNCHANGED <<broker, store, bufVars, inVars, ret, stop>>,
         view' = store, txBegin' = FALSE, tx' = broker \/ tx' = tx,
         prod' \in {"uninit", "ready"} => tx' = broker
  PROVE  IInv'
<1> USE DEF Safe, bufVars, inVars
<1>1. PipeInv'
  BY PipeFrame DEF IInv, PipeInv, pipeVars
<1>2. ControlInv' /\ TxInv' /\ StoreInv'
  BY DEF IInv, ControlInv, Fresh, TxInv, StoreInv
<1>3. CoverInv'
  BY DEF IInv, CoverInv, Taken, LoopPc
<1>4. SyncInv'
  BY DEF SyncInv, LoopPc
<1> QED
  BY <1>1, <1>2, <1>3, <1>4 DEF IInv, PipeInv

\* commitBuffer.Reset (drop the cache, abort, clear or enter the error
\* handler) keeps the invariant.
LEMMA ResetStep ==
  ASSUME Safe, Reset
  PROVE  IInv'
<1>1. pc = "reset" /\ view' = store /\ UNCHANGED <<store, inVars, stop>>
  BY DEF Reset, ResetCache
<1>2. ret = "reset" /\ store = broker.log
  BY <1>1 DEF Safe, IInv, ControlInv, StoreInv, TypeOK
<1>3. CASE AbortOk /\ ClearBuffer /\ UNCHANGED errVars
  BY <1>1, <1>2, <1>3, RedoEntry DEF AbortOk, errVars
<1>4. ASSUME NEW e \in {"abort", "restart"}, AbortErr(e), pc' = "handleTx", UNCHANGED <<ret, bufVars>>
      PROVE  IInv'
  <2>1. prod' \in {"abortable", "fatal"} /\ txBegin' = FALSE /\ tx' = tx /\ broker' = broker
    BY <1>4 DEF AbortErr
  <2> QED
    BY <1>1, <1>4, <2>1, RecoverFrame
<1> QED
  BY <1>3, <1>4 DEF Reset

\* handleTxError returns, with the producer as it is in the next state.
LEMMA TxReturnStep ==
  ASSUME Safe, TxReturn, pc \in {"handleTx", "txInit"},
         UNCHANGED <<broker, tx, txBegin, storeVars, inVars, stop>>,
         prod' = prod \/ (prod = "uninit" /\ prod' = "ready"),
         closing \/ prod' = "ready"
  PROVE  IInv'
<1> USE DEF storeVars
<1>1. /\ txBegin = FALSE /\ view = store /\ store = broker.log
      /\ prod' \in {"uninit", "ready"} => tx = broker
  BY DEF Safe, IInv, TxInv, StoreInv, TypeOK
<1>2. CASE pc' = "txInit" /\ UNCHANGED <<ret, bufVars>>
  BY <1>1, <1>2, RecoverFrame
<1>3. CASE ret = "reset" /\ ClearBuffer /\ UNCHANGED ret
  <2>1. tx' = broker \/ Doomed'
    BY <1>1 DEF Doomed, BeginPanics, closing
  <2> QED
    BY <1>1, <1>3, <2>1, RedoEntry
<1>4. CASE ret = "init" /\ pc' = "select" /\ ret' = "reset" /\ UNCHANGED bufVars
  <2> USE <1>4 DEF Safe, inVars, bufVars
  <2>1. Fresh /\ fetch = broker.off
    BY DEF IInv, ControlInv
  <2>2. PipeInv'
    BY PipeFrame DEF IInv, PipeInv, pipeVars
  <2>3. ControlInv'
    BY <2>1 DEF IInv, ControlInv, Fresh
  <2>4. TxInv' /\ StoreInv'
    BY <1>1, <2>1 DEF IInv, TxInv, StoreInv, Fresh
  <2>5. CoverInv'
    BY <2>1, Numbers DEF IInv, CoverInv
  <2>6. SyncInv'
    BY <1>1, <2>1, EmptySeq, Numbers DEF IInv, SyncInv, Fresh
  <2> QED
    BY <2>2, <2>3, <2>4, <2>5, <2>6 DEF IInv, PipeInv
<1> QED
  BY <1>2, <1>3, <1>4 DEF TxReturn

\* The transaction error handler (abort, re-initialise or exit) keeps the
\* invariant.
LEMMA HandleTxStep ==
  ASSUME Safe, HandleTxSkipped \/ HandleTxAbort \/ HandleTxRestart
  PROVE  IInv'
<1>1. /\ txBegin = FALSE /\ view = store
      /\ prod \in {"uninit", "ready"} => tx = broker
  BY DEF Safe, IInv, TxInv, StoreInv, TypeOK, HandleTxSkipped, HandleTxAbort, HandleTxRestart
<1>2. CASE HandleTxSkipped
  BY <1>2, TxReturnStep DEF HandleTxSkipped, kafkaVars
<1>3. CASE HandleTxAbort
  <2>1. CASE AbortOk /\ pc' = "txInit" /\ UNCHANGED errVars
    BY <1>1, <1>3, <2>1, RecoverFrame DEF HandleTxAbort, AbortOk, errVars, storeVars
  <2>2. ASSUME NEW e \in {"abort", "restart"}, AbortErr(e), UNCHANGED <<pc, ret>>
        PROVE  IInv'
    <3>1. prod' \in {"abortable", "fatal"} /\ txBegin' = FALSE /\ tx' = tx /\ broker' = broker
      BY <2>2 DEF AbortErr
    <3> QED
      BY <1>1, <1>3, <2>2, <3>1, RecoverFrame DEF HandleTxAbort, storeVars
  <2> QED
    BY <1>3, <2>1, <2>2 DEF HandleTxAbort
<1>4. CASE HandleTxRestart
  BY <1>1, <1>4, RecoverFrame DEF HandleTxRestart, errVars, storeVars
<1> QED
  BY <1>2, <1>3, <1>4

\* InitTransactions, in Init or on the way to a reprocessing, keeps the
\* invariant.
LEMMA InitTransactionsStep ==
  ASSUME Safe, InitTransactions
  PROVE  IInv'
<1>1. /\ txBegin = FALSE /\ view = store
      /\ prod \in {"uninit", "ready"} => tx = broker
  BY DEF Safe, IInv, TxInv, StoreInv, TypeOK, InitTransactions
<1>2. CASE prod = "uninit"
  BY <1>2, TxReturnStep DEF InitTransactions
<1>3. CASE prod # "uninit"
  BY <1>1, <1>3, RecoverFrame DEF InitTransactions, storeVars
<1> QED
  BY <1>2, <1>3

\* Entering reProcessCommitBuffer, or skipping it on a closing task, keeps
\* the invariant.
LEMMA ReprocessStep ==
  ASSUME Safe, ReprocessSkipped \/ Reprocess
  PROVE  IInv'
<1> USE DEF kafkaVars, storeVars, inVars, errVars
<1>1. TypeOK /\ TypeOK' /\ PipeInv /\ CoreInv
  BY DEF Safe, IInv, PipeInv, CoreInv
<1>2. CASE ReprocessSkipped
  <2> USE <1>1, <1>2 DEF ReprocessSkipped
  <2>1. Doomed'
    BY DEF CoreInv, ControlInv, TxInv, Doomed, closing, BeginPanics
  <2>2. Elems(batch') = {} /\ Sorted(batch')
    BY EmptySeq
  <2>3. SortedInv' /\ FlightInv' /\ OrderInv'
    BY <2>2 DEF PipeInv, SortedInv, FlightInv, OrderInv, Delivered, Pending, Precede
  <2>4. PositionInv' /\ IgnoredInv' /\ OffsetInv'
    BY DEF PipeInv, PositionInv, IgnoredInv, OffsetInv
  <2>5. ExactlyOnceEffects'
    BY EffectsFrame DEF PipeInv
  <2>6. ControlInv' /\ TxInv' /\ StoreInv'
    BY DEF CoreInv, ControlInv, TxInv, StoreInv
  <2>7. CoverInv' /\ SyncInv'
    BY <2>1 DEF CoverInv, SyncInv, LoopPc
  <2> QED
    BY <2>3, <2>4, <2>5, <2>6, <2>7 DEF IInv
<1>3. CASE Reprocess
  <2> USE <1>1, <1>3 DEF Reprocess
  <2>1. /\ Elems(batch') = IF batch = <<>> THEN Elems(records) ELSE Elems(batch)
        /\ SortedInv'
    BY DEF PipeInv, SortedInv
  <2>2. FlightInv' /\ OrderInv'
    BY <2>1 DEF PipeInv, FlightInv, OrderInv, Delivered, Pending, Precede
  <2>3. PositionInv' /\ IgnoredInv' /\ OffsetInv'
    BY DEF PipeInv, PositionInv, IgnoredInv, OffsetInv
  <2>4. ExactlyOnceEffects'
    BY EffectsFrame DEF PipeInv
  <2>5. ControlInv' /\ TxInv' /\ StoreInv'
    BY DEF CoreInv, ControlInv, TxInv, StoreInv
  <2>6. CoverInv' /\ SyncInv'
    BY <2>1 DEF CoreInv, CoverInv, SyncInv, LoopPc, Taken
  <2> QED
    BY <2>1, <2>2, <2>3, <2>4, <2>5, <2>6 DEF IInv
<1> QED
  BY <1>2, <1>3

\* Skipping an ignored record of the batch, or ending the loop, keeps the
\* invariant.
LEMMA RedoStep ==
  ASSUME Safe, RedoSkip \/ RedoEnd
  PROVE  IInv'
<1> USE DEF kafkaVars, storeVars, inVars, errVars
<1>1. TypeOK /\ TypeOK' /\ PipeInv /\ CoreInv
  BY DEF Safe, IInv, PipeInv, CoreInv
<1>2. pc = "redo" /\ UNCHANGED <<kafkaVars, storeVars, records, offsetMap, ignored, dlq,
                                  inVars, errVars, stop>>
  BY DEF RedoSkip, RedoEnd
<1>3. PositionInv' /\ IgnoredInv' /\ OffsetInv'
  BY <1>1, <1>2 DEF PipeInv, PositionInv, IgnoredInv, OffsetInv, RedoSkip, RedoEnd
<1>4. ExactlyOnceEffects'
  BY <1>1, <1>2, EffectsFrame DEF PipeInv
<1>5. Doomed = Doomed'
  BY <1>2 DEF Doomed, closing, BeginPanics
<1>6. CASE RedoSkip
  <2> USE <1>1, <1>2, <1>6 DEF RedoSkip
  <2>0. batch \in Seq(Records) /\ Sorted(batch) /\ idx \in 1 .. Len(batch)
    BY DEF TypeOK, PipeInv, SortedInv
  <2>1. Rest(batch, idx) = {batch[idx]} \cup Rest(batch, idx + 1)
    BY ONLY <2>0, RestSeq
  <2>2. SortedInv' /\ FlightInv'
    BY DEF PipeInv, SortedInv, FlightInv, Delivered, Pending
  <2>3. OrderInv'
    BY <2>1 DEF PipeInv, OrderInv, Precede
  <2>4. ControlInv' /\ TxInv' /\ StoreInv'
    BY DEF CoreInv, ControlInv, TxInv, StoreInv, TypeOK
  <2>5. CoverInv'
    BY <1>5, <2>1 DEF CoreInv, CoverInv, Taken, LoopPc
  <2>6. SyncInv'
    BY <1>5 DEF CoreInv, SyncInv, LoopPc
  <2> QED
    BY <1>3, <1>4, <2>2, <2>3, <2>4, <2>5, <2>6 DEF IInv
<1>7. CASE RedoEnd
  <2> USE <1>1, <1>2, <1>7 DEF RedoEnd
  <2>1. Rest(batch, idx) = {} /\ Elems(batch') = {} /\ Sorted(batch')
    BY RestAll, EmptySeq DEF TypeOK
  <2>2. SortedInv' /\ FlightInv' /\ OrderInv'
    BY <2>1 DEF PipeInv, SortedInv, FlightInv, OrderInv, Delivered, Pending, Precede
  <2>3. ControlInv' /\ TxInv' /\ StoreInv'
    BY DEF CoreInv, ControlInv, TxInv, StoreInv, TypeOK
  <2>4. CoverInv'
    BY <1>5, <2>1 DEF CoreInv, CoverInv, Taken, LoopPc
  <2>5. SyncInv'
    BY <1>5 DEF CoreInv, SyncInv, LoopPc
  <2> QED
    BY <1>3, <1>4, <2>2, <2>3, <2>4, <2>5 DEF IInv
<1> QED
  BY <1>6, <1>7

-----------------------------------------------------------------------------
(* Consuming and processing a record.                                      *)

LEMMA ClaimSendStep ==
  ASSUME Safe, NEW p \in Partitions, ClaimSend(p)
  PROVE  IInv'
<1> USE DEF kafkaVars, storeVars, bufVars, errVars
<1>1. TypeOK /\ TypeOK' /\ PipeInv /\ CoreInv
  BY DEF Safe, IInv, PipeInv, CoreInv
<1>2. /\ dataChan' = Append(dataChan, [part |-> p, off |-> fetch[p]])
      /\ fetch' = [fetch EXCEPT ![p] = @ + 1]
      /\ UNCHANGED <<kafkaVars, storeVars, bufVars, pc, errVars, stop>>
      /\ pc # "down" /\ ret # "init" /\ fetch[p] < NumRecords
  BY <1>1 DEF ClaimSend, Live, TypeOK
<1>3. PICK r \in Records : /\ r.part = p /\ r.off = fetch[p]
                            /\ dataChan' = Append(dataChan, r)
  BY <1>1, <1>2, Numbers DEF Records
<1>4. \A q \in Partitions : fetch'[q] = IF q = p THEN fetch[q] + 1 ELSE fetch[q]
  BY <1>1, <1>2 DEF TypeOK, Offsets
<1>5. \A a \in Records : a.off < fetch[a.part] => a.off < fetch'[a.part]
  BY <1>1, <1>4, Numbers
<1>6. /\ Elems(dataChan) \subseteq Records /\ Elems(records) \subseteq Records
      /\ Elems(batch) \subseteq Records /\ ignored \subseteq Records
  BY <1>1, ElemsInRecords DEF TypeOK
<1>7. Precede(Elems(dataChan), {r})
  BY <1>1, <1>3, <1>6, Numbers DEF PipeInv, FlightInv, Delivered, Precede
<1>8. Elems(dataChan') = Elems(dataChan) \cup {r} /\ Sorted(dataChan')
  BY <1>1, <1>2, <1>3, <1>7, AppendSeq DEF PipeInv, SortedInv, TypeOK
<1>9. PositionInv'
  BY <1>1, <1>2, <1>4, Numbers DEF PipeInv, PositionInv
<1>10. SortedInv'
  BY <1>1, <1>2, <1>8 DEF PipeInv, SortedInv
<1>11. FlightInv'
  <2>1. Delivered({r})' /\ Pending({r})'
    BY <1>1, <1>2, <1>3, <1>4, Numbers DEF PipeInv, PositionInv, Delivered, Pending
  <2> QED
    BY <1>1, <1>2, <1>5, <1>6, <1>8, <2>1 DEF PipeInv, FlightInv, Delivered, Pending
<1>12. OrderInv'
  BY <1>1, <1>2, <1>3, <1>6, <1>8 DEF PipeInv, OrderInv, FlightInv, Delivered, Precede
<1>13. IgnoredInv' /\ OffsetInv'
  BY <1>1, <1>2 DEF PipeInv, IgnoredInv, OffsetInv
<1>14. ExactlyOnceEffects'
  BY <1>1, <1>2, EffectsFrame DEF PipeInv
<1>15. ControlInv' /\ TxInv' /\ StoreInv'
  BY <1>1, <1>2 DEF CoreInv, ControlInv, TxInv, StoreInv, BeginPanics
<1>16. CoverInv'
  <2>1. Doomed' = Doomed /\ Taken' = Taken
    BY <1>2 DEF Doomed, closing, BeginPanics, Taken
  <2>2. \A a \in Records : a.off < fetch'[a.part] => a.off < fetch[a.part] \/ a = r
    <3> SUFFICES ASSUME NEW a \in Records, a.off < fetch'[a.part], ~(a.off < fetch[a.part])
                 PROVE  a = r
      OBVIOUS
    <3>1. a.part = p /\ a.off = fetch[p]
      BY <1>1, <1>4, Numbers
    <3> QED
      BY <1>3, <3>1 DEF Records
  <2> QED
    BY <1>1, <1>2, <1>8, <2>1, <2>2 DEF CoreInv, CoverInv
<1>17. SyncInv'
  BY <1>1, <1>2 DEF CoreInv, SyncInv, Doomed, closing, BeginPanics
<1> QED
  BY <1>1, <1>9, <1>10, <1>11, <1>12, <1>13, <1>14, <1>15, <1>16, <1>17 DEF IInv

\* The record a call of process gets is next in line.
LEMMA TakeFacts ==
  ASSUME Safe, NEW r \in Records, FromChan(r) \/ FromBatch(r)
  PROVE  /\ Precede(Elems(records), {r}) /\ Precede({r}, Elems(dataChan'))
         /\ Delivered({r}) /\ Pending({r}) /\ r \notin ignored
         /\ Elems(dataChan') \subseteq Elems(dataChan) /\ Sorted(dataChan')
         /\ Elems(dataChan) \subseteq Elems(dataChan') \cup {r}
<1>1. TypeOK /\ PipeInv /\ CoreInv
  BY DEF Safe, IInv, PipeInv, CoreInv
<1>2. CASE FromChan(r)
  <2>1. dataChan \in Seq(Records) /\ dataChan # <<>> /\ Sorted(dataChan)
        /\ r = Head(dataChan) /\ dataChan' = Tail(dataChan)
    BY <1>1, <1>2 DEF FromChan, TypeOK, PipeInv, SortedInv
  <2>2. /\ Elems(dataChan) = {r} \cup Elems(dataChan')
        /\ Sorted(dataChan') /\ Precede({r}, Elems(dataChan'))
    BY <2>1, TailSeq
  <2>3. Precede(Elems(records), {r}) /\ Delivered({r}) /\ Pending({r})
    BY <1>1, <2>2 DEF PipeInv, OrderInv, FlightInv, Precede, Delivered, Pending
  <2>4. r \notin ignored
    BY <1>1, <2>2, Numbers DEF PipeInv, OrderInv, Precede
  <2> QED
    BY <2>2, <2>3, <2>4
<1>3. CASE FromBatch(r)
  <2>1. /\ batch \in Seq(Records) /\ Sorted(batch) /\ idx \in 1 .. Len(batch)
        /\ r = batch[idx] /\ dataChan' = dataChan /\ r \notin ignored /\ pc = "redo"
    BY <1>1, <1>3 DEF FromBatch, TypeOK, PipeInv, SortedInv
  <2>2. r \in Elems(batch) /\ r \in Rest(batch, idx)
    <3>1. batch[idx] \in Elems(batch) /\ Rest(batch, idx) = {batch[idx]} \cup Rest(batch, idx + 1)
      BY ONLY <2>1, RestSeq
    <3> QED
      BY <2>1, <3>1
  <2>3. /\ Precede(Elems(records), {r}) /\ Precede({r}, Elems(dataChan))
        /\ Delivered({r}) /\ Pending({r}) /\ Sorted(dataChan)
    BY <1>1, <2>1, <2>2
       DEF PipeInv, SortedInv, OrderInv, FlightInv, Precede, Delivered, Pending
  <2> QED
    BY <2>1, <2>3
<1> QED
  BY <1>2, <1>3

\* What commitBuffer.Add does to a sorted buffer.
LEMMA AddFacts ==
  ASSUME TypeOK, OffsetInv, Sorted(records), NEW r \in Records, Add(r),
         Precede(Elems(records), {r})
  PROVE  /\ Elems(records') = Elems(records) \cup {r} /\ r \notin Elems(records)
         /\ Sorted(records') /\ OffsetInv'
<1>1. /\ Elems(records') = Elems(records) \cup {r} /\ Sorted(records')
      /\ Elems(records) \subseteq Records
  BY AppendSeq, ElemsInRecords DEF Add, TypeOK
<1>2. r \notin Elems(records)
  BY Numbers DEF Precede
<1>3. \A p \in Partitions : offsetMap'[p] = IF p = r.part THEN r.off + 1 ELSE offsetMap[p]
  BY DEF Add, TypeOK, Offsets
<1>4. ASSUME NEW p \in Partitions, p = r.part
      PROVE  /\ \E a \in Elems(records') : a.part = p /\ offsetMap'[p] = a.off + 1
             /\ \A a \in Elems(records') : a.part = p => a.off < offsetMap'[p]
  <2>1. \A a \in Elems(records') : a.part = p => a.off < r.off + 1
    BY <1>1, <1>4, Numbers DEF Precede
  <2> QED
    BY <1>1, <1>3, <1>4, <2>1
<1>5. ASSUME NEW p \in Partitions, p # r.part
      PROVE  \/ /\ offsetMap'[p] = 0
                /\ \A a \in Elems(records') : a.part # p
             \/ /\ \E a \in Elems(records') : a.part = p /\ offsetMap'[p] = a.off + 1
                /\ \A a \in Elems(records') : a.part = p => a.off < offsetMap'[p]
  BY <1>1, <1>3, <1>5 DEF OffsetInv
<1>6. OffsetInv'
  BY <1>4, <1>5 DEF OffsetInv
<1> QED
  BY <1>1, <1>2, <1>6

\* The record moves from the channel or the batch to the buffer.
LEMMA AddPipe ==
  ASSUME Safe, NEW r \in Records, FromChan(r) \/ FromBatch(r), Add(r),
         UNCHANGED <<broker, fetch, batch>>, dlq \subseteq dlq',
         \/ ignored' = ignored
         \/ ignored' = ignored \cup {r} /\ r \in dlq',
         \/ pc' = pc /\ idx' = IF pc = "redo" THEN idx + 1 ELSE idx
         \/ pc' = "reprocess"
  PROVE  PipeInv'
<1>1. TypeOK /\ TypeOK' /\ PipeInv /\ CoreInv
  BY DEF Safe, IInv, PipeInv, CoreInv
<1>2. /\ Precede(Elems(records), {r}) /\ Precede({r}, Elems(dataChan'))
      /\ Delivered({r}) /\ Pending({r})
      /\ Elems(dataChan') \subseteq Elems(dataChan) /\ Sorted(dataChan')
  BY TakeFacts
<1>3. Elems(records') = Elems(records) \cup {r} /\ Sorted(records') /\ OffsetInv'
  BY <1>1, <1>2, AddFacts DEF PipeInv, SortedInv
<1>4. pc \in {"select", "redo"}
  BY DEF FromChan, FromBatch
<1>5. PositionInv' /\ SortedInv'
  BY <1>1, <1>2, <1>3, <1>4 DEF PipeInv, PositionInv, SortedInv
<1>6. FlightInv'
  BY <1>1, <1>2, <1>3, <1>4 DEF PipeInv, FlightInv, Delivered, Pending
<1>7. OrderInv'
  <2>1. /\ Precede(Elems(records'), Elems(dataChan')) /\ Precede(Elems(batch'), Elems(dataChan'))
        /\ Precede(ignored', Elems(dataChan'))
    BY <1>1, <1>2, <1>3 DEF PipeInv, OrderInv, Precede
  <2>2. ASSUME pc' = "redo"
        PROVE  /\ Precede(Elems(records'), Rest(batch', idx'))
               /\ Elems(records') \subseteq Elems(batch')
    <3>1. /\ batch \in Seq(Records) /\ Sorted(batch) /\ idx \in 1 .. Len(batch)
          /\ r = batch[idx] /\ idx' = idx + 1 /\ pc = "redo"
      BY <1>1, <1>4, <2>2 DEF FromBatch, FromChan, TypeOK, PipeInv, SortedInv
    <3>2. /\ Rest(batch, idx) = {r} \cup Rest(batch', idx') /\ r \in Elems(batch)
          /\ Precede({r}, Rest(batch', idx'))
      BY <3>1, RestSeq
    <3> QED
      BY <1>1, <1>3, <3>1, <3>2 DEF PipeInv, OrderInv, Precede
  <2> QED
    BY <2>1, <2>2 DEF OrderInv
<1>8. IgnoredInv'
  <2>1. broker.out[r] = 0
    BY <1>1, <1>2, Numbers DEF PipeInv, ExactlyOnceEffects, NothingTorn, Pending
  <2> QED
    BY <1>1, <2>1 DEF PipeInv, IgnoredInv
<1>9. ExactlyOnceEffects'
  BY <1>1 DEF PipeInv, ExactlyOnceEffects, NothingLost, NothingTwice, NothingTorn
<1> QED
  BY <1>3, <1>5, <1>6, <1>7, <1>8, <1>9 DEF PipeInv

\* A record taken off dataChan and processed without error keeps the
\* invariant.
LEMMA ProcessOkStep ==
  ASSUME Safe, NEW r \in Records, ProcessOk(r)
  PROVE  IInv'
<1>1. TypeOK /\ TypeOK' /\ PipeInv /\ CoreInv
  BY DEF Safe, IInv, PipeInv, CoreInv
<1>2. /\ FromChan(r) \/ FromBatch(r)
      /\ Add(r) /\ txBegin' = TRUE /\ prod' = "open" /\ view' = Bump(view, r)
      /\ tx' = [tx EXCEPT !.log = Bump(view, r), !.out = Bump(@, r)]
      /\ idx' = IF pc = "redo" THEN idx + 1 ELSE idx
      /\ UNCHANGED <<broker, store, fetch, claim, ignored, batch, dlq, pc, errVars, stop>>
      /\ ~BeginPanics
  BY DEF ProcessOk, ProducerWorks
<1>3. PipeInv'
  BY <1>2, AddPipe
<1>4. /\ r \notin ignored /\ Precede(Elems(records), {r})
      /\ Elems(dataChan) \subseteq Elems(dataChan') \cup {r}
  BY <1>2, TakeFacts
<1>5. Elems(records') = Elems(records) \cup {r} /\ r \notin Elems(records)
  BY <1>1, <1>2, <1>4, AddFacts DEF PipeInv, SortedInv
<1>6. pc \in {"select", "redo"} /\ ~Doomed
  BY <1>2 DEF FromChan, FromBatch, Doomed
<1>7. ret # "init"
  BY <1>1, <1>6 DEF CoreInv, ControlInv
<1>8. ControlInv'
  <2>1. pc = "redo" => idx + 1 <= Len(batch) + 1
    BY <1>1, <1>2 DEF FromBatch, FromChan, TypeOK
  <2> QED
    BY <1>1, <1>2, <1>6, <1>7, <2>1 DEF CoreInv, ControlInv, errVars
<1>9. TxInv' /\ StoreInv'
  BY <1>1, <1>2, <1>6 DEF CoreInv, TxInv, StoreInv
<1>10. CoverInv'
  <2>1. Taken \subseteq Taken' \cup {r} /\ r \in Taken'
    <3>1. CASE pc = "select"
      BY <1>2, <1>5, <3>1 DEF Taken
    <3>2. CASE pc = "redo"
      <4>1. /\ batch \in Seq(Records) /\ Sorted(batch) /\ idx \in 1 .. Len(batch)
            /\ r = batch[idx] /\ idx' = idx + 1 /\ batch' = batch
        <5>1. FromBatch(r)
          BY <1>2, <3>2 DEF FromChan
        <5>2. idx' = idx + 1 /\ batch' = batch
          BY <1>2, <3>2
        <5>3. idx \in 1 .. Len(batch) /\ r = batch[idx]
          BY <1>1, <5>1 DEF FromBatch, TypeOK
        <5> QED
          BY <1>1, <5>2, <5>3 DEF TypeOK, PipeInv, SortedInv
      <4>2. Rest(batch, idx) = {r} \cup Rest(batch', idx')
        <5>1. Rest(batch, idx) = {batch[idx]} \cup Rest(batch, idx + 1)
          BY ONLY <4>1, RestSeq
        <5> QED
          BY <4>1, <5>1
      <4> QED
        BY <1>2, <1>5, <3>2, <4>2 DEF Taken
    <3> QED
      BY <1>6, <3>1, <3>2
  <2> QED
    BY <1>1, <1>2, <1>4, <1>6, <2>1 DEF CoreInv, CoverInv
<1>11. SyncInv'
  <2>1. /\ tx'.log = view' /\ tx'.off = tx.off /\ tx'.out = Bump(tx.out, r)
    BY <1>1, <1>2 DEF TypeOK, Ledger
  <2>2. \A a \in Records : /\ view'[a] = IF a = r THEN view[a] + 1 ELSE view[a]
                           /\ tx'.out[a] = IF a = r THEN tx.out[a] + 1 ELSE tx.out[a]
    <3>1. view \in Counts /\ tx.out \in Counts
      BY <1>1, LedgerFields DEF TypeOK
    <3> QED
      BY <1>2, <2>1, <3>1 DEF Bump, Counts
  <2>3. SyncInv /\ pc \in LoopPc
    BY <1>1, <1>6 DEF CoreInv, LoopPc
  <2>4. /\ Elems(records) \cap ignored = {}
        /\ \A a \in Records :
             LET n == IF a \in Elems(records) THEN 1 ELSE 0 IN
               tx.out[a] = broker.out[a] + n /\ view[a] = broker.log[a] + n
        /\ \A p \in Partitions : tx.off[p] = broker.off[p]
    BY <1>6, <2>3 DEF SyncInv
  <2>5. \A a \in Records :
             LET n == IF a \in Elems(records') THEN 1 ELSE 0 IN
               tx'.out[a] = broker.out[a] + n /\ view'[a] = broker.log[a] + n
    BY <1>1, <1>5, <2>2, <2>4, Numbers
  <2> QED
    BY <1>2, <1>4, <1>5, <1>6, <2>1, <2>4, <2>5 DEF SyncInv
<1> QED
  BY <1>1, <1>3, <1>8, <1>9, <1>10, <1>11 DEF IInv, PipeInv

\* A failed call of process leaves a task that reprocesses its batch.  It is
\* either never stopped, or its producer cannot begin another transaction.
LEMMA FailedStep ==
  ASSUME Safe, NEW r \in Records, Failed(r), ~Doomed, dlq \subseteq dlq',
         \/ ignored' = ignored
         \/ ignored' = ignored \cup {r} /\ r \in dlq',
         BeginPanics' \/ MaxStops = 0,
         prod' \in {"uninit", "ready"} => tx' = broker /\ txBegin' = FALSE
  PROVE  IInv'
<1>1. TypeOK /\ TypeOK' /\ PipeInv /\ CoreInv
  BY DEF Safe, IInv, PipeInv, CoreInv
<1>2. /\ pc' = "reprocess" /\ pc \in {"select", "redo"}
      /\ UNCHANGED <<broker, store, fetch, claim, batch, idx, errVars, stop>>
      /\ FromChan(r) \/ FromBatch(r)
  BY DEF Failed, FromChan, FromBatch
<1>3. ControlInv'
  <2>1. ret # "init" /\ stop # "closing"
    BY <1>1, <1>2 DEF CoreInv, ControlInv
  <2> QED
    BY <1>1, <1>2, <2>1 DEF CoreInv, ControlInv, errVars
<1>4. TxInv' /\ StoreInv'
  BY <1>1, <1>2 DEF CoreInv, TxInv, StoreInv
<1>5. SyncInv'
  BY <1>2 DEF SyncInv, LoopPc
<1>6. /\ Precede(Elems(records), {r}) /\ Precede({r}, Elems(dataChan'))
      /\ Delivered({r}) /\ Pending({r}) /\ r \notin ignored
      /\ Elems(dataChan') \subseteq Elems(dataChan) /\ Sorted(dataChan')
      /\ Elems(dataChan) \subseteq Elems(dataChan') \cup {r}
  BY <1>2, TakeFacts
<1>7. \A a \in Records :
        broker.off[a.part] <= a.off /\ a.off < fetch[a.part] =>
           a \in Elems(dataChan) \cup Taken \cup ignored
  BY <1>1, <1>2 DEF CoreInv, CoverInv
<1>8. CASE FromChan(r) /\ Add(r)
  <2>1. PipeInv'
    BY <1>2, <1>8, AddPipe
  <2>2. Elems(records') = Elems(records) \cup {r}
    BY <1>1, <1>6, <1>8, AddFacts DEF PipeInv, SortedInv
  <2>3. Taken = Elems(records) /\ Taken' = Elems(records')
    BY <1>1, <1>2, <1>8 DEF FromChan, Taken, CoreInv, ControlInv
  <2>4. CoverInv'
    BY <1>2, <1>6, <1>7, <2>2, <2>3 DEF CoverInv
  <2> QED
    BY <1>1, <1>3, <1>4, <1>5, <2>1, <2>4 DEF IInv, PipeInv
<1>9. CASE FromBatch(r) /\ UNCHANGED <<records, offsetMap>>
  <2>1. pc = "redo" /\ batch # <<>> /\ dataChan' = dataChan
    BY <1>1, <1>9 DEF FromBatch, TypeOK
  <2>2. /\ Rest(batch, idx) \subseteq Elems(batch)
        /\ Elems(records) \subseteq Elems(batch)
    BY <1>1, <2>1, ElemsInRecords DEF TypeOK, PipeInv, OrderInv
  <2>3. CoverInv'
    BY <1>2, <1>7, <2>1, <2>2 DEF CoverInv, Taken
  <2>4. SortedInv' /\ PositionInv' /\ OffsetInv'
    BY <1>1, <1>2, <1>9, <2>1 DEF PipeInv, SortedInv, PositionInv, OffsetInv
  <2>5. FlightInv' /\ OrderInv'
    BY <1>1, <1>2, <1>6, <1>9, <2>1
       DEF PipeInv, FlightInv, OrderInv, Delivered, Pending, Precede
  <2>6. IgnoredInv'
    <3>1. broker.out[r] = 0
      BY <1>1, <1>6, Numbers DEF PipeInv, ExactlyOnceEffects, NothingTorn, Pending
    <3> QED
      BY <1>1, <1>2, <3>1 DEF PipeInv, IgnoredInv
  <2>7. ExactlyOnceEffects'
    BY <1>1, <1>2 DEF PipeInv, ExactlyOnceEffects, NothingLost, NothingTwice, NothingTorn
  <2> QED
    BY <1>1, <1>3, <1>4, <1>5, <2>3, <2>4, <2>5, <2>6, <2>7 DEF IInv
<1> QED
  BY <1>8, <1>9 DEF Failed

\* A record whose processing fails, in the topology or in the producer, keeps
\* the invariant.
LEMMA ProcessErrStep ==
  ASSUME Safe, NEW r \in Records,
         ProcessUserErr(r) \/ ProcessProducerErr(r) \/ ProcessRawErr(r)
  PROVE  IInv'
<1>1. CASE ProcessUserErr(r)
  <2>1. MaxStops = 0
    BY <1>1 DEF ProcessUserErr, Inject, Safe, SafeFaults
  <2>2. ~Doomed
    BY <2>1 DEF Safe, IInv, ControlInv, Doomed, closing
  <2>3. prod' \in {"uninit", "ready"} => tx' = broker /\ txBegin' = FALSE
    BY <1>1 DEF ProcessUserErr, HalfDone, Safe, IInv, TxInv, TypeOK
  <2> QED
    BY <1>1, <2>1, <2>2, <2>3, FailedStep DEF ProcessUserErr
<1>2. CASE ProcessProducerErr(r)
  <2>1. /\ prod' \in {"open", "abortable", "fatal"} /\ txBegin' = FALSE /\ ~BeginPanics
    BY <1>2 DEF ProcessProducerErr, ProduceFails, ProducerWorks, BeginPanics
  <2>2. ~Doomed /\ BeginPanics'
    BY <2>1 DEF Doomed, BeginPanics
  <2> QED
    BY <1>2, <2>1, <2>2, FailedStep DEF ProcessProducerErr
<1>3. CASE ProcessRawErr(r)
  <2>1. /\ prod' = "open" /\ txBegin' = FALSE /\ ~BeginPanics
    BY <1>3 DEF ProcessRawErr, ProduceFails, ProducerWorks
  <2>2. ~Doomed /\ BeginPanics'
    BY <2>1 DEF Doomed, BeginPanics
  <2> QED
    BY <1>3, <2>1, <2>2, FailedStep DEF ProcessRawErr
<1> QED
  BY <1>1, <1>2, <1>3

-----------------------------------------------------------------------------
(* commitBuffer.Flush.                                                     *)

\* Flush returns an error before anything is committed.
LEMMA FlushErrStep ==
  ASSUME Safe, pc \in {"commit", "commitTx"}, FlushReturnsErr, ~Doomed,
         UNCHANGED <<broker, storeVars, bufVars, inVars, errVars, stop>>,
         BeginPanics' \/ MaxStops = 0,
         prod' \in {"uninit", "ready"} => tx' = broker /\ txBegin' = FALSE
  PROVE  IInv'
<1> USE DEF Safe, storeVars, bufVars, inVars, errVars
<1>1. pc' = (IF stop = "closing" THEN "flushed" ELSE "reprocess")
  BY DEF FlushReturnsErr
<1>2. PipeInv'
  BY <1>1, PipeFrame DEF IInv, PipeInv, pipeVars
<1>3. ret # "init"
  BY DEF IInv, ControlInv
<1>4. ControlInv' /\ TxInv' /\ StoreInv'
  BY <1>1, <1>3 DEF IInv, ControlInv, TxInv, StoreInv
<1>5. CoverInv'
  <2>1. batch = <<>> /\ Taken = Elems(records)
    BY DEF IInv, ControlInv, Taken
  <2> QED
    BY <1>1, <2>1 DEF IInv, CoverInv, Taken
<1>6. SyncInv'
  BY <1>1 DEF SyncInv, LoopPc
<1> QED
  BY <1>2, <1>4, <1>5, <1>6 DEF IInv, PipeInv

\* A failure to read the group metadata before a commit keeps the invariant.
LEMMA GroupMetaStep ==
  ASSUME Safe, CommitGroupMetaErr
  PROVE  IInv'
<1>1. MaxStops = 0
  BY DEF CommitGroupMetaErr, Inject, Safe, SafeFaults
<1>2. ~Doomed
  BY <1>1 DEF Safe, IInv, ControlInv, Doomed, closing
<1>3. prod' \in {"uninit", "ready"} => tx' = broker /\ txBegin' = FALSE
  BY DEF CommitGroupMetaErr
<1> QED
  BY <1>1, <1>2, <1>3, FlushErrStep DEF CommitGroupMetaErr

\* SendOffsetsToTransaction, successful or not, keeps the invariant.
LEMMA SendOffsetsStep ==
  ASSUME Safe, SendOffsetsToTransaction
  PROVE  IInv'
<1>1. /\ pc = "commit" /\ ~BeginPanics /\ ~Doomed
      /\ UNCHANGED <<broker, storeVars, bufVars, inVars, errVars, stop>>
  BY DEF SendOffsetsToTransaction, Doomed
<1>2. CASE pc' = "commitTx"
  <2> USE <1>1, <1>2 DEF Safe, storeVars, bufVars, inVars, errVars
  <2>1. /\ prod' = "open" /\ txBegin' = TRUE
        /\ tx' = [tx EXCEPT !.off = [p \in Partitions |->
                     IF offsetMap[p] = 0 THEN @[p] ELSE offsetMap[p]]]
    BY DEF SendOffsetsToTransaction, FlushReturnsErr
  <2>2. PipeInv'
    BY PipeFrame DEF IInv, PipeInv, pipeVars
  <2>3. ret # "init"
    BY DEF IInv, ControlInv
  <2>4. ControlInv' /\ TxInv' /\ StoreInv'
    BY <2>1, <2>3 DEF IInv, ControlInv, TxInv, StoreInv
  <2>5. CoverInv'
    BY DEF IInv, CoverInv, Taken
  <2>6. SyncInv'
    <3>1. /\ tx'.out = tx.out /\ tx'.log = tx.log
          /\ \A p \in Partitions :
               tx'.off[p] = IF offsetMap[p] = 0 THEN tx.off[p] ELSE offsetMap[p]
      BY <2>1 DEF IInv, TypeOK, Ledger
    <3>2. /\ Elems(records) \cap ignored = {}
          /\ \A r \in Records :
               LET n == IF r \in Elems(records) THEN 1 ELSE 0 IN
                 tx.out[r] = broker.out[r] + n /\ view[r] = broker.log[r] + n
          /\ tx.log = view
          /\ \A p \in Partitions : tx.off[p] = broker.off[p]
      BY DEF IInv, SyncInv, LoopPc
    <3> QED
      BY <3>1, <3>2 DEF SyncInv
  <2> QED
    BY <2>2, <2>4, <2>5, <2>6 DEF IInv, PipeInv
<1>3. CASE FlushReturnsErr
  <2>1. prod' \in {"abortable", "fatal"} /\ txBegin' = FALSE
    BY <1>3 DEF SendOffsetsToTransaction, FlushReturnsErr
  <2>2. BeginPanics'
    BY <2>1 DEF BeginPanics
  <2> QED
    BY <1>1, <1>3, <2>1, <2>2, FlushErrStep
<1> QED
  BY <1>2, <1>3 DEF SendOffsetsToTransaction

\* What the transaction holds when it is committed.
CommitFacts ==
  /\ Elems(records) \subseteq Records
  /\ Elems(records) \cap ignored = {}
  /\ \A r \in Records :
       /\ r \in Elems(records) => tx.out[r] = 1 /\ tx.log[r] = 1
       /\ r \notin Elems(records) =>
            tx.out[r] = broker.out[r] /\ tx.log[r] = broker.log[r]
  /\ \A p \in Partitions :
       broker.off[p] <= tx.off[p] /\ tx.off[p] <= fetch[p] /\ tx.off[p] <= NumRecords
  /\ \A r \in Elems(records) : r.off < tx.off[r.part]
  \* The records between the old and the new offset are in the buffer or ignored.
  /\ \A r \in Records : broker.off[r.part] <= r.off /\ r.off < tx.off[r.part] =>
       r \in Elems(records) \cup ignored
  /\ \A r \in Elems(dataChan) : tx.off[r.part] <= r.off

\* When CommitTx is called, transaction and cache hold exactly the buffered
\* records.
LEMMA CommitReady ==
  ASSUME IInv, pc = "commitTx"
  PROVE  CommitFacts
<1>1. ~Doomed /\ txBegin
  BY DEF IInv, TxInv, Doomed, BeginPanics
<1>2. /\ Elems(records) \cap ignored = {}
      /\ \A r \in Records :
           LET n == IF r \in Elems(records) THEN 1 ELSE 0 IN
             tx.out[r] = broker.out[r] + n /\ view[r] = broker.log[r] + n
      /\ tx.log = view
      /\ \A p \in Partitions :
           tx.off[p] = IF offsetMap[p] # 0 THEN offsetMap[p] ELSE broker.off[p]
  BY <1>1 DEF IInv, SyncInv, LoopPc
<1>3. \A r \in Records : broker.off[r.part] <= r.off /\ r.off < fetch[r.part] =>
         r \in Elems(dataChan) \cup Elems(records) \cup ignored
  BY <1>1 DEF IInv, CoverInv, Taken
<1>4. Elems(records) \subseteq Records /\ Elems(dataChan) \subseteq Records
  BY ElemsInRecords DEF IInv, TypeOK
<1>5. \A r \in Records :
       /\ r \in Elems(records) => tx.out[r] = 1 /\ tx.log[r] = 1
       /\ r \notin Elems(records) =>
            tx.out[r] = broker.out[r] /\ tx.log[r] = broker.log[r]
  <2>1. \A r \in Elems(records) : broker.out[r] = 0 /\ broker.log[r] = 0
    BY <1>4 DEF IInv, FlightInv, Pending, ExactlyOnceEffects, NothingTorn
  <2> QED
    BY <1>2, <2>1, Numbers DEF IInv
<1>6. ASSUME NEW p \in Partitions
      PROVE  \/ /\ tx.off[p] = broker.off[p]
                /\ \A r \in Elems(records) : r.part # p
             \/ \E a \in Elems(records) :
                  /\ a.part = p /\ tx.off[p] = a.off + 1
                  /\ \A r \in Elems(records) : r.part = p => r.off < tx.off[p]
  <2>1. CASE offsetMap[p] = 0
    BY <1>2, <1>4, <2>1, Numbers DEF IInv, OffsetInv
  <2>2. CASE offsetMap[p] # 0
    BY <1>2, <2>2 DEF IInv, OffsetInv
  <2> QED
    BY <2>1, <2>2
<1>7. ASSUME NEW p \in Partitions
      PROVE  broker.off[p] <= tx.off[p] /\ tx.off[p] <= fetch[p] /\ tx.off[p] <= NumRecords
  <2>1. CASE tx.off[p] = broker.off[p]
    BY <2>1, Numbers DEF IInv, PositionInv
  <2>2. ASSUME NEW a \in Elems(records), a.part = p, tx.off[p] = a.off + 1
        PROVE  broker.off[p] <= tx.off[p] /\ tx.off[p] <= fetch[p] /\ tx.off[p] <= NumRecords
    <3>1. broker.off[p] <= a.off /\ a.off < fetch[p] /\ fetch[p] <= NumRecords
      BY <2>2 DEF IInv, FlightInv, Pending, Delivered, PositionInv
    <3> QED
      BY <1>4, <2>2, <3>1, Numbers DEF IInv
  <2> QED
    BY <1>6, <2>1, <2>2
<1>8. \A r \in Elems(records) : r.off < tx.off[r.part]
  BY <1>4, <1>6, Numbers DEF IInv
<1>9. ASSUME NEW r \in Records, broker.off[r.part] <= r.off, r.off < tx.off[r.part]
      PROVE  r \in Elems(records) \cup ignored
  <2>1. r \in Elems(dataChan) \cup Elems(records) \cup ignored
    BY <1>3, <1>7, <1>9, Numbers DEF IInv
  <2>2. PICK a \in Elems(records) : a.part = r.part /\ tx.off[r.part] = a.off + 1
    BY <1>6, <1>9, Numbers DEF IInv
  <2>3. r \notin Elems(dataChan)
    BY <1>4, <1>9, <2>2, Numbers DEF IInv, OrderInv, Precede
  <2> QED
    BY <2>1, <2>3
<1>10. ASSUME NEW r \in Elems(dataChan)
       PROVE  tx.off[r.part] <= r.off
  <2>1. CASE tx.off[r.part] = broker.off[r.part]
    BY <2>1 DEF IInv, FlightInv, Pending
  <2>2. ASSUME NEW a \in Elems(records), a.part = r.part, tx.off[r.part] = a.off + 1
        PROVE  tx.off[r.part] <= r.off
    BY <1>4, <2>2, Numbers DEF IInv, OrderInv, Precede
  <2> QED
    BY <1>4, <1>6, <2>1, <2>2, Numbers DEF IInv
<1> QED
  BY <1>2, <1>4, <1>5, <1>7, <1>8, <1>9, <1>10 DEF CommitFacts

\* CommitTransaction, successful or not, keeps the invariant.
LEMMA CommitTransactionStep ==
  ASSUME Safe, CommitTransaction
  PROVE  IInv'
<1>1. TypeOK /\ TypeOK' /\ PipeInv /\ CoreInv
  BY DEF Safe, IInv, PipeInv, CoreInv
<1>2. /\ pc = "commitTx" /\ txBegin' = FALSE
      /\ UNCHANGED <<tx, storeVars, bufVars, inVars, errVars, stop>>
  BY DEF CommitTransaction
<1>3. CommitFacts /\ ~Doomed /\ txBegin
  BY <1>1, <1>2, CommitReady DEF Safe, CoreInv, TxInv, Doomed, BeginPanics
<1>4. CASE prod = "open" /\ broker' = tx /\ pc' = "flushStore" /\ prod' = "ready"
  <2> USE <1>1, <1>2, <1>4 DEF storeVars, bufVars, inVars, errVars
  <2>1. PositionInv'
    BY <1>3 DEF CommitFacts, PositionInv, PipeInv
  <2>2. SortedInv' /\ OffsetInv'
    BY DEF PipeInv, SortedInv, OffsetInv
  <2>3. batch = <<>> /\ idx = 1 /\ Elems(batch) = {} /\ ret # "init"
    BY EmptySeq DEF CoreInv, ControlInv
  <2>4. FlightInv'
    BY <1>3, <2>3 DEF CommitFacts, PipeInv, FlightInv, Delivered, Pending
  <2>5. OrderInv'
    BY DEF PipeInv, OrderInv
  <2>6. IgnoredInv'
    BY <1>3 DEF PipeInv, IgnoredInv, CommitFacts, TypeOK
  <2>7. NothingLost'
    <3> SUFFICES ASSUME NEW r \in Records, r.off < tx.off[r.part], r \notin dlq
                 PROVE  tx.out[r] > 0 /\ tx.log[r] > 0
      BY DEF NothingLost
    <3>1. CASE r.off < broker.off[r.part]
      BY <1>3, <3>1 DEF CommitFacts, PipeInv, ExactlyOnceEffects, NothingLost
    <3>2. CASE broker.off[r.part] <= r.off
      BY <1>3, <3>2 DEF CommitFacts, PipeInv, IgnoredInv
    <3> QED
      BY <3>1, <3>2, Numbers
  <2>8. NothingTwice'
    BY <1>3 DEF CommitFacts, PipeInv, ExactlyOnceEffects, NothingTwice
  <2>9. NothingTorn'
    <3> SUFFICES ASSUME NEW r \in Records
                 PROVE  tx.out[r] = tx.log[r] /\ (tx.off[r.part] <= r.off => tx.out[r] = 0)
      BY DEF NothingTorn
    <3>1. CASE r \in Elems(records)
      BY <1>3, <3>1, Numbers DEF CommitFacts
    <3>2. CASE r \notin Elems(records)
      BY <1>3, <3>2, Numbers DEF CommitFacts, PipeInv, ExactlyOnceEffects, NothingTorn
    <3> QED
      BY <3>1, <3>2
  <2>10. ControlInv' /\ TxInv'
    BY <2>3 DEF CoreInv, ControlInv, TxInv, BeginPanics
  <2>11. StoreInv'
    <3>1. view = tx.log
      BY <1>3 DEF CoreInv, SyncInv, LoopPc
    <3>2. ASSUME tx.log = NoCounts PROVE store = NoCounts
      <4>1. \A r \in Records : broker.log[r] = 0
        BY <1>3, <3>2 DEF CommitFacts, NoCounts
      <4>2. broker.log = NoCounts
        BY <4>1, LedgerFields DEF TypeOK, Counts, NoCounts
      <4> QED
        BY <4>2 DEF CoreInv, StoreInv
    <3> QED
      BY <3>1, <3>2 DEF StoreInv
  <2>12. CoverInv'
    <3> SUFFICES ASSUME NEW r \in Records, tx.off[r.part] <= r.off, r.off < fetch[r.part]
                 PROVE  r \in Elems(dataChan) \cup ignored
      BY DEF CoverInv
    <3>1. broker.off[r.part] <= r.off
      BY <1>3, Numbers DEF CommitFacts
    <3>2. r \in Elems(dataChan) \cup Elems(records) \cup ignored
      BY <1>3, <3>1 DEF CoreInv, CoverInv, Taken
    <3>3. r \notin Elems(records)
      BY <1>3, Numbers DEF CommitFacts
    <3> QED
      BY <3>2, <3>3
  <2>13. SyncInv'
    BY DEF SyncInv, LoopPc
  <2> QED
    BY <2>1, <2>2, <2>4, <2>5, <2>6, <2>7, <2>8, <2>9, <2>10, <2>11, <2>12, <2>13
       DEF IInv, ExactlyOnceEffects
<1>5. CASE prod # "open" /\ FlushReturnsErr /\ UNCHANGED <<prod, broker>>
  <2>1. prod' \in {"abortable", "fatal"}
    BY <1>1, <1>3, <1>5 DEF CoreInv, TxInv, TypeOK
  <2>2. BeginPanics'
    BY <1>2, <2>1 DEF BeginPanics
  <2> QED
    BY <1>2, <1>3, <1>5, <2>1, <2>2, FlushErrStep
<1> QED
  BY <1>4, <1>5 DEF CommitTransaction

\* Flushing the cache to the store after a commit keeps the invariant.
LEMMA FlushStoreStep ==
  ASSUME Safe, FlushStore
  PROVE  IInv'
<1> USE DEF FlushStore, kafkaVars, storeVars, inVars, errVars
<1>1. TypeOK /\ TypeOK' /\ PipeInv /\ CoreInv
  BY DEF Safe, IInv, PipeInv, CoreInv
<1>2. Elems(records') = {} /\ Sorted(records')
  BY EmptySeq
<1>3. pc' = (IF stop = "closing" THEN "flushed" ELSE "select") /\ pc = "flushStore"
  OBVIOUS
<1>4. /\ tx = broker /\ view = broker.log /\ store' = view /\ txBegin = FALSE
      /\ batch = <<>> /\ idx = 1 /\ ret # "init"
  BY <1>1 DEF CoreInv, ControlInv, TxInv, StoreInv, TypeOK
<1>5. PositionInv' /\ SortedInv' /\ IgnoredInv'
  BY <1>1, <1>2, <1>3 DEF PipeInv, PositionInv, SortedInv, IgnoredInv
<1>6. FlightInv' /\ OrderInv'
  BY <1>1, <1>2, <1>3 DEF PipeInv, FlightInv, OrderInv, Delivered, Pending, Precede
<1>7. OffsetInv'
  BY <1>2 DEF OffsetInv, NoOffsets
<1>8. ExactlyOnceEffects'
  BY <1>1, EffectsFrame DEF PipeInv
<1>9. ControlInv' /\ TxInv' /\ StoreInv'
  BY <1>1, <1>3, <1>4 DEF CoreInv, ControlInv, TxInv, StoreInv
<1>10. CoverInv'
  BY <1>1, <1>2, <1>3 DEF CoreInv, CoverInv, Taken, LoopPc
<1>11. SyncInv'
  BY <1>1, <1>2, <1>3, <1>4, Numbers DEF SyncInv, LoopPc
<1> QED
  BY <1>1, <1>5, <1>6, <1>7, <1>8, <1>9, <1>10, <1>11 DEF IInv

-----------------------------------------------------------------------------
(* The theorems.                                                           *)

LEMMA InitInv == Init => IInv
<1> SUFFICES ASSUME Init PROVE IInv
  OBVIOUS
<1> USE DEF Init
<1>1. TypeOK
  BY EmptyTypes DEF TypeOK
<1>2. PositionInv /\ IgnoredInv
  BY DEF PositionInv, IgnoredInv, EmptyLedger, NoOffsets
<1>3. SortedInv /\ FlightInv /\ OrderInv /\ OffsetInv
  BY EmptySeq DEF SortedInv, FlightInv, OrderInv, OffsetInv, Delivered, Pending, Precede, NoOffsets
<1>4. ControlInv /\ TxInv /\ StoreInv
  BY DEF ControlInv, TxInv, StoreInv, Fresh
<1>5. CoverInv /\ SyncInv
  BY DEF CoverInv, SyncInv, LoopPc
<1>6. ExactlyOnceEffects
  BY DEF ExactlyOnceEffects, NothingLost, NothingTwice, NothingTorn, EmptyLedger, NoCounts, NoOffsets, Records
<1> QED
  BY <1>1, <1>2, <1>3, <1>4, <1>5, <1>6 DEF IInv

\* Every step of the task keeps the invariant, one case per action.
LEMMA InvStep == SafeFaults /\ IInv /\ [Next]_vars => IInv'
<1> SUFFICES ASSUME SafeFaults, IInv, [Next]_vars PROVE IInv'
  OBVIOUS
<1>1. Safe
  BY TypeStep DEF Safe, IInv
<1>2. CASE UNCHANGED vars
  BY <1>1, <1>2, FrameStep DEF vars, inVars
<1>3. CASE StartTask
  BY <1>1, <1>3, StartStep
<1>4. CASE Crash \/ ProcessPanics \/ Stopped
  BY <1>1, <1>4, DiesStep DEF Crash, ProcessPanics, Stopped
<1>5. CASE MarkAsCosing \/ SignalStop \/ ConsumersStopped
  BY <1>1, <1>5, StopStep
<1>6. CASE ProducerFault
  BY <1>1, <1>6, ProducerFaultStep
<1>7. CASE LoopStops
  BY <1>1, <1>7, SelectStep
<1>8. ASSUME NEW r \in Records, Process(r) PROVE IInv'
  BY <1>1, <1>8, ProcessOkStep, ProcessErrStep DEF Process
<1>9. CASE Recover
  BY <1>1, <1>9, ReprocessStep, ResetStep, HandleTxStep, InitTransactionsStep, RedoStep
     DEF Recover
<1>10. CASE Commit
  <2>1. CASE Tick
    BY <1>1, <2>1, SelectStep
  <2>2. CASE SendOffsetsPanics
    BY <1>1, <2>2, DiesStep DEF SendOffsetsPanics
  <2>3. CASE FlushStoreErr
    BY <2>3 DEF FlushStoreErr, Inject, SafeFaults
  <2> QED
    BY <1>1, <1>10, <2>1, <2>2, <2>3, GroupMetaStep, SendOffsetsStep,
       CommitTransactionStep, FlushStoreStep DEF Commit
<1>11. ASSUME NEW p \in Partitions, Consume(p) PROVE IInv'
  <2>1. CASE ClaimStart(p) \/ ClaimReceive(p) \/ ClaimStop(p)
    BY <1>1, <2>1, FrameStep DEF ClaimStart, ClaimReceive, ClaimStop
  <2>2. CASE ClaimSend(p)
    BY <1>1, <2>2, ClaimSendStep
  <2>3. CASE ClaimSendsOnClosed(p)
    BY <1>1, <2>3, DiesStep DEF ClaimSendsOnClosed
  <2> QED
    BY <1>11, <2>1, <2>2, <2>3 DEF Consume
<1> QED
  BY <1>2, <1>3, <1>4, <1>5, <1>6, <1>7, <1>8, <1>9, <1>10, <1>11, NextCases

\* The invariant of StreamTaskInv holds in every reachable state of a task that
\* meets only failures it can survive (SafeFaults).
THEOREM InvariantHolds == SafeFaults /\ Spec => []IInv
<1> SUFFICES ASSUME SafeFaults PROVE Spec => []IInv
  OBVIOUS
<1>1. IInv /\ [Next]_vars => IInv'
  BY InvStep
<1> QED
  BY <1>1, InitInv, PTL DEF Spec

\* Committed topics and offsets show exactly-once processing, whatever producer
\* failures, crashes and stops reProcessCommitBuffer, commit and shutdown meet.
THEOREM ExactlyOnceHolds == SafeFaults /\ Spec => []ExactlyOnceEffects
<1>1. IInv => ExactlyOnceEffects
  BY DEF IInv
<1> QED
  BY <1>1, InvariantHolds, PTL

\* A record that process marked as ignored never reaches the committed topics.
THEOREM IgnoredExcludedHolds == SafeFaults /\ Spec => []IgnoredExcluded
<1>1. IInv => IgnoredExcluded
  BY DEF IInv, IgnoredInv, IgnoredExcluded, ExactlyOnceEffects, NothingTorn, TypeOK
<1> QED
  BY <1>1, InvariantHolds, PTL

\* A task that processes records has the committed changelog on its disk.
THEOREM StoreIsCommittedHolds == SafeFaults /\ Spec => []StoreIsCommitted
<1>1. IInv => StoreIsCommitted
  BY DEF IInv, StoreInv, StoreIsCommitted
<1> QED
  BY <1>1, InvariantHolds, PTL

\* Between two events of the loop the cache is the committed aggregate plus the
\* commit buffer, each record once.
THEOREM ViewMatchesBufferHolds == SafeFaults /\ Spec => []ViewMatchesBuffer
<1>1. ASSUME IInv PROVE ViewMatchesBuffer
  <2> SUFFICES ASSUME pc = "select", ~BeginPanics, NEW r \in Records
               PROVE  view[r] = broker.log[r] + (IF r \in Buffered THEN 1 ELSE 0)
    BY DEF ViewMatchesBuffer
  <2>1. /\ Elems(records) \cap ignored = {}
        /\ view[r] = broker.log[r] + (IF r \in Elems(records) THEN 1 ELSE 0)
    BY <1>1 DEF IInv, SyncInv, LoopPc, Doomed
  <2>2. Buffered = Elems(records) \ ignored
    BY <1>1 DEF IInv, TypeOK, Buffered, Elems
  <2> QED
    BY <2>1, <2>2
<1> QED
  BY <1>1, InvariantHolds, PTL

-----------------------------------------------------------------------------
(* The refinement: a commit of the transaction is one atomic batch, a      *)
(* failed record one rejection, and every other step is invisible to       *)
(* readers of the committed topics.                                        *)

\* The abstract inputs are the records of the input partitions.
LEMMA InputsAreRecords == Atomic!Inputs = Records
  BY DEF Atomic!Inputs, Records

\* An initial state of the task maps to an initial abstract state.
LEMMA InitRefines == Init => Atomic!Start
  BY InputsAreRecords DEF Init, Atomic!Start, EmptyLedger, NoCounts, NoOffsets

\* Rejections: the DLQ handler only ever gets records that are not committed.
LEMMA RejectRefines ==
  ASSUME Safe, NEW r \in Records, Failed(r), broker' = broker,
         dlq' = dlq \/ dlq' = dlq \cup {r}
  PROVE  [Atomic!Step]_Atomic!absVars
<1>1. Pending({r})
  BY TakeFacts DEF Failed
<1>2. CASE dlq' = dlq
  BY <1>2 DEF Atomic!absVars
<1>3. CASE dlq' = dlq \cup {r}
  <2>1. Atomic!Reject
    BY <1>1, <1>3, InputsAreRecords DEF Atomic!Reject, Pending
  <2> QED
    BY <2>1 DEF Atomic!Step
<1> QED
  BY <1>2, <1>3

\* The commit of the transaction is one atomic batch: the commit buffer.
LEMMA CommitRefines ==
  ASSUME Safe, CommitTransaction
  PROVE  [Atomic!Step]_Atomic!absVars
<1>1. pc = "commitTx" /\ dlq' = dlq
  BY DEF CommitTransaction, bufVars
<1>2. TypeOK /\ CommitFacts /\ IInv
  BY <1>1, CommitReady DEF Safe, IInv
<1>3. CASE broker' = tx
  <2> DEFINE S == Elems(records)
  <2>1. \A r \in S : broker.off[r.part] <= r.off /\ broker.out[r] = 0 /\ broker.log[r] = 0
    BY <1>1, <1>2 DEF IInv, FlightInv, Pending, ExactlyOnceEffects, NothingTorn, CommitFacts
  <2>2. tx.off \in [Partitions -> 0 .. NumRecords]
    <3>1. tx.off \in [Partitions -> Nat]
      BY <1>2, LedgerFields DEF TypeOK, Offsets
    <3>2. ASSUME NEW p \in Partitions PROVE tx.off[p] \in 0 .. NumRecords
      <4>1. tx.off[p] \in Nat /\ tx.off[p] <= NumRecords
        BY <1>2, Numbers DEF CommitFacts
      <4> QED
        BY <4>1
    <3> QED
      BY <3>1, <3>2
  <2>3. \A p \in Partitions : broker.off[p] <= tx.off[p]
    BY <1>2 DEF CommitFacts
  <2>4. S \in SUBSET Atomic!Between(tx.off)
    BY <1>2, <2>1, InputsAreRecords DEF CommitFacts, Atomic!Between
  <2>5. Atomic!Between(tx.off) \ S \subseteq dlq
    BY <1>2, InputsAreRecords DEF CommitFacts, Atomic!Between, IInv, IgnoredInv
  <2>6. tx.out = Atomic!CountOnce(broker.out, S)
    <3>1. \A r \in Records : tx.out[r] = IF r \in S THEN broker.out[r] + 1 ELSE broker.out[r]
      BY <1>2, <2>1 DEF CommitFacts
    <3> QED
      BY <1>2, <3>1, LedgerFields, InputsAreRecords DEF TypeOK, Counts, Atomic!CountOnce
  <2>7. tx.log = Atomic!CountOnce(broker.log, S)
    <3>1. \A r \in Records : tx.log[r] = IF r \in S THEN broker.log[r] + 1 ELSE broker.log[r]
      BY <1>2, <2>1 DEF CommitFacts
    <3> QED
      BY <1>2, <3>1, LedgerFields, InputsAreRecords DEF TypeOK, Counts, Atomic!CountOnce
  <2>8. Atomic!CommitBatch
    <3> HIDE DEF S
    <3> QED
      BY <1>1, <1>3, <2>2, <2>3, <2>4, <2>5, <2>6, <2>7 DEF Atomic!CommitBatch
  <2> QED
    BY <2>8 DEF Atomic!Step
<1>4. CASE broker' = broker
  BY <1>1, <1>4 DEF Atomic!absVars
<1> QED
  BY <1>3, <1>4 DEF CommitTransaction

\* Every step of the task maps to an abstract step or leaves the abstract
\* state alone.
LEMMA StepRefines ==
  ASSUME SafeFaults, IInv, IInv', [Next]_vars
  PROVE  [Atomic!Step]_Atomic!absVars
<1>1. Safe
  BY DEF Safe, IInv
<1>2. ASSUME UNCHANGED <<broker, dlq>> PROVE [Atomic!Step]_Atomic!absVars
  BY <1>2 DEF Atomic!absVars
<1>3. ASSUME NEW r \in Records, Process(r) PROVE [Atomic!Step]_Atomic!absVars
  <2>1. CASE ProcessOk(r)
    BY <1>2, <2>1 DEF ProcessOk
  <2>2. CASE ProcessUserErr(r) \/ ProcessProducerErr(r) \/ ProcessRawErr(r)
    <3>1. Failed(r) /\ (dlq' = dlq \/ dlq' = dlq \cup {r})
      BY <2>2 DEF ProcessUserErr, ProcessProducerErr, ProcessRawErr
    <3>2. broker' = broker
      BY <3>1 DEF Failed
    <3> QED
      BY <1>1, <3>1, <3>2, RejectRefines
  <2> QED
    BY <1>3, <2>1, <2>2 DEF Process
<1>4. CASE Commit
  <2>1. CASE CommitTransaction
    BY <1>1, <2>1, CommitRefines
  <2>2. CASE ~CommitTransaction
    BY <1>2, <1>4, <2>2 DEF Commit, Tick, CommitGroupMetaErr, SendOffsetsToTransaction,
       SendOffsetsPanics, FlushStore, FlushStoreErr, Dies, kafkaVars, bufVars
  <2> QED
    BY <2>1, <2>2
<1>5. CASE Recover
  BY <1>2, <1>5 DEF Recover, ReprocessSkipped, Reprocess, Reset, AbortOk, AbortErr, ClearBuffer,
     HandleTxSkipped, HandleTxAbort, HandleTxRestart, InitTransactions, TxReturn, RedoSkip,
     RedoEnd, kafkaVars, bufVars
<1>6. ASSUME NEW p \in Partitions, Consume(p) PROVE [Atomic!Step]_Atomic!absVars
  BY <1>2, <1>6 DEF Consume, ClaimStart, ClaimReceive, ClaimSend, ClaimSendsOnClosed, ClaimStop, Dies,
     kafkaVars, bufVars
<1>7. CASE UNCHANGED vars \/ StartTask \/ MarkAsCosing \/ SignalStop \/ ConsumersStopped
           \/ ProducerFault \/ LoopStops
  BY <1>2, <1>7 DEF vars, StartTask, MarkAsCosing, SignalStop, ConsumersStopped,
     ProducerFault, LoopStops, kafkaVars, bufVars
<1>8. CASE Crash \/ ProcessPanics \/ Stopped
  BY <1>2, <1>8 DEF Crash, ProcessPanics, Stopped, Dies
<1> QED
  BY <1>3, <1>4, <1>5, <1>6, <1>7, <1>8, NextCases

\* Under the failures of SafeFaults the task, with its retries, aborts, producer
\* restarts, crashes and stops, implements atomic exactly-once processing.
THEOREM TaskRefinesExactlyOnce == SafeFaults /\ Spec => ImplementsExactlyOnce
<1> SUFFICES ASSUME SafeFaults PROVE Spec => ImplementsExactlyOnce
  OBVIOUS
<1>1. IInv /\ IInv' /\ [Next]_vars => [Atomic!Step]_Atomic!absVars
  BY StepRefines
<1>2. Spec => []IInv
  BY InvariantHolds
<1> QED
  BY <1>1, <1>2, InitRefines, PTL DEF Spec, ImplementsExactlyOnce, Atomic!AtomicSpec
=============================================================================
