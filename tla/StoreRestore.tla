---------------------------- MODULE StoreRestore ----------------------------
(***************************************************************************)
(* How state stores are filled from their changelogs: the librdkafka       *)
(* partition consumer that all restores of a task manager share            *)
(* (kafka/adaptors/librd/partition_consumer.go) and one changelog syncer   *)
(* per store (streams/state_stores/changelog_syncer.go).                   *)
(*                                                                         *)
(* The manager is that of the stream tasks ("local": a restore ends with   *)
(* its first partition end, tasks come and go) or that of the global       *)
(* tables ("global": the syncers go on, and the runner rebuilds the        *)
(* indexes when all are synced).  There is one store per partition.        *)
(***************************************************************************)
EXTENDS IndexedStore, Functions

CONSTANTS
  NumPartitions,
  ChanSize,     \* ConsumerMessageChanSize
  InitialEnds,  \* per partition: how many records the changelogs may hold at first
  MaxRestores,  \* bound: restores of all partitions
  MaxProduced,  \* bound: records written to the changelogs while they are read
  MaxFailures   \* bound: updates of a store that fail

Partitions == 1 .. NumPartitions

ASSUME StoreRestoreAssumption ==
  /\ {NumPartitions, ChanSize, MaxRestores} \subseteq Nat \ {0}
  /\ {MaxProduced, MaxFailures} \subseteq Nat
  /\ InitialEnds \subseteq [Partitions -> 0 .. Len(Changelog)]

VARIABLES
  kind,      \* "local" or "global"
  end,       \* per partition: the records written so far
  assigned, pos, eof,  \* the client: assigned partitions, fetch positions,
                       \* and whether the partition end at pos was reported
  channel,   \* the events channel of the partition's last restore
  polled,    \* the event the poll loop has in hand
  restores,  \* per partition: the ConsumePartition calls
  sync,      \* the syncer's loop
  signal,    \* what was signalled: "no", "synced", "ended"
  updating,  \* the record whose indexes are written and whose value is not
  store, index,
  task,      \* local tasks: "none", "up", "closed" (still in the manager)
  stopping,  \* global: the run group stops
  rebuild, snapshot, todo,  \* RebuildIndexes and its iterator
  first,     \* history: the end of the partition when its restore began
  failed,    \* history: stores that miss an update
  early,     \* history: an end of an earlier assignment came to this restore
  raced,     \* history: a rebuild and an update overlapped
  produced, failures  \* history: how often

clientVars == <<assigned, pos, eof>>
rebuildVars == <<rebuild, snapshot, todo>>
history == <<first, failed, early, raced, produced, failures>>
restoreVars == <<kind, end, clientVars, channel, polled, restores, sync, signal,
                 updating, store, index, task, stopping, rebuildVars, history>>

PartitionEnd == 0
NoEvent == [p |-> 0, ev |-> 0, of |-> 0, to |-> 0]
Each(v) == [p \in Partitions |-> v]
Restored == FoldFunction(LAMBDA a, b : a + b, 0, restores)
Running(p) == sync[p] \in {"syncing", "live"}

RestoreInit ==
  /\ kind \in {"local", "global"}
  /\ end \in InitialEnds
  /\ assigned = Each(FALSE) /\ pos = Each(0) /\ eof = Each(FALSE)
  /\ channel = Each(<<>>) /\ polled = NoEvent
  /\ restores = Each(0) /\ sync = Each("none") /\ signal = Each("no")
  /\ updating = Each(0)
  /\ store = Each(EmptyStore) /\ index = Each({})
  /\ task = Each("none") /\ stopping = FALSE
  /\ rebuild = "no" /\ snapshot = Each(EmptyStore) /\ todo = {}
  /\ first = Each(0) /\ failed = {} /\ early = {} /\ raced = FALSE /\ produced = 0 /\ failures = 0

\* other producers of the changelog
Produce(p) ==
  /\ end[p] < Len(Changelog) /\ produced < MaxProduced /\ task[p] = "none"
  /\ end' = [end EXCEPT ![p] = @ + 1] /\ produced' = produced + 1
  /\ UNCHANGED <<kind, clientVars, channel, polled, restores, sync, signal, updating,
                 store, index, task, stopping, rebuildVars, first, failed, early, raced,
                 failures>>

-----------------------------------------------------------------------------
\* The partition consumer.

\* offsetStore.Committed: the earliest offset, since no backend calls itself
\* persistent
Committed == 0

\* Mutant: the replay begins at the end the consumer has looked up.
RestoreLatest(p) ==
  /\ sync[p] = "none" /\ Restored < MaxRestores /\ ~stopping
  /\ kind = "global" => restores[p] = 0
  /\ restores' = [restores EXCEPT ![p] = @ + 1]
  /\ channel' = [channel EXCEPT ![p] = <<>>]
  /\ assigned' = [assigned EXCEPT ![p] = TRUE]
  /\ pos' = [pos EXCEPT ![p] = end[p]] /\ eof' = [eof EXCEPT ![p] = FALSE]
  /\ sync' = [sync EXCEPT ![p] = "syncing"] /\ signal' = [signal EXCEPT ![p] = "no"]
  /\ first' = [first EXCEPT ![p] = end[p]]
  /\ failed' = failed \ {p} /\ early' = early \ {p}
  /\ UNCHANGED <<kind, end, polled, updating, store, index, task, stopping, rebuildVars,
                 raced, produced, failures>>
\* partitionConsumer.ConsumePartition for a new syncer: a new channel replaces
\* the old one, and the client reads from the committed offset.  A backend that keeps its files keeps what they held.
Restore(p) ==
  /\ sync[p] = "none" /\ Restored < MaxRestores /\ ~stopping
  /\ kind = "global" => restores[p] = 0
  /\ restores' = [restores EXCEPT ![p] = @ + 1]
  /\ channel' = [channel EXCEPT ![p] = <<>>]
  /\ assigned' = [assigned EXCEPT ![p] = TRUE]
  /\ pos' = [pos EXCEPT ![p] = Committed] /\ eof' = [eof EXCEPT ![p] = FALSE]
  /\ sync' = [sync EXCEPT ![p] = "syncing"] /\ signal' = [signal EXCEPT ![p] = "no"]
  /\ store' \in {store, [store EXCEPT ![p] = EmptyStore]}
  /\ first' = [first EXCEPT ![p] = end[p]]
  /\ failed' = failed \ {p} /\ early' = early \ {p}
  /\ UNCHANGED <<kind, end, polled, updating, index, task, stopping, rebuildVars,
                 raced, produced, failures>>

\* Mutant: partition ends are not reported, as by the franz adaptor.
PollWithoutEnd(p) ==
  /\ polled = NoEvent /\ assigned[p] /\ pos[p] < end[p]
  /\ pos' = [pos EXCEPT ![p] = @ + 1] /\ eof' = [eof EXCEPT ![p] = FALSE]
  /\ polled' = [p |-> p, ev |-> pos[p] + 1, of |-> restores[p], to |-> 0]
  /\ UNCHANGED <<kind, end, assigned, channel, restores, sync, signal, updating, store,
                 index, task, stopping, rebuildVars, history>>
\* consumeMessages: the next record, or the end that was reached
Poll(p) ==
  /\ polled = NoEvent /\ assigned[p]
  /\ \/ /\ pos[p] < end[p]
        /\ pos' = [pos EXCEPT ![p] = @ + 1] /\ eof' = [eof EXCEPT ![p] = FALSE]
        /\ polled' = [p |-> p, ev |-> pos[p] + 1, of |-> restores[p], to |-> 0]
     \/ /\ pos[p] = end[p] /\ ~eof[p]
        /\ eof' = [eof EXCEPT ![p] = TRUE]
        /\ polled' = [p |-> p, ev |-> PartitionEnd, of |-> restores[p], to |-> 0]
        /\ UNCHANGED pos
  /\ UNCHANGED <<kind, end, assigned, channel, restores, sync, signal, updating, store,
                 index, task, stopping, rebuildVars, history>>

\* the event goes to the channel that the map names by now
Deliver ==
  LET p == polled.p IN
  /\ polled # NoEvent /\ polled.to \in {0, restores[p]}
  /\ Len(channel[p]) < ChanSize
  /\ channel' = [channel EXCEPT ![p] = Append(@, polled.ev)]
  /\ polled' = NoEvent
  /\ early' = IF polled.ev = PartitionEnd /\ polled.of # restores[p]
              THEN early \cup {p} ELSE early
  /\ UNCHANGED <<kind, end, clientVars, restores, sync, signal, updating, store, index,
                 task, stopping, rebuildVars, first, failed, raced, produced, failures>>

\* the loop waits in the send to this channel, and serves no other partition
Wait ==
  LET p == polled.p IN
  /\ polled # NoEvent /\ polled.to = 0 /\ Len(channel[p]) = ChanSize
  /\ polled' = [polled EXCEPT !.to = restores[p]]
  /\ UNCHANGED <<kind, end, clientVars, channel, restores, sync, signal, updating, store,
                 index, task, stopping, rebuildVars, history>>

-----------------------------------------------------------------------------
\* The changelog syncer.

\* the loop takes the next event of its channel
Take(p) ==
  /\ Running(p) /\ updating[p] = 0 /\ channel[p] # <<>>
  /\ channel' = [channel EXCEPT ![p] = Tail(@)]
  /\ UNCHANGED <<kind, end, clientVars, polled, restores, task, stopping, rebuildVars,
                 first, early>>
Next1(p) == Head(channel[p])

\* the first partition end is signalled, later ones are ignored
Synced(p) ==
  /\ Take(p) /\ Next1(p) = PartitionEnd
  /\ sync' = [sync EXCEPT ![p] = "live"]
  /\ signal' = [signal EXCEPT ![p] = "synced"]
  /\ UNCHANGED <<updating, store, index, failed, raced, produced, failures>>

\* updateStore; indexes are left to the rebuild
Update(p) ==
  /\ Take(p) /\ Next1(p) # PartitionEnd
  /\ kind = "local" \/ sync[p] = "syncing"
  /\ store' = [store EXCEPT ![p] = Write(@, Changelog[Next1(p)])]
  /\ raced' = (raced \/ rebuild # "no")
  /\ UNCHANGED <<sync, signal, updating, index, failed, produced, failures>>

\* updateStoreWithIndex: first the indexes, then the backend
UpdateIndexes(p) ==
  /\ Take(p) /\ Next1(p) # PartitionEnd
  /\ kind = "global" /\ sync[p] = "live"
  /\ index' = [index EXCEPT ![p] = Indexed(@, store[p], Changelog[Next1(p)])]
  /\ updating' = [updating EXCEPT ![p] = Next1(p)]
  /\ raced' = (raced \/ rebuild = "run")
  /\ UNCHANGED <<sync, signal, store, failed, produced, failures>>
SetIndexed(p) ==
  /\ updating[p] # 0
  /\ store' = [store EXCEPT ![p] = Write(@, Changelog[updating[p]])]
  /\ updating' = [updating EXCEPT ![p] = 0]
  /\ UNCHANGED <<kind, end, clientVars, channel, polled, restores, sync, signal, index,
                 task, stopping, rebuildVars, history>>

\* an error is logged and the replay goes on
UpdateFails(p) ==
  /\ failures < MaxFailures
  /\ Take(p) /\ Next1(p) # PartitionEnd
  /\ failed' = failed \cup {p} /\ failures' = failures + 1
  /\ UNCHANGED <<sync, signal, updating, store, index, raced, produced>>

\* ... also with the indexes already written
SetFails(p) ==
  /\ updating[p] # 0 /\ failures < MaxFailures
  /\ updating' = [updating EXCEPT ![p] = 0]
  /\ failed' = failed \cup {p} /\ failures' = failures + 1
  /\ UNCHANGED <<kind, end, clientVars, channel, polled, restores, sync, signal, store,
                 index, task, stopping, rebuildVars, first, early, raced, produced>>

\* Stop: of a local restore once it is synced, of a global one with the group
SyncerStops(p) ==
  /\ Running(p) /\ updating[p] = 0
  /\ IF kind = "local" THEN signal[p] = "synced" ELSE stopping
  /\ sync' = [sync EXCEPT ![p] = "closing"]
  /\ UNCHANGED <<kind, end, clientVars, channel, polled, restores, signal, updating,
                 store, index, task, stopping, rebuildVars, history>>

\* the partition is closed, and Ready returns at the latest now
SyncerStopped(p) ==
  /\ sync[p] = "closing"
  /\ assigned' = [assigned EXCEPT ![p] = FALSE]
  /\ sync' = [sync EXCEPT ![p] = "stopped"]
  /\ signal' = [signal EXCEPT ![p] = IF @ = "no" THEN "ended" ELSE @]
  /\ task' = [task EXCEPT ![p] = IF kind = "local" THEN "up" ELSE @]
  /\ UNCHANGED <<kind, end, pos, eof, channel, polled, restores, updating, store, index,
                 stopping, rebuildVars, history>>

Stop ==
  /\ kind = "global" /\ ~stopping
  /\ stopping' = TRUE
  /\ UNCHANGED <<kind, end, clientVars, channel, polled, restores, sync, signal, updating,
                 store, index, task, rebuildVars, history>>

-----------------------------------------------------------------------------
\* The runner: rebuildStoreIndexes when the global tables are ready, or
\* interrupted.  The rebuild holds the store's mutex, which no syncer takes.
RebuildStart ==
  /\ kind = "global" /\ rebuild = "no"
  /\ stopping \/ \A p \in Partitions : signal[p] # "no"
  /\ rebuild' = "run"
  /\ snapshot' = store
  /\ todo' = {pk \in Partitions \X Keys : pk[2] \in Held(store[pk[1]])}
  /\ raced' = (raced \/ \E p \in Partitions : updating[p] # 0)
  /\ UNCHANGED <<kind, end, clientVars, channel, polled, restores, sync, signal, updating,
                 store, index, task, stopping, first, failed, early, produced, failures>>

RebuildKey(p, k) ==
  /\ rebuild = "run" /\ <<p, k>> \in todo
  /\ index' = [index EXCEPT ![p] = IndexUpdate(@, k, store[p][k], snapshot[p][k])]
  /\ todo' = todo \ {<<p, k>>}
  /\ UNCHANGED <<kind, end, clientVars, channel, polled, restores, sync, signal, updating,
                 store, task, stopping, rebuild, snapshot, history>>

RebuildEnd ==
  /\ rebuild = "run" /\ todo = {}
  /\ rebuild' = "done" /\ snapshot' = Each(EmptyStore)
  /\ UNCHANGED <<kind, end, clientVars, channel, polled, restores, sync, signal, updating,
                 store, index, task, stopping, todo, history>>

\* RemoveTask: the store is closed, then the manager forgets the task
CloseStore(p) ==
  /\ task[p] = "up" /\ Restored < MaxRestores
  /\ task' = [task EXCEPT ![p] = "closed"]
  /\ UNCHANGED <<kind, end, clientVars, channel, polled, restores, sync, signal, updating,
                 store, index, stopping, rebuildVars, history>>
Remove(p) ==
  /\ task[p] = "closed"
  /\ task' = [task EXCEPT ![p] = "none"] /\ sync' = [sync EXCEPT ![p] = "none"]
  /\ UNCHANGED <<kind, end, clientVars, channel, polled, restores, signal, updating,
                 store, index, stopping, rebuildVars, history>>

\* the steps that are fair: whoever is scheduled makes them
PollLoop == Deliver \/ Wait \/ \E p \in Partitions : Poll(p)
Syncer(p) ==
  \/ Synced(p) \/ Update(p) \/ UpdateIndexes(p) \/ SetIndexed(p)
  \/ SyncerStops(p) \/ SyncerStopped(p)
Rebuild == RebuildStart \/ RebuildEnd \/ \E p \in Partitions, k \in Keys : RebuildKey(p, k)

RestoreStep ==
  \/ PollLoop \/ Rebuild \/ Stop
  \/ \E p \in Partitions :
       \/ Restore(p) \/ Syncer(p) \/ UpdateFails(p) \/ SetFails(p)
       \/ Produce(p) \/ CloseStore(p) \/ Remove(p)

-----------------------------------------------------------------------------
\* A store whose partition end was signalled holds what the changelog held when
\* the restore began, whatever an earlier life left in it, unless an update
\* failed (the error is only logged) or the poll loop had the end of an earlier
\* assignment in hand when the partition was assigned again.
SyncedIsComplete ==
  \A p \in Partitions :
    signal[p] = "synced" /\ sync[p] # "none" /\ updating[p] = 0 /\ p \notin failed \cup early
    => \E n \in first[p] .. end[p] : store[p] = Replayed(n)

\* After the rebuild, a read of the index finds exactly the keys whose value it
\* is about, unless a syncer updated the store while the rebuild ran (only the
\* rebuild takes the store's mutex) or an update failed halfway.
IndexAgreesWithStore ==
  \A p \in Partitions, v \in Values :
    rebuild = "done" /\ ~raced /\ updating[p] = 0 /\ p \notin failed
    => IndexRead(index[p], v) = {k \in Keys : store[p][k] = v}

\* Every restore ends, unless the poll loop waits in a send to a channel whose
\* reader has stopped: records that came after the end filled it.
StuckOn(p) == polled.p = p /\ polled.to # 0 /\ (polled.to # restores[p] \/ ~Running(p))
RestoreEnds ==
  \A p \in Partitions :
    sync[p] = "syncing" ~> sync[p] # "syncing" \/ \E q \in Partitions : StuckOn(q)
=============================================================================
