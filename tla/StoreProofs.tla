---------------------------- MODULE StoreProofs ----------------------------
(***************************************************************************)
(* Proofs about the stores for any partitions, keys, values, changelog and *)
(* bounds: an index agrees with its store, and an answer misses no row.    *)
(***************************************************************************)
EXTENDS StoreQueries, TLAPS

Positions == 0 .. Len(Changelog)
StoreType == [Keys -> Values \cup {None}]
Entries == [idx : Values, key : Keys]
Rows == [of : Partitions, key : Keys, val : Values \cup {None}]

\* Types, as far as the stores and indexes depend on them.
StoreTypes ==
  /\ kind \in {"local", "global"} /\ raced \in BOOLEAN
  /\ rebuild \in {"no", "run", "done"}
  /\ end \in [Partitions -> Positions] /\ pos \in [Partitions -> Positions]
  /\ \A p \in Partitions : pos[p] <= end[p]
  /\ polled = NoEvent \/ (polled.p \in Partitions /\ polled.ev \in Positions)
  /\ channel \in [Partitions -> Seq(Positions)]
  /\ restores \in [Partitions -> Nat]
  /\ sync \in [Partitions -> {"none", "syncing", "live", "closing", "stopped"}]
  /\ task \in [Partitions -> {"none", "up", "closed"}]
  /\ updating \in [Partitions -> Positions]
  /\ store \in [Partitions -> StoreType] /\ snapshot \in [Partitions -> StoreType]
  /\ index \in [Partitions -> SUBSET Entries]
  /\ todo \subseteq Partitions \X Keys
  /\ \A t \in todo : snapshot[t[1]][t[2]] # None
  /\ failed \subseteq Partitions

\* Who writes indexes: syncers of global tables that are live, and the rebuild.
Writers(p) ==
  /\ updating[p] # 0 => sync[p] = "live" /\ kind = "global"
  /\ rebuild = "no" /\ sync[p] \in {"none", "syncing"} => index[p] = {}
  /\ restores[p] = 0 => sync[p] = "none" /\ store[p] = EmptyStore /\ p \notin failed
  /\ task[p] # "none" => kind = "local" /\ sync[p] = "stopped"
  /\ kind = "local" => rebuild = "no" /\ index[p] = {}
  /\ raced => rebuild # "no"

\* What the store will be when the syncer has written the record at hand.
Target(p) == IF updating[p] = 0 THEN store[p] ELSE Write(store[p], Changelog[updating[p]])

\* Every entry is right; every value has its entry.
Sound(ix, s) == \A e \in ix : s[e.key] = e.idx
Full(ix, s) == \A k \in Keys : s[k] # None => Entry(k, s[k]) \in ix

Indexes(p) ==
  p \notin failed /\ ~raced =>
    /\ Sound(index[p], Target(p))
    /\ rebuild = "run" =>
         /\ snapshot[p] = store[p] /\ updating[p] = 0
         /\ \A k \in Keys : store[p][k] # None /\ <<p, k>> \notin todo
              => Entry(k, store[p][k]) \in index[p]
    /\ rebuild = "done" => Full(index[p], Target(p))

\* A sure row is as it was, and either read already or still to be read.
SureRow(r) ==
  /\ store[r.of][r.key] = r.val
  /\ req.kind \in {"get", "list"} =>
       r.val # None /\ kind = "local" /\ task[r.of] = "up"
  /\ req.kind = "get" => r.key = req.arg /\ <<r.of, restores[r.of]>> \in req.ask
  /\ req.kind = "list" => r \in req.rows \/ <<r.of, restores[r.of]>> \in req.ask
  /\ req.kind = "index" => kind = "global" /\ (r \in req.rows \/ <<r.of, r.key>> \in req.ask)

RequestInv ==
  /\ req.missed = {}
  /\ req.st \in {"idle", "reading"}
  /\ req.st = "reading" =>
       /\ req = [st |-> req.st, kind |-> req.kind, arg |-> req.arg, ask |-> req.ask,
                 rows |-> req.rows, sure |-> req.sure, missed |-> req.missed]
       /\ req.kind \in {"get", "list", "index"}
       /\ req.sure \subseteq Rows
       /\ \A r \in req.sure : SureRow(r)

IndexInv == \A p \in Partitions : Writers(p) /\ Indexes(p)
StoreInv == StoreTypes /\ IndexInv

-----------------------------------------------------------------------------
(* The operators on stores and indexes.                                    *)

\* Records of the changelog.
LEMMA ChangelogRecord ==
  ASSUME NEW n \in Positions, n # 0
  PROVE  Changelog[n] \in [key : Keys, val : Values \cup {None}]
<1> DEFINE R == [key : Keys, val : Values \cup {None}]
<1>1. Changelog \in Seq(R)
  BY IndexedStoreAssumption
<1> HIDE DEF R
<1>2. Len(Changelog) \in Nat
  BY <1>1
<1>3. n \in 1 .. Len(Changelog)
  BY <1>2 DEF Positions
<1>4. Changelog[n] \in R
  BY <1>1, <1>3
<1> QED
  BY <1>4 DEF R

\* Writes keep the type of a store.
LEMMA WriteType ==
  ASSUME NEW s \in StoreType, NEW r \in [key : Keys, val : Values \cup {None}]
  PROVE  /\ Write(s, r) \in StoreType
         /\ \A k \in Keys : Write(s, r)[k] = IF k = r.key THEN r.val ELSE s[k]
<1>1. r.key \in Keys /\ r.val \in Values \cup {None}
  OBVIOUS
<1>2. Write(s, r) = [s EXCEPT ![r.key] = r.val]
  BY DEF Write
<1> QED
  BY <1>1, <1>2 DEF StoreType

\* IndexUpdate keeps the type, replaces the right entry of the key and keeps
\* those of other keys.
LEMMA IndexUpdateLemma ==
  ASSUME NEW ix \in SUBSET Entries, NEW k \in Keys,
         NEW prv \in Values \cup {None}, NEW val \in Values
  PROVE  /\ IndexUpdate(ix, k, prv, val) \in SUBSET Entries
         /\ Entry(k, val) \in IndexUpdate(ix, k, prv, val)
         /\ \A e \in ix : e.key # k => e \in IndexUpdate(ix, k, prv, val)
         /\ \A e \in IndexUpdate(ix, k, prv, val) :
              e = Entry(k, val) \/ (e \in ix /\ (e.key = k => e.idx # prv \/ prv = None))
<1>1. Entry(k, val) \in Entries
  BY DEF Entry, Entries
<1>2. IndexDelete(ix, k, prv) \subseteq ix
  BY DEF IndexDelete
<1>3. \A e \in ix : e.key # k => e \in IndexDelete(ix, k, prv)
  BY DEF IndexDelete, Entry
<1>4. \A e \in IndexDelete(ix, k, prv) : e.key = k => e.idx # prv \/ prv = None
  BY DEF IndexDelete, Entry, Entries
<1>5. CASE prv # None /\ Unchanged(ix, k, prv, val)
  <2>1. \A e \in ix : e = Entry(k, val) \/ e.key # k \/ e.idx # prv
    BY <1>5 DEF Unchanged, Entry, Entries
  <2> QED
    BY <1>5, <2>1 DEF IndexUpdate, Unchanged
<1>6. CASE ~(prv # None /\ Unchanged(ix, k, prv, val))
  BY <1>6, <1>1, <1>2, <1>3, <1>4 DEF IndexUpdate
<1> QED
  BY <1>5, <1>6

\* A syncer's update of an index keeps it right about the store to be, and
\* keeps it complete.
LEMMA IndexedLemma ==
  ASSUME NEW ix \in SUBSET Entries, NEW s \in StoreType,
         NEW r \in [key : Keys, val : Values \cup {None}]
  PROVE  /\ Indexed(ix, s, r) \in SUBSET Entries
         /\ Sound(ix, s) => Sound(Indexed(ix, s, r), Write(s, r))
         /\ Sound(ix, s) /\ Full(ix, s) => Full(Indexed(ix, s, r), Write(s, r))
<1> DEFINE k == r.key
<1>1. k \in Keys /\ s[k] \in Values \cup {None} /\ None \notin Values
  BY IndexedStoreAssumption DEF StoreType
<1>2. \A l \in Keys : Write(s, r)[l] = IF l = k THEN r.val ELSE s[l]
  BY WriteType
<1>3. CASE r.val = None
  <2>1. Indexed(ix, s, r) = IndexDelete(ix, k, s[k])
    BY <1>3 DEF Indexed
  <2>2. /\ IndexDelete(ix, k, s[k]) \subseteq ix
        /\ \A e \in ix : e.key # k => e \in IndexDelete(ix, k, s[k])
        /\ \A e \in IndexDelete(ix, k, s[k]) : e.key = k => e.idx # s[k] \/ s[k] = None
    BY DEF IndexDelete, Entry, Entries
  <2>3. ASSUME Sound(ix, s) PROVE Sound(Indexed(ix, s, r), Write(s, r))
    <3>1. \A e \in Indexed(ix, s, r) : e \in ix /\ e.key \in Keys /\ e.idx # None /\ e.key # k
      BY <2>1, <2>2, <2>3, <1>1 DEF Sound, Entries
    <3> QED
      BY <3>1, <2>3, <1>2 DEF Sound
  <2>4. ASSUME Full(ix, s) PROVE Full(Indexed(ix, s, r), Write(s, r))
    <3>1. \A l \in Keys : Entry(l, s[l]).key = l
      BY DEF Entry
    <3> QED
      BY <3>1, <2>4, <2>1, <2>2, <1>2, <1>3 DEF Full
  <2> QED
    BY <2>1, <2>2, <2>3, <2>4
<1>4. CASE r.val # None
  <2>1. Indexed(ix, s, r) = IndexUpdate(ix, k, s[k], r.val) /\ r.val \in Values
    BY <1>4 DEF Indexed
  <2> DEFINE jx == IndexUpdate(ix, k, s[k], r.val)
  <2>2. /\ jx \in SUBSET Entries
        /\ Entry(k, r.val) \in jx
        /\ \A e \in ix : e.key # k => e \in jx
        /\ \A e \in jx : e = Entry(k, r.val) \/ (e \in ix /\ (e.key = k => e.idx # s[k] \/ s[k] = None))
    BY <2>1, <1>1, IndexUpdateLemma
  <2> HIDE DEF jx
  <2>3. ASSUME Sound(ix, s) PROVE Sound(jx, Write(s, r))
    <3>1. \A e \in ix : e.key \in Keys /\ e.idx # None
      BY <1>1 DEF Entries
    <3>2. Entry(k, r.val).key = k /\ Entry(k, r.val).idx = r.val
      BY DEF Entry
    <3>3. \A e \in jx : e # Entry(k, r.val) => e \in ix /\ e.key # k
      BY <2>2, <2>3, <3>1 DEF Sound
    <3> QED
      BY <3>1, <3>2, <3>3, <2>3, <1>1, <1>2 DEF Sound
  <2>4. ASSUME Full(ix, s) PROVE Full(jx, Write(s, r))
    <3>1. \A l \in Keys : Entry(l, s[l]).key = l
      BY DEF Entry
    <3> QED
      BY <3>1, <2>4, <2>2, <1>2 DEF Full
  <2> QED
    BY <2>1, <2>2, <2>3, <2>4 DEF jx
<1> QED
  BY <1>3, <1>4

-----------------------------------------------------------------------------
(* The stores and their indexes, action by action.                         *)

idxVars == <<kind, updating, store, index, rebuildVars, failed, raced>>

\* The invariant holds when nothing has begun.
LEMMA StoreInit == Init => StoreInv
<1> SUFFICES ASSUME Init PROVE StoreInv
  OBVIOUS
<1> USE DEF Init, RestoreInit, Each
<1>1. Len(Changelog) \in Nat \ {0}
  BY IndexedStoreAssumption
<1>2. EmptyStore \in StoreType
  BY DEF EmptyStore, StoreType
<1>3. StoreTypes
  <2>1. end \in [Partitions -> Positions] /\ pos \in [Partitions -> Positions]
    BY <1>1, StoreRestoreAssumption DEF Positions, StoreRestoreAssumption
  <2>2. \A p \in Partitions : pos[p] <= end[p]
    <3> SUFFICES ASSUME NEW p \in Partitions PROVE pos[p] <= end[p]
      OBVIOUS
    <3>1. pos[p] = 0 /\ end[p] \in Nat
      BY <1>1, <2>1 DEF Positions
    <3> QED
      BY <3>1
  <2>3. updating \in [Partitions -> Positions] /\ channel \in [Partitions -> Seq(Positions)]
    BY <1>1 DEF Positions
  <2> QED
    BY <1>2, <2>1, <2>2, <2>3 DEF StoreTypes
<1>4. IndexInv
  BY DEF IndexInv, Writers, Indexes, Target, Sound
<1> QED
  BY <1>3, <1>4 DEF StoreInv

\* What a step must show if it leaves stores and indexes alone.
LEMMA IndexFrame ==
  ASSUME IndexInv, UNCHANGED idxVars, \A p \in Partitions : Writers(p)'
  PROVE  IndexInv'
BY DEF IndexInv, Indexes, Target, idxVars, rebuildVars

\* The client, writers of the changelog and a stop of the global tables.
LEMMA PollStep ==
  ASSUME StoreInv, PollLoop \/ Stop \/ \E p \in Partitions : Produce(p)
  PROVE  StoreInv'
<1> USE DEF StoreInv
<1>1. UNCHANGED <<idxVars, restores, sync, task>>
  BY DEF PollLoop, Stop, Produce, Deliver, Wait, Poll, idxVars, rebuildVars, history
<1>2. \A p \in Partitions : Writers(p)'
  BY <1>1 DEF IndexInv, Writers, idxVars, rebuildVars
<1>3. IndexInv'
  BY <1>1, <1>2, IndexFrame
<1>4. Len(Changelog) \in Nat
  BY IndexedStoreAssumption
<1>5. StoreTypes'
  <2> USE <1>1, <1>4 DEF idxVars, rebuildVars
  <2>1. CASE Stop
    BY <2>1 DEF Stop, StoreTypes, clientVars
  <2>2. ASSUME NEW p \in Partitions, Produce(p) PROVE StoreTypes'
    <3>1. end' \in [Partitions -> Positions] /\ \A q \in Partitions : end[q] <= end'[q]
      BY <2>2 DEF Produce, StoreTypes, Positions
    <3>2. UNCHANGED <<pos, polled, channel>>
      BY <2>2 DEF Produce, clientVars
    <3>3. \A q \in Partitions : pos'[q] <= end'[q]
      BY <3>1, <3>2 DEF StoreTypes, Positions
    <3> QED
      BY <3>1, <3>2, <3>3 DEF StoreTypes
  <2>3. CASE Deliver
    <3>1. channel' \in [Partitions -> Seq(Positions)]
      BY <2>3 DEF Deliver, StoreTypes
    <3>2. UNCHANGED <<end, pos>> /\ polled' = NoEvent
      BY <2>3 DEF Deliver, clientVars
    <3> QED
      BY <3>1, <3>2 DEF StoreTypes
  <2>4. CASE Wait
    BY <2>4 DEF Wait, StoreTypes, clientVars, NoEvent
  <2>5. ASSUME NEW p \in Partitions, Poll(p) PROVE StoreTypes'
    <3>1. /\ pos' \in [Partitions -> Positions]
          /\ \A q \in Partitions : pos'[q] <= end[q]
          /\ polled'.p = p /\ polled'.ev \in Positions
      <4>1. pos[p] \in Nat /\ end[p] \in Positions /\ pos \in [Partitions -> Positions]
        BY DEF StoreTypes, Positions
      <4>2. CASE pos[p] < end[p]
        <5>1. pos[p] + 1 \in Positions /\ pos[p] + 1 <= end[p]
          BY <4>1, <4>2 DEF Positions
        <5>2. /\ pos' = [pos EXCEPT ![p] = pos[p] + 1]
              /\ polled'.p = p /\ polled'.ev = pos[p] + 1
          BY <2>5, <4>1, <4>2 DEF Poll, Positions
        <5> QED
          BY <4>1, <5>1, <5>2 DEF StoreTypes
      <4>3. CASE ~(pos[p] < end[p])
        BY <2>5, <4>1, <4>3 DEF Poll, StoreTypes, Positions, PartitionEnd
      <4> QED
        BY <4>2, <4>3
    <3>2. UNCHANGED <<end, channel>>
      BY <2>5 DEF Poll
    <3> QED
      BY <3>1, <3>2 DEF StoreTypes
  <2> QED
    BY <2>1, <2>2, <2>3, <2>4, <2>5 DEF PollLoop
<1> QED
  BY <1>3, <1>5

\* What a syncer takes from its channel.
LEMMA TakeType ==
  ASSUME StoreTypes, NEW p \in Partitions, Take(p)
  PROVE  /\ channel' \in [Partitions -> Seq(Positions)]
         /\ Next1(p) \in Positions
         /\ updating[p] = 0
<1>1. channel[p] \in Seq(Positions) /\ channel[p] # <<>>
  BY DEF StoreTypes, Take
<1>2. Tail(channel[p]) \in Seq(Positions) /\ Head(channel[p]) \in Positions
  BY <1>1
<1>3. channel' = [channel EXCEPT ![p] = Tail(channel[p])]
  BY DEF Take
<1> QED
  BY <1>2, <1>3 DEF StoreTypes, Next1, Take

\* Signals, stops and tasks that come and go.
LEMMA LifeStep ==
  ASSUME StoreInv, NEW p \in Partitions,
         Synced(p) \/ SyncerStops(p) \/ SyncerStopped(p) \/ CloseStore(p) \/ Remove(p)
  PROVE  StoreInv'
<1> USE DEF StoreInv
<1>1. UNCHANGED <<idxVars, restores, end, pos, polled>>
  BY DEF Synced, Take, SyncerStops, SyncerStopped, CloseStore, Remove, idxVars, rebuildVars,
     clientVars, history
<1>2. Synced(p) => Take(p)
  BY DEF Synced
<1>3. channel' \in [Partitions -> Seq(Positions)]
  <2>1. Take(p) => channel' \in [Partitions -> Seq(Positions)]
    BY TakeType
  <2>2. ~Synced(p) => channel' = channel
    BY DEF SyncerStops, SyncerStopped, CloseStore, Remove
  <2> QED
    BY <1>2, <2>1, <2>2 DEF StoreTypes
<1>4. /\ sync' \in [Partitions -> {"none", "syncing", "live", "closing", "stopped"}]
      /\ task' \in [Partitions -> {"none", "up", "closed"}]
  BY DEF Synced, Take, SyncerStops, SyncerStopped, CloseStore, Remove, StoreTypes
<1>5. StoreTypes'
  BY <1>1, <1>3, <1>4 DEF StoreTypes, idxVars, rebuildVars
<1>6. ASSUME NEW q \in Partitions PROVE Writers(q)'
  <2>1. Writers(q) /\ Writers(p)
    BY DEF IndexInv
  <2>2. CASE q # p
    <3>1. sync'[q] = sync[q] /\ task'[q] = task[q]
      BY <2>2 DEF Synced, Take, SyncerStops, SyncerStopped, CloseStore, Remove, StoreTypes
    <3> QED
      BY <3>1, <2>1, <1>1 DEF Writers, idxVars, rebuildVars
  <2>3. CASE q = p
    <3> USE <2>1, <2>3, <1>1 DEF Writers, idxVars, rebuildVars
    <3>1. CASE Synced(p)
      BY <3>1 DEF Synced, Take, Running, StoreTypes
    <3>2. CASE SyncerStops(p)
      BY <3>2 DEF SyncerStops, Running, StoreTypes
    <3>3. CASE SyncerStopped(p)
      BY <3>3 DEF SyncerStopped, StoreTypes
    <3>4. CASE CloseStore(p)
      BY <3>4 DEF CloseStore, StoreTypes
    <3>5. CASE Remove(p)
      BY <3>5 DEF Remove, StoreTypes
    <3> QED
      BY <3>1, <3>2, <3>3, <3>4, <3>5
  <2> QED
    BY <2>2, <2>3
<1>7. IndexInv'
  BY <1>1, <1>6, IndexFrame
<1> QED
  BY <1>5, <1>7

\* A new restore: of a local store, which has no index, or the first one of a
\* global store, which is empty.
LEMMA RestoreStep1 ==
  ASSUME StoreInv, NEW p \in Partitions, Restore(p)
  PROVE  StoreInv'
<1> USE DEF StoreInv
<1>1. UNCHANGED <<kind, end, polled, updating, index, task, rebuildVars, raced>>
  BY DEF Restore
<1>2. EmptyStore \in StoreType /\ Committed \in Positions
  BY IndexedStoreAssumption DEF EmptyStore, StoreType, Committed, Positions
<1>3. /\ store' \in [Partitions -> StoreType]
      /\ \A q \in Partitions : q # p => store'[q] = store[q]
      /\ store'[p] \in {store[p], EmptyStore}
  <2>1. store' = store \/ store' = [store EXCEPT ![p] = EmptyStore]
    BY DEF Restore
  <2>2. store \in [Partitions -> StoreType]
    BY DEF StoreTypes
  <2>3. CASE store' = store
    BY <2>2, <2>3
  <2>4. CASE store' = [store EXCEPT ![p] = EmptyStore]
    BY <1>2, <2>2, <2>4
  <2> QED
    BY <2>1, <2>3, <2>4
<1>4. /\ pos' \in [Partitions -> Positions]
      /\ \A q \in Partitions : pos'[q] <= end[q]
  BY <1>2, IndexedStoreAssumption DEF Restore, StoreTypes, Committed, Positions
<1>5. StoreTypes'
  <2>1. /\ restores' \in [Partitions -> Nat]
        /\ channel' \in [Partitions -> Seq(Positions)]
        /\ sync' \in [Partitions -> {"none", "syncing", "live", "closing", "stopped"}]
        /\ failed' \subseteq Partitions
    BY DEF Restore, StoreTypes
  <2> QED
    BY <1>1, <1>3, <1>4, <2>1 DEF StoreTypes, rebuildVars
<1>6. ASSUME NEW q \in Partitions PROVE Writers(q)'
  <2>1. Writers(q) /\ sync[p] = "none"
    BY DEF IndexInv, Restore
  <2>2. CASE q = p
    <3>1. restores'[p] # 0 /\ sync'[p] = "syncing" /\ updating[p] = 0 /\ task[p] = "none"
      BY <2>1, <2>2 DEF Restore, StoreTypes, Writers
    <3> QED
      BY <3>1, <2>1, <2>2, <1>1 DEF Writers, rebuildVars
  <2>3. CASE q # p
    <3>1. /\ restores'[q] = restores[q] /\ sync'[q] = sync[q]
          /\ q \in failed' => q \in failed
      BY <2>3 DEF Restore, StoreTypes
    <3> QED
      BY <3>1, <2>1, <2>3, <1>1, <1>3 DEF Writers, rebuildVars
  <2> QED
    BY <2>2, <2>3
<1>7. ASSUME NEW q \in Partitions PROVE Indexes(q)'
  <2>1. Writers(q) /\ Indexes(q)
    BY DEF IndexInv
  <2>2. CASE q = p /\ kind = "global"
    <3>1. restores[p] = 0
      BY <2>2 DEF Restore
    <3>2. store'[p] = store[p] /\ p \notin failed
      BY <3>1, <2>1, <2>2, <1>3 DEF Writers
    <3> QED
      BY <3>2, <2>1, <2>2, <1>1 DEF Indexes, Target, rebuildVars
  <2>3. CASE q = p /\ kind # "global"
    <3>1. index[p] = {} /\ rebuild = "no"
      BY <2>1, <2>3 DEF Writers, StoreTypes
    <3> QED
      BY <3>1, <2>3, <1>1 DEF Indexes, Sound, rebuildVars
  <2>4. CASE q # p
    <3>1. q \in failed' <=> q \in failed
      BY <2>4 DEF Restore
    <3> QED
      BY <3>1, <2>1, <2>4, <1>1, <1>3 DEF Indexes, Target, rebuildVars
  <2> QED
    BY <2>2, <2>3, <2>4
<1> QED
  BY <1>5, <1>6, <1>7 DEF IndexInv

\* What an update of partition p leaves of the other partitions.
LEMMA OthersKept ==
  ASSUME IndexInv, NEW p \in Partitions, NEW q \in Partitions, q # p,
         UNCHANGED <<kind, restores, task, rebuild, snapshot>>,
         sync'[q] = sync[q], updating'[q] = updating[q], store'[q] = store[q],
         index'[q] = index[q], q \in failed' <=> q \in failed, raced => raced',
         raced' => rebuild # "no", \A k \in Keys : <<q, k>> \in todo' <=> <<q, k>> \in todo
  PROVE  Writers(q)' /\ Indexes(q)'
<1>1. Writers(q) /\ Indexes(q)
  BY DEF IndexInv
<1>2. Writers(q)'
  BY <1>1 DEF Writers
<1>3. Indexes(q)'
  BY <1>1 DEF Indexes, Target, Sound, Full
<1> QED
  BY <1>2, <1>3

\* The replay writes the store and leaves the indexes to the rebuild: before it
\* they are empty, and an update during or after it is a race.
LEMMA UpdateStep ==
  ASSUME StoreInv, NEW p \in Partitions, Update(p)
  PROVE  StoreInv'
<1> USE DEF StoreInv
<1>1. /\ UNCHANGED <<kind, end, pos, polled, restores, task, rebuildVars, sync, updating, index, failed>>
      /\ channel' \in [Partitions -> Seq(Positions)]
      /\ updating[p] = 0 /\ Take(p)
  BY TakeType DEF Update, Take, clientVars
<1>2. Next1(p) \in Positions /\ Next1(p) # 0
  BY TakeType DEF Update, PartitionEnd
<1>3. Write(store[p], Changelog[Next1(p)]) \in StoreType
  BY <1>2, ChangelogRecord, WriteType DEF StoreTypes
<1>4. store' = [store EXCEPT ![p] = Write(store[p], Changelog[Next1(p)])]
      /\ raced' = (raced \/ rebuild # "no")
  BY DEF Update
<1>5. StoreTypes'
  BY <1>1, <1>3, <1>4 DEF StoreTypes, rebuildVars
<1>6. Writers(p) /\ Running(p) /\ (kind = "local" \/ sync[p] = "syncing")
  BY DEF IndexInv, Update, Take
<1>7. ASSUME NEW q \in Partitions PROVE Writers(q)' /\ Indexes(q)'
  <2>1. CASE q # p
    BY <2>1, <1>1, <1>4, OthersKept DEF StoreTypes, IndexInv, Writers, rebuildVars
  <2>2. CASE q = p
    <3>1. Writers(p)'
      BY <1>1, <1>4, <1>6 DEF Writers, Running, rebuildVars
    <3>2. rebuild = "no" => index[p] = {}
      BY <1>6 DEF Writers, StoreTypes
    <3>3. Indexes(p)'
      BY <3>2, <1>1, <1>4 DEF Indexes, Sound, rebuildVars
    <3> QED
      BY <2>2, <3>1, <3>3
  <2> QED
    BY <2>1, <2>2
<1> QED
  BY <1>5, <1>7 DEF IndexInv

\* The syncer of a live global table writes the index for the record it has taken.
LEMMA UpdateIndexesStep ==
  ASSUME StoreInv, NEW p \in Partitions, UpdateIndexes(p)
  PROVE  StoreInv'
<1> USE DEF StoreInv
<1> DEFINE r == Changelog[Next1(p)]
           ix == Indexed(index[p], store[p], r)
<1>1. /\ UNCHANGED <<kind, end, pos, polled, restores, task, rebuildVars, sync, store, failed>>
      /\ channel' \in [Partitions -> Seq(Positions)]
      /\ updating[p] = 0
  BY TakeType DEF UpdateIndexes, Take, clientVars
<1>2. Next1(p) \in Positions /\ Next1(p) # 0
  BY TakeType DEF UpdateIndexes, PartitionEnd
<1>3. r \in [key : Keys, val : Values \cup {None}]
  BY <1>2, ChangelogRecord
<1>4. /\ ix \in SUBSET Entries
      /\ Sound(index[p], store[p]) => Sound(ix, Write(store[p], r))
      /\ Sound(index[p], store[p]) /\ Full(index[p], store[p]) => Full(ix, Write(store[p], r))
  BY <1>3, IndexedLemma DEF StoreTypes
<1>5. /\ index' = [index EXCEPT ![p] = ix]
      /\ updating' = [updating EXCEPT ![p] = Next1(p)]
      /\ raced' = (raced \/ rebuild = "run")
      /\ kind = "global" /\ sync[p] = "live"
  BY DEF UpdateIndexes
<1> HIDE DEF ix
<1>6. StoreTypes'
  BY <1>1, <1>2, <1>4, <1>5 DEF StoreTypes, rebuildVars
<1>7. Writers(p) /\ Indexes(p)
  BY DEF IndexInv
<1>8. ASSUME NEW q \in Partitions PROVE Writers(q)' /\ Indexes(q)'
  <2>1. CASE q # p
    BY <2>1, <1>1, <1>5, OthersKept DEF StoreTypes, IndexInv, Writers, rebuildVars
  <2>2. CASE q = p
    <3>1. index'[p] = ix /\ updating'[p] = Next1(p)
      BY <1>5 DEF StoreTypes
    <3>2. Writers(p)'
      BY <3>1, <1>1, <1>5, <1>7 DEF Writers, rebuildVars
    <3>3. Target(p) = store[p] /\ Target(p)' = Write(store[p], r)
      BY <3>1, <1>1, <1>2 DEF Target
    <3>4. Indexes(p)'
      BY <3>1, <3>3, <1>1, <1>4, <1>5, <1>7 DEF Indexes, rebuildVars, StoreTypes
    <3> QED
      BY <2>2, <3>2, <3>4
  <2> QED
    BY <2>1, <2>2
<1> QED
  BY <1>6, <1>8 DEF IndexInv

\* ... and then the store, which becomes what the index already says.
LEMMA SetIndexedStep ==
  ASSUME StoreInv, NEW p \in Partitions, SetIndexed(p)
  PROVE  StoreInv'
<1> USE DEF StoreInv
<1>1. /\ UNCHANGED <<kind, end, pos, polled, channel, restores, task, rebuildVars, sync, index, failed, raced>>
      /\ updating[p] # 0
      /\ store' = [store EXCEPT ![p] = Write(store[p], Changelog[updating[p]])]
      /\ updating' = [updating EXCEPT ![p] = 0]
  BY DEF SetIndexed, clientVars, history
<1>2. Write(store[p], Changelog[updating[p]]) \in StoreType
  BY <1>1, ChangelogRecord, WriteType DEF StoreTypes
<1>3. StoreTypes'
  BY <1>1, <1>2 DEF StoreTypes, rebuildVars, Positions
<1>4. Writers(p) /\ Indexes(p)
  BY DEF IndexInv
<1>5. ASSUME NEW q \in Partitions PROVE Writers(q)' /\ Indexes(q)'
  <2>1. CASE q # p
    BY <2>1, <1>1, OthersKept DEF StoreTypes, IndexInv, Writers, rebuildVars
  <2>2. CASE q = p
    <3>1. Target(p)' = Target(p) /\ updating'[p] = 0
      BY <1>1 DEF Target, StoreTypes
    <3>2. Writers(p)'
      BY <3>1, <1>1, <1>4 DEF Writers, rebuildVars
    <3>3. Indexes(p)'
      BY <3>1, <1>1, <1>4 DEF Indexes, rebuildVars
    <3> QED
      BY <2>2, <3>2, <3>3
  <2> QED
    BY <2>1, <2>2
<1> QED
  BY <1>3, <1>5 DEF IndexInv

\* An update that fails makes the store an exception until it is restored again.
LEMMA FailsStep ==
  ASSUME StoreInv, NEW p \in Partitions, UpdateFails(p) \/ SetFails(p)
  PROVE  StoreInv'
<1> USE DEF StoreInv
<1>1. /\ UNCHANGED <<kind, end, pos, polled, restores, task, rebuildVars, sync, store, index, raced>>
      /\ failed' = failed \cup {p}
  BY DEF UpdateFails, SetFails, Take, clientVars, history
<1>2. /\ channel' \in [Partitions -> Seq(Positions)]
      /\ updating' \in [Partitions -> Positions]
      /\ updating'[p] = 0
      /\ \A q \in Partitions : q # p => updating'[q] = updating[q]
  <2>1. CASE UpdateFails(p)
    BY <2>1, TakeType DEF UpdateFails, StoreTypes
  <2>2. CASE SetFails(p)
    BY <2>2 DEF SetFails, StoreTypes, Positions
  <2> QED
    BY <2>1, <2>2
<1>3. StoreTypes'
  BY <1>1, <1>2 DEF StoreTypes, rebuildVars
<1>4. Writers(p) /\ sync[p] # "none"
  BY DEF IndexInv, Writers, UpdateFails, SetFails, Take, Running
<1>5. ASSUME NEW q \in Partitions PROVE Writers(q)' /\ Indexes(q)'
  <2>1. CASE q # p
    BY <2>1, <1>1, <1>2, OthersKept DEF StoreTypes, IndexInv, Writers, rebuildVars
  <2>2. CASE q = p
    BY <2>2, <1>1, <1>2, <1>4 DEF Writers, Indexes, rebuildVars
  <2> QED
    BY <2>1, <2>2
<1> QED
  BY <1>3, <1>5 DEF IndexInv

\* The rebuild takes its snapshot: every entry is still to be made.
LEMMA RebuildStartStep ==
  ASSUME StoreInv, RebuildStart
  PROVE  StoreInv'
<1> USE DEF StoreInv
<1>1. /\ UNCHANGED <<kind, end, pos, polled, channel, restores, task, sync, updating, store, index, failed>>
      /\ kind = "global" /\ rebuild = "no" /\ rebuild' = "run"
      /\ snapshot' = store
      /\ todo' = {pk \in Partitions \X Keys : pk[2] \in Held(store[pk[1]])}
      /\ raced' = (raced \/ \E p \in Partitions : updating[p] # 0)
  BY DEF RebuildStart, clientVars
<1>2. \A q \in Partitions, k \in Keys : store[q][k] # None => <<q, k>> \in todo'
  BY <1>1 DEF Held
<1>3. \A t \in todo' : store[t[1]][t[2]] # None
  BY <1>1 DEF Held
<1>4. StoreTypes'
  BY <1>1, <1>3 DEF StoreTypes
<1>5. ASSUME NEW q \in Partitions PROVE Writers(q)' /\ Indexes(q)'
  <2>1. Writers(q) /\ Indexes(q)
    BY DEF IndexInv
  <2>2. Writers(q)'
    BY <2>1, <1>1 DEF Writers
  <2>3. ~raced' => updating[q] = 0
    BY <1>1
  <2>4. Indexes(q)'
    BY <2>1, <2>3, <1>1, <1>2 DEF Indexes, Target, Sound
  <2> QED
    BY <2>2, <2>4
<1> QED
  BY <1>4, <1>5 DEF IndexInv

\* One entry is made; while nothing races, snapshot and store are the same.
LEMMA RebuildKeyStep ==
  ASSUME StoreInv, NEW p \in Partitions, NEW k \in Keys, RebuildKey(p, k)
  PROVE  StoreInv'
<1> USE DEF StoreInv
<1> DEFINE ix == IndexUpdate(index[p], k, store[p][k], snapshot[p][k])
<1>1. /\ UNCHANGED <<kind, end, pos, polled, channel, restores, task, sync, updating, store, rebuild, snapshot, failed, raced>>
      /\ rebuild = "run" /\ <<p, k>> \in todo
      /\ index' = [index EXCEPT ![p] = ix]
      /\ todo' = todo \ {<<p, k>>}
  BY DEF RebuildKey, clientVars, history
<1>2. store[p][k] \in Values \cup {None} /\ snapshot[p][k] \in Values
  BY <1>1 DEF StoreTypes, StoreType
<1>3. /\ ix \in SUBSET Entries
      /\ Entry(k, snapshot[p][k]) \in ix
      /\ \A e \in index[p] : e.key # k => e \in ix
      /\ \A e \in ix : e = Entry(k, snapshot[p][k]) \/ e \in index[p]
  BY <1>2, IndexUpdateLemma DEF StoreTypes
<1> HIDE DEF ix
<1>4. StoreTypes'
  BY <1>1, <1>3 DEF StoreTypes
<1>5. Writers(p) /\ Indexes(p)
  BY DEF IndexInv
<1>6. ASSUME NEW q \in Partitions PROVE Writers(q)' /\ Indexes(q)'
  <2>1. CASE q # p
    BY <2>1, <1>1, OthersKept DEF StoreTypes, IndexInv, Writers
  <2>2. CASE q = p
    <3>1. index'[p] = ix
      BY <1>1 DEF StoreTypes
    <3>2. Writers(p)'
      BY <3>1, <1>1, <1>5 DEF Writers
    <3>3. SUFFICES ASSUME p \notin failed, ~raced PROVE Indexes(p)'
      BY <2>2, <3>2, <1>1 DEF Indexes
    <3>4. /\ snapshot[p] = store[p] /\ updating[p] = 0
          /\ Sound(index[p], store[p])
          /\ \A l \in Keys : store[p][l] # None /\ <<p, l>> \notin todo => Entry(l, store[p][l]) \in index[p]
      BY <3>3, <1>1, <1>5 DEF Indexes, Target
    <3>5. Sound(ix, store[p])
      BY <3>4, <1>3 DEF Sound, Entry
    <3>6. ASSUME NEW l \in Keys, store[p][l] # None, <<p, l>> \notin todo'
          PROVE  Entry(l, store[p][l]) \in ix
      <4>1. Entry(l, store[p][l]).key = l
        BY DEF Entry
      <4> QED
        BY <3>6, <3>4, <4>1, <1>1, <1>3
    <3> QED
      BY <3>1, <3>4, <3>5, <3>6, <1>1 DEF Indexes, Target
  <2> QED
    BY <2>1, <2>2
<1> QED
  BY <1>4, <1>6 DEF IndexInv

\* Nothing is left to be made: the index is complete.
LEMMA RebuildEndStep ==
  ASSUME StoreInv, RebuildEnd
  PROVE  StoreInv'
<1> USE DEF StoreInv
<1>1. /\ UNCHANGED <<kind, end, pos, polled, channel, restores, task, sync, updating, store, index, todo, failed, raced>>
      /\ rebuild = "run" /\ todo = {} /\ rebuild' = "done"
      /\ snapshot' = Each(EmptyStore)
  BY DEF RebuildEnd, clientVars, history
<1>2. snapshot' \in [Partitions -> StoreType]
  BY <1>1 DEF Each, EmptyStore, StoreType
<1>3. StoreTypes'
  BY <1>1, <1>2 DEF StoreTypes
<1>4. ASSUME NEW q \in Partitions PROVE Writers(q)' /\ Indexes(q)'
  <2>1. Writers(q) /\ Indexes(q)
    BY DEF IndexInv
  <2>2. Writers(q)'
    BY <2>1, <1>1 DEF Writers
  <2>3. q \notin failed /\ ~raced => Full(index[q], Target(q))
    BY <2>1, <1>1 DEF Indexes, Full, Target
  <2>4. Indexes(q)'
    BY <2>1, <2>3, <1>1 DEF Indexes, Target, Sound, Full
  <2> QED
    BY <2>2, <2>4
<1> QED
  BY <1>3, <1>4 DEF IndexInv

\* Every step of the restores keeps the invariant.
LEMMA RestoreKeeps == ASSUME StoreInv, RestoreStep PROVE StoreInv'
BY PollStep, LifeStep, RestoreStep1, UpdateStep, UpdateIndexesStep, SetIndexedStep, FailsStep,
   RebuildStartStep, RebuildKeyStep, RebuildEndStep
   DEF RestoreStep, Syncer, Rebuild

\* A step that leaves the restores alone keeps it too.
LEMMA StoreStutters == ASSUME StoreInv, UNCHANGED restoreVars PROVE StoreInv'
BY DEF StoreInv, StoreTypes, IndexInv, Writers, Indexes, Target, Sound, Full, restoreVars, clientVars,
   rebuildVars, history

\* Every step keeps the invariant of the stores.
LEMMA StoreNext == ASSUME StoreInv, [Next]_vars PROVE StoreInv'
<1>1. CASE Query \/ Register
  <2>1. UNCHANGED restoreVars
    BY <1>1 DEF Query, Register, Unknown, RequestAll, Complete, Request, RequestIndex, Get,
       OpenIterator, GetClosed, FetchIndexed
  <2> QED
    BY <2>1, StoreStutters
<1>2. CASE RestoreStep
  BY <1>2, RestoreKeeps
<1>3. CASE UNCHANGED vars
  BY <1>3, StoreStutters DEF vars
<1> QED
  BY <1>1, <1>2, <1>3 DEF Next

\* The invariant holds of every reachable state.
THEOREM StoreInvariant == Spec => []StoreInv
<1>1. StoreInv /\ [Next]_vars => StoreInv'
  BY StoreNext
<1> QED
  BY <1>1, StoreInit, PTL DEF Spec

\* A rebuilt index finds exactly the keys whose value it is about, outside the
\* exceptions that IndexAgreesWithStore names.
LEMMA IndexAgreement == ASSUME StoreInv PROVE IndexAgreesWithStore
<1> SUFFICES ASSUME NEW p \in Partitions, NEW v \in Values, rebuild = "done", ~raced,
                    updating[p] = 0, p \notin failed
             PROVE  IndexRead(index[p], v) = {k \in Keys : store[p][k] = v}
  BY DEF IndexAgreesWithStore
<1>1. Sound(index[p], store[p]) /\ Full(index[p], store[p])
  BY DEF StoreInv, IndexInv, Indexes, Target
<1>2. v # None /\ index[p] \in SUBSET Entries
  BY IndexedStoreAssumption DEF StoreInv, StoreTypes
<1>3. ASSUME NEW k \in IndexRead(index[p], v) PROVE k \in Keys /\ store[p][k] = v
  BY <1>1, <1>2 DEF IndexRead, Sound, Entries
<1>4. ASSUME NEW k \in Keys, store[p][k] = v PROVE k \in IndexRead(index[p], v)
  <2>1. Entry(k, v) \in index[p] /\ Entry(k, v).idx = v /\ Entry(k, v).key = k
    BY <1>4, <1>1, <1>2 DEF Full, Entry
  <2> QED
    BY <2>1 DEF IndexRead
<1> QED
  BY <1>3, <1>4

\* For every number of partitions and keys, every changelog and every bound, the
\* index of a store agrees with the store (changelogSyncer.updateStoreWithIndex
\* against indexedStore.RebuildIndexes).
THEOREM IndexAgreesHolds == Spec => []IndexAgreesWithStore
BY StoreInvariant, IndexAgreement, PTL

-----------------------------------------------------------------------------
(* Requests.                                                               *)

\* A request is made: what is sure is still to be read.
LEMMA RequestMade ==
  ASSUME StoreInv, RequestInv, RequestAll \/ \E k \in Keys : Request(k)
  PROVE  RequestInv'
<1>1. ASSUME NEW what \in {"get", "list"}, NEW k, NEW keys \in SUBSET Keys,
             Known, Reading(what, k, keys), UNCHANGED restoreVars, what = "get" => keys = {k}
      PROVE  RequestInv'
  <2>1. UNCHANGED <<store, task, kind, restores>>
    BY <1>1 DEF restoreVars
  <2>2. /\ req'.st = "reading" /\ req'.kind = what /\ req'.arg = k /\ req'.missed = {} /\ req'.rows = {}
        /\ req'.ask = {<<p, restores[p]>> : p \in Instances}
        /\ req' = [st |-> req'.st, kind |-> req'.kind, arg |-> req'.arg, ask |-> req'.ask,
                   rows |-> req'.rows, sure |-> req'.sure, missed |-> req'.missed]
    BY <1>1 DEF Reading
  <2>3. ASSUME NEW r \in req'.sure PROVE r \in Rows /\ SureRow(r)'
    <3>1. PICK p \in Instances, l \in keys : r = Row(p, l) /\ task[p] = "up" /\ store[p][l] # None
      BY <1>1 DEF Reading
    <3>2. /\ p \in Partitions /\ l \in Keys /\ store[p][l] \in Values \cup {None}
          /\ r.of = p /\ r.key = l /\ r.val = store[p][l]
      BY <3>1 DEF Instances, Row, StoreInv, StoreTypes, StoreType
    <3>3. r \in Rows
      BY <3>1, <3>2 DEF Rows, Row
    <3>4. kind = "local" /\ <<r.of, restores[r.of]>> \in req'.ask
      BY <1>1, <2>2, <3>1, <3>2 DEF Known
    <3> QED
      BY <1>1, <2>1, <2>2, <3>1, <3>2, <3>3, <3>4 DEF SureRow
  <2> QED
    BY <2>2, <2>3 DEF RequestInv
<1>2. CASE RequestAll /\ Instances = {}
  BY <1>2 DEF RequestAll, RequestInv, Failed, NoRequest
<1>3. CASE RequestAll /\ Instances # {}
  BY <1>1, <1>3 DEF RequestAll
<1>4. ASSUME NEW k \in Keys, Request(k) PROVE RequestInv'
  BY <1>1, <1>4 DEF Request
<1> QED
  BY <1>2, <1>3, <1>4

\* An index is asked: every key whose value is the one asked for has its entry,
\* unless its update is under way.
LEMMA IndexAsked ==
  ASSUME StoreInv, RequestInv, NEW p \in Partitions, NEW i \in Values, RequestIndex(p, i)
  PROVE  RequestInv'
<1>1. UNCHANGED <<store, kind>> /\ rebuild = "done"
  BY DEF RequestIndex, restoreVars
<1>2. /\ req'.st = "reading" /\ req'.kind = "index" /\ req'.missed = {} /\ req'.rows = {}
      /\ req'.ask = {<<p, k>> : k \in IndexRead(index[p], i)}
      /\ req' = [st |-> req'.st, kind |-> req'.kind, arg |-> req'.arg, ask |-> req'.ask,
                 rows |-> req'.rows, sure |-> req'.sure, missed |-> req'.missed]
  BY DEF RequestIndex
<1>3. kind = "global"
  BY <1>1 DEF StoreInv, StoreTypes, IndexInv, Writers
<1>4. ASSUME NEW r \in req'.sure PROVE r \in Rows /\ SureRow(r)'
  <2>1. ~raced /\ p \notin failed
    BY DEF RequestIndex
  <2>2. PICK l \in Keys : /\ r = Row(p, l) /\ store[p][l] = i
                          /\ updating[p] = 0 \/ Changelog[updating[p]].key # l
    BY <2>1 DEF RequestIndex
  <2>3. r.of = p /\ r.key = l /\ r.val = i /\ r \in Rows
    BY <2>2 DEF Row, Rows
  <2>4. Target(p)[l] = i
    <3>1. CASE updating[p] = 0
      BY <2>2, <3>1 DEF Target
    <3>2. CASE updating[p] # 0
      <4>1. updating[p] \in Positions /\ store[p] \in StoreType
        BY DEF StoreInv, StoreTypes
      <4>2. Write(store[p], Changelog[updating[p]])[l] = store[p][l]
        BY <4>1, <3>2, <2>2, ChangelogRecord, WriteType
      <4> QED
        BY <4>2, <3>2, <2>2 DEF Target
    <3> QED
      BY <3>1, <3>2
  <2>5. Full(index[p], Target(p))
    BY <1>1, <2>1 DEF StoreInv, IndexInv, Indexes
  <2>6. Entry(l, i) \in index[p] /\ Entry(l, i).key = l /\ Entry(l, i).idx = i
    BY <2>4, <2>5, IndexedStoreAssumption DEF Full, Entry
  <2>7. <<r.of, r.key>> \in req'.ask
    BY <1>2, <2>3, <2>6 DEF IndexRead
  <2> QED
    BY <1>1, <1>2, <1>3, <2>2, <2>3, <2>7 DEF SureRow
<1> QED
  BY <1>2, <1>4 DEF RequestInv

\* A part of the answer is read: the sure rows of that part are found.
LEMMA PartRead ==
  ASSUME StoreInv, RequestInv, NEW h \in req.ask,
         Get(h) \/ OpenIterator(h) \/ GetClosed(h) \/ FetchIndexed(h)
  PROVE  RequestInv'
<1>1. UNCHANGED <<store, task, kind, restores>> /\ req.st = "reading"
  BY DEF Get, OpenIterator, GetClosed, FetchIndexed, restoreVars
<1>2. /\ req = [st |-> req.st, kind |-> req.kind, arg |-> req.arg, ask |-> req.ask,
                rows |-> req.rows, sure |-> req.sure, missed |-> req.missed]
      /\ req.sure \subseteq Rows /\ req.missed = {}
      /\ req.kind \in {"get", "list", "index"}
      /\ \A r \in req.sure : SureRow(r)
  BY <1>1 DEF RequestInv
<1>3. CASE req' = Failed \/ req' = Answered({})
  BY <1>3 DEF RequestInv, Failed, Answered, NoRequest
<1>4. CASE Get(h) /\ store[h[1]][req.arg] = None
  <2>1. req' = [req EXCEPT !.ask = @ \ {h}] /\ req.kind = "get"
    BY <1>4 DEF Get
  <2>2. ASSUME NEW r \in req.sure PROVE SureRow(r)'
    BY <1>1, <1>2, <1>4, <2>1, <2>2 DEF SureRow
  <2> QED
    BY <1>2, <2>1, <2>2 DEF RequestInv
<1>5. CASE OpenIterator(h)
  <2>1. /\ req' = [req EXCEPT !.ask = @ \ {h},
                    !.rows = @ \cup {Row(h[1], k) : k \in Held(store[h[1]])}]
        /\ req.kind = "list"
    BY <1>5 DEF OpenIterator
  <2>2. ASSUME NEW r \in req.sure, h = <<r.of, restores[r.of]>> PROVE r \in req'.rows
    <3>1. r.of = h[1] /\ r.key \in Held(store[h[1]]) /\ r.val = store[h[1]][r.key]
      BY <1>2, <2>1, <2>2 DEF SureRow, Rows, Held
    <3>2. r = Row(h[1], r.key)
      BY <1>2, <3>1 DEF Row, Rows
    <3> QED
      BY <1>2, <2>1, <3>1, <3>2
  <2>3. ASSUME NEW r \in req.sure PROVE SureRow(r)'
    BY <1>1, <1>2, <2>1, <2>2 DEF SureRow
  <2> QED
    BY <1>2, <2>1, <2>3 DEF RequestInv
<1>6. CASE FetchIndexed(h)
  <2>1. /\ req' = [req EXCEPT !.ask = @ \ {h}, !.rows = @ \cup {Row(h[1], h[2])}]
        /\ req.kind = "index"
    BY <1>6 DEF FetchIndexed
  <2>2. ASSUME NEW r \in req.sure, h = <<r.of, r.key>> PROVE r \in req'.rows
    <3>1. r = Row(h[1], h[2])
      BY <1>2, <2>2 DEF Row, Rows, SureRow
    <3> QED
      BY <1>2, <2>1, <3>1
  <2>3. ASSUME NEW r \in req.sure PROVE SureRow(r)'
    BY <1>1, <1>2, <2>1, <2>2 DEF SureRow
  <2> QED
    BY <1>2, <2>1, <2>3 DEF RequestInv
<1> QED
  BY <1>3, <1>4, <1>5, <1>6 DEF Get, GetClosed

\* Nothing is left to be read: no sure row is missed.
LEMMA AnswerComplete == ASSUME RequestInv, Complete PROVE RequestInv'
<1>1. req.sure \subseteq req.rows
  BY DEF Complete, Exhausted, RequestInv, SureRow
<1> QED
  BY <1>1 DEF Complete, Answered, NoRequest, RequestInv

\* What the restores do meanwhile leaves only rows that are still sure.
LEMMA MeanwhileKeeps ==
  ASSUME StoreInv, RequestInv, RestoreStep, Meanwhile
  PROVE  RequestInv'
<1>1. kind' = kind
  BY DEF RestoreStep, PollLoop, Deliver, Wait, Poll, Rebuild, RebuildStart, RebuildEnd, RebuildKey,
     Stop, Restore, Syncer, Synced, Update, UpdateIndexes, SetIndexed, SyncerStops, SyncerStopped,
     UpdateFails, SetFails, Produce, CloseStore, Remove, Take
<1>2. ASSUME NEW p \in Partitions, task[p] = "up" PROVE restores'[p] = restores[p]
  <2>1. sync[p] # "none"
    BY <1>2 DEF StoreInv, IndexInv, Writers
  <2>2. ASSUME NEW q \in Partitions, Restore(q) PROVE restores'[p] = restores[p]
    BY <2>1, <2>2 DEF Restore, StoreInv, StoreTypes
  <2>3. (\E q \in Partitions : Restore(q)) \/ restores' = restores
    BY DEF RestoreStep, PollLoop, Deliver, Wait, Poll, Rebuild, RebuildStart, RebuildEnd, RebuildKey,
       Stop, Syncer, Synced, Update, UpdateIndexes, SetIndexed, SyncerStops, SyncerStopped,
       UpdateFails, SetFails, Produce, CloseStore, Remove, Take
  <2> QED
    BY <2>2, <2>3
<1>3. req' = [req EXCEPT !.sure = {r \in @ :
                store'[r.of][r.key] = r.val /\ (kind = "local" => task'[r.of] = "up")}]
  BY DEF Meanwhile
<1>4. CASE req.st = "reading"
  <2>1. /\ req = [st |-> req.st, kind |-> req.kind, arg |-> req.arg, ask |-> req.ask,
                  rows |-> req.rows, sure |-> req.sure, missed |-> req.missed]
        /\ req.sure \subseteq Rows /\ req.missed = {}
        /\ req.kind \in {"get", "list", "index"}
        /\ \A r \in req.sure : SureRow(r)
    BY <1>4 DEF RequestInv
  <2>2. /\ req'.st = "reading" /\ req'.kind = req.kind /\ req'.arg = req.arg /\ req'.ask = req.ask
        /\ req'.rows = req.rows /\ req'.missed = {}
        /\ req'.sure = {r \in req.sure :
              store'[r.of][r.key] = r.val /\ (kind = "local" => task'[r.of] = "up")}
        /\ req' = [st |-> req'.st, kind |-> req'.kind, arg |-> req'.arg, ask |-> req'.ask,
                   rows |-> req'.rows, sure |-> req'.sure, missed |-> req'.missed]
    BY <1>3, <1>4, <2>1
  <2>3. ASSUME NEW r \in req'.sure PROVE SureRow(r)'
    <3>1. /\ r \in req.sure /\ r.of \in Partitions /\ SureRow(r)
          /\ store'[r.of][r.key] = r.val /\ (kind = "local" => task'[r.of] = "up")
      BY <2>1, <2>2 DEF Rows
    <3>2. kind = "local" /\ task[r.of] = "up" => restores'[r.of] = restores[r.of]
      BY <3>1, <1>2
    <3> QED
      BY <3>1, <3>2, <2>2, <1>1 DEF SureRow
  <2> QED
    BY <2>1, <2>2, <2>3 DEF RequestInv
<1>5. CASE req.st # "reading"
  <2>1. req'.st = req.st /\ req'.missed = req.missed
    BY <1>3
  <2> QED
    BY <1>5, <2>1 DEF RequestInv
<1> QED
  BY <1>4, <1>5

\* Every step keeps the promise to a request.
LEMMA RequestNext == ASSUME StoreInv, RequestInv, [Next]_vars PROVE RequestInv'
<1>1. CASE RestoreStep /\ Meanwhile
  BY <1>1, MeanwhileKeeps
<1>2. ASSUME NEW q \in IndexQueries, RequestIndex(q[1], q[2]) PROVE RequestInv'
  <2>1. q[1] \in Partitions /\ q[2] \in Values
    BY StoreQueriesAssumption
  <2> QED
    BY <1>2, <2>1, IndexAsked
<1>3. CASE Unknown
  BY <1>3 DEF Unknown, Failed, NoRequest, RequestInv
<1>4. CASE Register \/ UNCHANGED vars
  BY <1>4 DEF Register, vars, RequestInv, SureRow, restoreVars, clientVars
<1> QED
  BY <1>1, <1>2, <1>3, <1>4, RequestMade, PartRead, AnswerComplete DEF Next, Query

\* For every number of partitions and keys, however tasks move and syncers write
\* while a request is read, its answer lacks no row that was there all the time
\* (the store wrapper's Get and iterators, GetIndexedRecords).
THEOREM FoundIfHeldHolds == Spec => []FoundIfHeld
<1>1. Init => RequestInv
  BY DEF Init, NoRequest, RequestInv
<1>2. StoreInv /\ RequestInv /\ [Next]_vars => RequestInv'
  BY RequestNext
<1>3. RequestInv => FoundIfHeld
  BY DEF RequestInv, FoundIfHeld
<1> QED
  BY <1>1, <1>2, <1>3, StoreInvariant, PTL DEF Spec
=============================================================================
