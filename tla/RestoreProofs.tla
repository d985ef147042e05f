--------------------------- MODULE RestoreProofs ---------------------------
(***************************************************************************)
(* Proof that a restored store holds its changelog, for any partitions,    *)
(* keys, changelog, channel size and bounds.                               *)
(***************************************************************************)
EXTENDS StoreProofs

Touched(n) == {Changelog[j].key : j \in 1 .. n}
Sane(p) == p \notin failed \cup early

\* The store s is what the first m records make of it, except for keys that an
\* earlier life of the store may have left and later records overwrite.
At(p, s, m) ==
  \A k \in Keys : s[k] = Replayed(m)[k] \/ (k \in Touched(first[p]) /\ k \notin Touched(m))

\* An event takes a replay from record x to record y: the next record, the end of
\* the partition, or, before all others, a record of an earlier assignment.
Advances(p, e, x, y) ==
  \/ e # PartitionEnd /\ e = x + 1 /\ y = e
  \/ e = PartitionEnd /\ y = x /\ x >= first[p]
  \/ e # PartitionEnd /\ e <= first[p] /\ x = 0 /\ y = 0

\* s[0] records are in the store, s[i] will be after the i-th event of the channel,
\* and the event that the poll loop has in hand comes next.
InHand(p) == polled # NoEvent /\ polled.p = p /\ polled.of = restores[p]
Stream(p, s) ==
  /\ At(p, Target(p), s[0])
  /\ signal[p] = "synced" => s[0] >= first[p]
  /\ \A i \in 1 .. Len(channel[p]) : Advances(p, channel[p][i], s[i - 1], s[i])
  /\ IF InHand(p) THEN Advances(p, polled.ev, s[Len(channel[p])], pos[p])
     ELSE s[Len(channel[p])] = pos[p]
Streams(p) == [0 .. Len(channel[p]) -> 0 .. end[p]]

\* Nothing comes from beyond the end of the partition, and what is in a store
\* comes from its changelog.
Bounded(p) ==
  /\ first[p] <= end[p] /\ updating[p] <= end[p]
  /\ \A i \in 1 .. Len(channel[p]) : channel[p][i] <= end[p]
  /\ \A k \in Keys : store[p][k] # None => k \in Touched(end[p])

\* The event in hand is of this restore or of an earlier one; then this one has
\* read nothing yet.
HandInv ==
  polled = NoEvent \/
  LET p == polled.p IN
  /\ polled.ev <= end[p] /\ polled.of \in Nat /\ polled.to \in Nat
  /\ polled.of <= restores[p]
  /\ polled.to = 0 \/ (polled.of <= polled.to /\ polled.to <= restores[p])
  /\ polled.of # restores[p] => polled.ev <= first[p] /\ pos[p] = 0

Restoring(p) ==
  /\ Running(p) /\ Sane(p) => \E s \in Streams(p) : Stream(p, s)
  /\ sync[p] \in {"closing", "stopped"} /\ signal[p] = "synced" /\ Sane(p)
       => \E n \in first[p] .. end[p] : store[p] = Replayed(n)

MoreTypes == first \in [Partitions -> Positions] /\ early \subseteq Partitions
             /\ signal \in [Partitions -> {"no", "synced", "ended"}]
RestoreInv == MoreTypes /\ HandInv /\ \A p \in Partitions : Bounded(p) /\ Restoring(p)

-----------------------------------------------------------------------------
(* What the changelog makes of a store.                                    *)

\* The length of the changelog.
LEMMA ChangelogLength == Len(Changelog) \in Nat \ {0}
BY IndexedStoreAssumption

\* No record has been read.
LEMMA ReplayedNone ==
  /\ \A k \in Keys : Replayed(0)[k] = None
  /\ Touched(0) = {}
BY DEF Replayed, About, Touched

\* A longer part of the changelog is about more keys.
LEMMA TouchedGrows ==
  ASSUME NEW m \in Nat, NEW n \in Nat, m <= n
  PROVE  Touched(m) \subseteq Touched(n)
BY DEF Touched

\* One more record is read.
LEMMA ReplayedNext ==
  ASSUME NEW m \in Nat, m + 1 \in Positions
  PROVE  /\ \A k \in Keys : Replayed(m + 1)[k] =
              IF k = Changelog[m + 1].key THEN Changelog[m + 1].val ELSE Replayed(m)[k]
         /\ Changelog[m + 1].key \in Touched(m + 1)
         /\ Touched(m + 1) \subseteq Touched(m) \cup {Changelog[m + 1].key}
<1>1. Changelog[m + 1].key \in Touched(m + 1)
  BY DEF Touched
<1>2. Touched(m + 1) \subseteq Touched(m) \cup {Changelog[m + 1].key}
  BY DEF Touched
<1>3. ASSUME NEW k \in Keys, k = Changelog[m + 1].key
      PROVE  Replayed(m + 1)[k] = Changelog[m + 1].val
  <2> DEFINE S == About(m + 1, k)
  <2>1. m + 1 \in S /\ S \subseteq 1 .. (m + 1)
    BY <1>3 DEF About
  <2>2. \A i \in S : i <= m + 1
    BY <2>1
  <2>3. LastAbout(m + 1, k) \in S /\ \A i \in S : i <= LastAbout(m + 1, k)
    BY <2>1, <2>2 DEF LastAbout
  <2>4. LastAbout(m + 1, k) = m + 1
    BY <2>1, <2>2, <2>3
  <2>5. Replayed(m + 1)[k] = Changelog[LastAbout(m + 1, k)].val
    BY <2>1 DEF Replayed
  <2> QED
    BY <2>4, <2>5
<1>4. ASSUME NEW k \in Keys, k # Changelog[m + 1].key
      PROVE  Replayed(m + 1)[k] = Replayed(m)[k]
  <2>1. About(m + 1, k) = About(m, k)
    BY <1>4 DEF About
  <2>2. LastAbout(m + 1, k) = LastAbout(m, k)
    BY <2>1 DEF LastAbout
  <2> QED
    BY <2>1, <2>2 DEF Replayed
<1> QED
  BY <1>1, <1>2, <1>3, <1>4

\* The next record is written.
LEMMA AtNext ==
  ASSUME NEW p \in Partitions, NEW s \in StoreType, NEW m \in Nat, m + 1 \in Positions,
         At(p, s, m)
  PROVE  At(p, Write(s, Changelog[m + 1]), m + 1)
<1>1. m + 1 # 0
  OBVIOUS
<1>2. Changelog[m + 1] \in [key : Keys, val : Values \cup {None}]
  BY <1>1, ChangelogRecord
<1>3. \A k \in Keys : Write(s, Changelog[m + 1])[k] =
                        IF k = Changelog[m + 1].key THEN Changelog[m + 1].val ELSE s[k]
  BY <1>2, WriteType
<1> QED
  BY <1>3, ReplayedNext DEF At

\* A record that an earlier assignment had in hand is written first.
LEMMA AtStale ==
  ASSUME NEW p \in Partitions, NEW s \in StoreType, NEW e \in Positions, e # 0,
         e <= first[p], first[p] \in Positions, At(p, s, 0)
  PROVE  At(p, Write(s, Changelog[e]), 0)
<1>1. Changelog[e] \in [key : Keys, val : Values \cup {None}]
  BY ChangelogRecord
<1>2. \A k \in Keys : Write(s, Changelog[e])[k] =
                        IF k = Changelog[e].key THEN Changelog[e].val ELSE s[k]
  BY <1>1, WriteType
<1>3. Changelog[e].key \in Touched(first[p])
  BY ChangelogLength DEF Touched, Positions
<1> QED
  BY <1>2, <1>3, ReplayedNone DEF At

\* The end of the partition was passed: the store is complete.
LEMMA AtComplete ==
  ASSUME NEW p \in Partitions, NEW s \in StoreType, NEW m \in Nat, first[p] \in Nat,
         first[p] <= m, At(p, s, m)
  PROVE  s = Replayed(m)
<1>1. \A k \in Keys : s[k] = Replayed(m)[k]
  BY TouchedGrows DEF At
<1> QED
  BY <1>1 DEF StoreType, Replayed

\* An event does to the store what it does to the count of records.
LEMMA EventWritten ==
  ASSUME NEW p \in Partitions, NEW s \in StoreType, NEW e \in Positions, e # 0,
         NEW x \in Positions, NEW y, first[p] \in Positions, At(p, s, x), Advances(p, e, x, y)
  PROVE  At(p, Write(s, Changelog[e]), y) /\ (x >= first[p] => y >= first[p])
<1>1. x \in Nat /\ first[p] \in Nat /\ e \in Nat
  BY ChangelogLength DEF Positions
<1>2. CASE e = x + 1 /\ y = e
  BY <1>1, <1>2, AtNext
<1>3. CASE e <= first[p] /\ x = 0 /\ y = 0
  BY <1>1, <1>3, AtStale
<1> QED
  BY <1>2, <1>3 DEF Advances, PartitionEnd

-----------------------------------------------------------------------------
(* The stream of events, action by action.                                 *)

\* What a step of partition p leaves of another partition.
LEMMA OtherKept ==
  ASSUME NEW q \in Partitions, Bounded(q), Restoring(q),
         channel'[q] = channel[q], store'[q] = store[q], updating'[q] = updating[q],
         signal'[q] = signal[q], pos'[q] = pos[q], end'[q] = end[q], first'[q] = first[q],
         sync'[q] = sync[q], restores'[q] = restores[q], Sane(q)' => Sane(q),
         InHand(q)' <=> InHand(q), InHand(q) => polled'.ev = polled.ev
  PROVE  Bounded(q)' /\ Restoring(q)'
<1>1. Bounded(q)'
  BY DEF Bounded, Touched
<1>2. ASSUME NEW s, Stream(q, s) PROVE Stream(q, s)'
  BY <1>2 DEF Stream, Target, At, Advances, Touched, Replayed
<1>3. Streams(q)' = Streams(q)
  BY DEF Streams
<1>4. Restoring(q)'
  BY <1>2, <1>3 DEF Restoring, Running
<1> QED
  BY <1>1, <1>4

\* Nothing that the invariant speaks of changes.
LEMMA RestoreFrame ==
  ASSUME RestoreInv,
         UNCHANGED <<end, pos, channel, polled, restores, sync, signal, updating, store, first,
                     failed, early>>
  PROVE  RestoreInv'
<1>1. MoreTypes' /\ HandInv'
  BY DEF RestoreInv, MoreTypes, HandInv
<1>2. \A q \in Partitions : Bounded(q)' /\ Restoring(q)'
  BY OtherKept DEF RestoreInv, Sane, InHand
<1> QED
  BY <1>1, <1>2 DEF RestoreInv

\* The changelog grows.
LEMMA ProduceRestores ==
  ASSUME StoreTypes, RestoreInv, NEW p \in Partitions, Produce(p)
  PROVE  RestoreInv'
<1>1. /\ UNCHANGED <<pos, channel, polled, restores, sync, signal, updating, store, first, failed, early>>
      /\ end' = [end EXCEPT ![p] = end[p] + 1]
  BY DEF Produce, clientVars
<1>2. \A q \in Partitions : end[q] \in Nat /\ end'[q] \in Nat /\ end[q] <= end'[q]
  BY <1>1, ChangelogLength DEF StoreTypes, Positions
<1>3. MoreTypes'
  BY <1>1 DEF RestoreInv, MoreTypes
<1>4. HandInv'
  <2>1. polled = NoEvent \/ (polled.p \in Partitions /\ polled.ev \in Nat)
    BY ChangelogLength DEF StoreTypes, Positions
  <2> QED
    BY <2>1, <1>1, <1>2 DEF RestoreInv, HandInv
<1>5. ASSUME NEW q \in Partitions PROVE Bounded(q)' /\ Restoring(q)'
  <2>1. Bounded(q) /\ Restoring(q)
    BY DEF RestoreInv
  <2>2. Touched(end[q]) \subseteq Touched(end'[q])
    BY <1>2, TouchedGrows
  <2>3. Bounded(q)'
    <3>1. first[q] \in Nat /\ updating[q] \in Nat /\ channel[q] \in Seq(Nat)
      BY ChangelogLength DEF StoreTypes, RestoreInv, MoreTypes, Positions
    <3>2. \A i \in 1 .. Len(channel[q]) : channel[q][i] \in Nat
      BY <3>1
    <3>3. Touched(end[q])' = Touched(end'[q])
      BY DEF Touched
    <3> QED
      BY <2>1, <2>2, <3>1, <3>2, <3>3, <1>1, <1>2 DEF Bounded
  <2>4. Streams(q) \subseteq Streams(q)'
    BY <1>1, <1>2 DEF Streams
  <2>5. ASSUME NEW s, Stream(q, s) PROVE Stream(q, s)'
    BY <2>5, <1>1 DEF Stream, Target, At, Advances, Touched, Replayed, InHand
  <2>6. \A n \in first[q] .. end[q] : n \in first[q] .. end'[q] /\ Replayed(n)' = Replayed(n)
    BY <1>2, ChangelogLength DEF RestoreInv, MoreTypes, Positions, Replayed
  <2>7. Restoring(q)'
    BY <2>1, <2>4, <2>5, <2>6, <1>1 DEF Restoring, Running, Sane
  <2> QED
    BY <2>3, <2>7
<1> QED
  BY <1>3, <1>4, <1>5 DEF RestoreInv

\* The poll loop takes the next record, or the end of the partition, in hand.
LEMMA PollRestores ==
  ASSUME StoreTypes, RestoreInv, NEW p \in Partitions, Poll(p)
  PROVE  RestoreInv'
<1>1. /\ UNCHANGED <<end, channel, restores, sync, signal, updating, store, first, failed, early>>
      /\ polled = NoEvent
      /\ polled'.p = p /\ polled'.of = restores[p] /\ polled'.to = 0
  BY DEF Poll, history
<1>2. /\ pos[p] \in Nat /\ end[p] \in Positions /\ end[p] \in Nat /\ restores[p] \in Nat
      /\ pos[p] <= end[p] /\ first[p] \in Nat /\ first[p] <= end[p]
  BY ChangelogLength DEF StoreTypes, RestoreInv, MoreTypes, Bounded, Positions
<1>3. /\ \A q \in Partitions : q # p => pos'[q] = pos[q]
      /\ \/ /\ pos[p] < end[p] /\ pos'[p] = pos[p] + 1
            /\ polled'.ev = pos[p] + 1
         \/ /\ pos[p] = end[p] /\ pos'[p] = pos[p] /\ polled'.ev = PartitionEnd
  BY DEF Poll, StoreTypes
<1>4. polled'.ev <= end[p] /\ Advances(p, polled'.ev, pos[p], pos'[p])
  BY <1>2, <1>3 DEF Advances, PartitionEnd
<1>5. MoreTypes' /\ HandInv'
  BY <1>1, <1>2, <1>4 DEF RestoreInv, MoreTypes, HandInv
<1>6. ASSUME NEW q \in Partitions PROVE Bounded(q)' /\ Restoring(q)'
  <2>1. Bounded(q) /\ Restoring(q)
    BY DEF RestoreInv
  <2>2. CASE q # p
    BY <2>1, <2>2, <1>1, <1>3, OtherKept DEF Sane, InHand, NoEvent
  <2>3. CASE q = p
    <3>1. ~InHand(p) /\ polled' # NoEvent /\ InHand(p)'
      BY <1>1, <1>2 DEF InHand, NoEvent, Partitions
    <3>2. ASSUME NEW s, Stream(p, s) PROVE Stream(p, s)'
      <4>1. s[Len(channel[p])] = pos[p]
        BY <3>1, <3>2 DEF Stream
      <4> QED
        BY <4>1, <3>1, <3>2, <1>1, <1>4 DEF Stream, Target, At, Advances, Touched, Replayed
    <3>3. Streams(p)' = Streams(p)
      BY <1>1 DEF Streams
    <3>4. Restoring(p)'
      BY <2>1, <2>3, <3>2, <3>3, <1>1 DEF Restoring, Running, Sane
    <3>5. Bounded(p)'
      BY <2>1, <2>3, <1>1 DEF Bounded, Touched
    <3> QED
      BY <2>3, <3>4, <3>5
  <2> QED
    BY <2>2, <2>3
<1> QED
  BY <1>5, <1>6 DEF RestoreInv

\* The poll loop waits for room.
LEMMA WaitRestores ==
  ASSUME StoreTypes, RestoreInv, Wait
  PROVE  RestoreInv'
<1> DEFINE p == polled.p
<1>1. /\ UNCHANGED <<end, pos, channel, restores, sync, signal, updating, store, first, failed, early>>
      /\ polled # NoEvent /\ p \in Partitions /\ polled' = [polled EXCEPT !.to = restores[p]]
  BY DEF Wait, history, clientVars, StoreTypes
<1>2. polled.of \in Nat /\ restores[p] \in Nat /\ polled.of <= restores[p]
  BY <1>1 DEF RestoreInv, HandInv, StoreTypes
<1>3. /\ polled'.p = polled.p /\ polled'.ev = polled.ev /\ polled'.of = polled.of
  BY <1>1
<1>4. polled' # NoEvent
  BY <1>1, <1>3 DEF NoEvent, Partitions
<1>5. polled'.to \in {polled.to, restores[p]}
  BY <1>1
<1>6. MoreTypes' /\ HandInv'
  BY <1>1, <1>2, <1>3, <1>5 DEF RestoreInv, MoreTypes, HandInv
<1>7. \A q \in Partitions : Bounded(q)' /\ Restoring(q)'
  BY <1>1, <1>3, <1>4, OtherKept DEF RestoreInv, Sane, InHand
<1> QED
  BY <1>6, <1>7 DEF RestoreInv

\* The event in hand comes to the channel of the present restore.
LEMMA DeliverRestores ==
  ASSUME StoreTypes, RestoreInv, Deliver,
         NEW CONSTANT p, NEW CONSTANT e, p = polled.p, e = polled.ev
  PROVE  RestoreInv'
<1>1. /\ UNCHANGED <<end, pos, restores, sync, signal, updating, store, first, failed>>
      /\ polled # NoEvent /\ p \in Partitions /\ e \in Positions /\ polled' = NoEvent
      /\ channel' = [channel EXCEPT ![p] = Append(channel[p], e)]
      /\ early' = IF e = PartitionEnd /\ polled.of # restores[p] THEN early \cup {p} ELSE early
  BY DEF Deliver, clientVars, StoreTypes
<1>2. /\ channel[p] \in Seq(Positions) /\ Len(channel[p]) \in Nat
      /\ channel'[p] = Append(channel[p], e) /\ Len(channel'[p]) = Len(channel[p]) + 1
      /\ \A i \in 1 .. Len(channel[p]) : channel'[p][i] = channel[p][i]
      /\ channel'[p][Len(channel[p]) + 1] = e
  BY <1>1 DEF StoreTypes
<1>3. e <= end[p] /\ (polled.of # restores[p] => e <= first[p] /\ pos[p] = 0)
  BY <1>1 DEF RestoreInv, HandInv
<1>4. MoreTypes' /\ HandInv'
  BY <1>1 DEF RestoreInv, MoreTypes, HandInv
<1>5. ASSUME NEW q \in Partitions PROVE Bounded(q)' /\ Restoring(q)'
  <2>1. Bounded(q) /\ Restoring(q)
    BY DEF RestoreInv
  <2>2. CASE q # p
    BY <2>1, <2>2, <1>1, OtherKept DEF Sane, InHand, StoreTypes
  <2>3. CASE q = p
    <3>1. Bounded(p)'
      <4>1. \A i \in 1 .. (Len(channel[p]) + 1) : i = Len(channel[p]) + 1 \/ i \in 1 .. Len(channel[p])
        BY <1>2
      <4> QED
        BY <4>1, <2>1, <2>3, <1>1, <1>2, <1>3 DEF Bounded, Touched
    <3>2. ASSUME Sane(p)', NEW s \in Streams(p), Stream(p, s)
          PROVE  \E t \in Streams(p)' : Stream(p, t)'
      <4> DEFINE n == Len(channel[p])
      <4>1. pos[p] \in 0 .. end[p] /\ n \in Nat /\ end[p] \in Nat
        BY <1>1, <1>2, ChangelogLength DEF StoreTypes, Positions
      <4>2. s \in [0 .. n -> 0 .. end[p]]
        BY <3>2 DEF Streams
      <4>3. PICK t \in Streams(p)' : /\ t[n + 1] = pos[p]
                                     /\ \A i \in 0 .. n : t[i] = s[i]
        <5> DEFINE u == [i \in 0 .. (n + 1) |-> IF i = n + 1 THEN pos[p] ELSE s[i]]
        <5>1. u \in Streams(p)'
          BY <4>1, <4>2, <1>1, <1>2 DEF Streams
        <5>2. u[n + 1] = pos[p] /\ \A i \in 0 .. n : u[i] = s[i]
          BY <4>1
        <5> QED
          BY <5>1, <5>2
      <4>4. /\ t[0] = s[0] /\ t[n + 1] = pos[p] /\ t[n] = s[n]
            /\ \A i \in 1 .. n : t[i] = s[i] /\ t[i - 1] = s[i - 1]
        BY <4>1, <4>3
      <4>5. Advances(p, e, s[n], pos[p])
        <5>1. CASE polled.of = restores[p]
          BY <5>1, <3>2, <1>1 DEF Stream, InHand
        <5>2. CASE polled.of # restores[p]
          <6>1. e # PartitionEnd
            BY <5>2, <3>2, <1>1 DEF Sane
          <6>2. s[n] = pos[p]
            BY <5>2, <3>2 DEF Stream, InHand
          <6> QED
            BY <6>1, <6>2, <5>2, <1>3 DEF Advances
        <5> QED
          BY <5>1, <5>2
      <4>6. \A i \in 1 .. Len(channel'[p]) : Advances(p, channel'[p][i], t[i - 1], t[i])
        <5> SUFFICES ASSUME NEW i \in 1 .. (n + 1) PROVE Advances(p, channel'[p][i], t[i - 1], t[i])
          BY <1>2
        <5>1. CASE i = n + 1
          BY <5>1, <4>1, <4>4, <4>5, <1>2
        <5>2. CASE i # n + 1
          <6>1. i \in 1 .. n
            BY <5>2, <4>1
          <6> QED
            BY <6>1, <4>4, <3>2, <1>2 DEF Stream
        <5> QED
          BY <5>1, <5>2
      <4>7. ~InHand(p)'
        BY <1>1 DEF InHand
      <4>8. At(p, Target(p), t[0])' /\ (signal'[p] = "synced" => t[0] >= first'[p])
        BY <4>4, <3>2, <1>1 DEF Stream, At, Target, Touched, Replayed
      <4>9. Stream(p, t)'
        BY <4>4, <4>6, <4>7, <4>8, <1>1, <1>2 DEF Stream, Advances
      <4> QED
        BY <4>3, <4>9
    <3>3. Sane(p)' => Sane(p)
      BY <1>1 DEF Sane
    <3>4. Restoring(p)'
      BY <2>1, <2>3, <3>2, <3>3, <1>1 DEF Restoring, Running, Replayed
    <3> QED
      BY <2>3, <3>1, <3>4
  <2> QED
    BY <2>2, <2>3
<1> QED
  BY <1>4, <1>5 DEF RestoreInv

\* Nothing is being written before a restore begins.
LEMMA RestoreIdle ==
  ASSUME IndexInv, NEW p \in Partitions, sync[p] = "none"
  PROVE  updating[p] = 0
BY DEF IndexInv, Writers

\* A new restore reads from the first record; an event in hand is now an old one.
LEMMA RestoreRestores ==
  ASSUME StoreTypes, IndexInv, RestoreInv, NEW p \in Partitions, Restore(p)
  PROVE  RestoreInv'
<1>1. /\ UNCHANGED <<end, polled, updating>> /\ sync[p] = "none"
      /\ restores' = [restores EXCEPT ![p] = restores[p] + 1]
      /\ channel' = [channel EXCEPT ![p] = <<>>]
      /\ pos' = [pos EXCEPT ![p] = 0]
      /\ sync' = [sync EXCEPT ![p] = "syncing"] /\ signal' = [signal EXCEPT ![p] = "no"]
      /\ store' \in {store, [store EXCEPT ![p] = EmptyStore]}
      /\ first' = [first EXCEPT ![p] = end[p]]
      /\ failed' = failed \ {p} /\ early' = early \ {p}
  BY DEF Restore, Committed
<1>2. /\ restores'[p] = restores[p] + 1 /\ channel'[p] = <<>> /\ pos'[p] = 0
      /\ sync'[p] = "syncing" /\ signal'[p] = "no" /\ first'[p] = end[p]
      /\ end[p] \in Nat /\ end[p] \in Positions /\ restores[p] \in Nat
  BY <1>1, ChangelogLength DEF StoreTypes, RestoreInv, MoreTypes, Positions
<1>3. /\ \A q \in Partitions : q # p => store'[q] = store[q]
      /\ store'[p] \in {store[p], EmptyStore}
  <2>1. CASE store' = store
    BY <2>1
  <2>2. CASE store' = [store EXCEPT ![p] = EmptyStore]
    BY <2>2 DEF StoreTypes
  <2> QED
    BY <1>1, <2>1, <2>2
<1>4. MoreTypes'
  BY <1>1, <1>2 DEF RestoreInv, MoreTypes
<1>5. HandInv'
  <2> SUFFICES ASSUME polled # NoEvent PROVE HandInv'
    BY <1>1 DEF HandInv
  <2>1. CASE polled.p = p
    <3>1. polled.ev <= end[p] /\ polled.of \in Nat /\ polled.to \in Nat /\ polled.of <= restores[p]
          /\ (polled.to = 0 \/ (polled.of <= polled.to /\ polled.to <= restores[p]))
      BY <2>1 DEF RestoreInv, HandInv
    <3>2. polled.of <= restores[p] + 1 /\ (polled.to <= restores[p] => polled.to <= restores[p] + 1)
      BY <3>1, <1>2
    <3> QED
      BY <2>1, <3>1, <3>2, <1>1, <1>2 DEF HandInv
  <2>2. CASE polled.p # p
    <3>1. polled.p \in Partitions
      BY DEF StoreTypes
    <3>2. /\ restores'[polled.p] = restores[polled.p] /\ first'[polled.p] = first[polled.p]
          /\ pos'[polled.p] = pos[polled.p]
      BY <2>2, <3>1, <1>1 DEF StoreTypes, RestoreInv, MoreTypes
    <3> QED
      BY <3>2, <1>1 DEF RestoreInv, HandInv
  <2> QED
    BY <2>1, <2>2
<1>6. ASSUME NEW q \in Partitions PROVE Bounded(q)' /\ Restoring(q)'
  <2>1. Bounded(q) /\ Restoring(q)
    BY DEF RestoreInv
  <2>2. CASE q # p
    BY <2>1, <2>2, <1>1, <1>3, OtherKept DEF Sane, InHand, StoreTypes, RestoreInv, MoreTypes
  <2>3. CASE q = p
    <3>1. /\ updating[p] <= end[p]
          /\ \A k \in Keys : store'[p][k] # None => k \in Touched(end[p])
      BY <2>1, <2>3, <1>3 DEF Bounded, EmptyStore
    <3>2. Bounded(p)'
      BY <3>1, <1>1, <1>2 DEF Bounded, Touched
    <3>3. ~InHand(p)'
      <4>1. polled # NoEvent /\ polled.p = p => polled.of <= restores[p] /\ polled.of \in Nat
        BY DEF RestoreInv, HandInv
      <4> QED
        BY <4>1, <1>1, <1>2 DEF InHand
    <3>4. updating[p] = 0
      BY <1>1, RestoreIdle
    <3>5. PICK s \in [0 .. 0 -> 0 .. end[p]] : s[0] = 0
      <4>1. [i \in 0 .. 0 |-> 0] \in [0 .. 0 -> 0 .. end[p]] /\ [i \in 0 .. 0 |-> 0][0] = 0
        BY <1>2
      <4> QED
        BY <4>1
    <3>6. s \in Streams(p)'
      BY <1>1, <1>2 DEF Streams
    <3>7. At(p, Target(p), s[0])'
      BY <3>1, <3>4, <3>5, <1>1, <1>2, ReplayedNone DEF At, Target, Replayed, Touched
    <3>8. Stream(p, s)'
      BY <3>3, <3>5, <3>7, <1>2 DEF Stream
    <3>9. Restoring(p)'
      BY <3>6, <3>8, <1>2 DEF Restoring
    <3> QED
      BY <2>3, <3>2, <3>9
  <2> QED
    BY <2>2, <2>3
<1> QED
  BY <1>4, <1>5, <1>6 DEF RestoreInv

\* The syncer takes an event: the stream is shorter by it, and the store is to hold it.
LEMMA TakeStream ==
  ASSUME StoreTypes, RestoreInv, NEW p \in Partitions, Take(p), Sane(p),
         UNCHANGED <<end, pos, polled, restores, first>>,
         Target(p)' = IF Next1(p) = PartitionEnd THEN Target(p)
                      ELSE Write(Target(p), Changelog[Next1(p)]),
         signal'[p] # signal[p] => Next1(p) = PartitionEnd
  PROVE  \E t \in Streams(p)' : Stream(p, t)'
<1> DEFINE c == channel[p]
           e == Next1(p)
<1>1. /\ c \in Seq(Positions) /\ c # <<>> /\ channel' = [channel EXCEPT ![p] = Tail(c)]
      /\ updating[p] = 0 /\ Running(p)
  BY DEF Take, StoreTypes
<1>2. /\ Len(c) \in Nat \ {0} /\ channel'[p] = Tail(c) /\ Len(channel'[p]) = Len(c) - 1
      /\ \A i \in 1 .. (Len(c) - 1) : channel'[p][i] = c[i + 1]
      /\ e = c[1] /\ e \in Positions
  BY <1>1 DEF Next1, StoreTypes
<1>3. /\ first[p] \in Positions /\ end[p] \in Positions /\ first[p] \in Nat /\ end[p] \in Nat
      /\ Target(p) \in StoreType
  BY <1>1, ChangelogLength DEF RestoreInv, MoreTypes, StoreTypes, Positions, Target
<1>4. PICK s \in Streams(p) : Stream(p, s)
  BY <1>1 DEF RestoreInv, Restoring
<1>5. s \in [0 .. Len(c) -> 0 .. end[p]] /\ Advances(p, e, s[0], s[1])
  BY <1>2, <1>4 DEF Streams, Stream
<1>6. PICK t \in Streams(p)' : \A i \in 0 .. (Len(c) - 1) : t[i] = s[i + 1]
  <2> DEFINE u == [i \in 0 .. (Len(c) - 1) |-> s[i + 1]]
  <2>1. u \in [0 .. (Len(c) - 1) -> 0 .. end[p]]
    BY <1>2, <1>5
  <2>2. u \in Streams(p)'
    BY <2>1, <1>2 DEF Streams
  <2>3. \A i \in 0 .. (Len(c) - 1) : u[i] = s[i + 1]
    OBVIOUS
  <2> QED
    BY <2>2, <2>3
<1>7. t[0] = s[1] /\ t[Len(c) - 1] = s[Len(c)] /\ s[0] \in Nat /\ s[1] \in Nat /\ s[0] \in Positions
  BY <1>2, <1>3, <1>5, <1>6, ChangelogLength DEF Positions
<1>8. At(p, Target(p), s[0]) /\ (signal[p] = "synced" => s[0] >= first[p])
  BY <1>4 DEF Stream
<1>9. /\ At(p, Target(p)', t[0])
      /\ s[0] >= first[p] => t[0] >= first[p]
      /\ e = PartitionEnd => t[0] >= first[p]
  <2>1. CASE e = PartitionEnd
    BY <2>1, <1>5, <1>7, <1>8 DEF Advances
  <2>2. CASE e # PartitionEnd
    BY <2>2, <1>2, <1>3, <1>5, <1>7, <1>8, EventWritten DEF PartitionEnd
  <2> QED
    BY <2>1, <2>2
<1>10. At(p, Target(p), t[0])' /\ (signal'[p] = "synced" => t[0] >= first'[p])
  BY <1>8, <1>9 DEF At, Touched, Replayed
<1>11. \A i \in 1 .. Len(channel'[p]) : Advances(p, channel'[p][i], t[i - 1], t[i])
  <2> SUFFICES ASSUME NEW i \in 1 .. (Len(c) - 1)
               PROVE  Advances(p, channel'[p][i], t[i - 1], t[i])
    BY <1>2
  <2>1. t[i - 1] = s[i] /\ t[i] = s[i + 1] /\ channel'[p][i] = c[i + 1] /\ i + 1 \in 1 .. Len(c)
    <3>1. /\ i \in 0 .. (Len(c) - 1) /\ i - 1 \in 0 .. (Len(c) - 1) /\ (i - 1) + 1 = i
          /\ i + 1 \in 1 .. Len(c)
      BY <1>2
    <3>2. t[i - 1] = s[(i - 1) + 1] /\ t[i] = s[i + 1]
      BY <3>1, <1>6
    <3>3. channel'[p][i] = c[i + 1]
      BY <1>2
    <3> QED
      BY <3>1, <3>2, <3>3
  <2>2. Advances(p, c[i + 1], s[(i + 1) - 1], s[i + 1])
    <3>1. \A j \in 1 .. Len(c) : Advances(p, c[j], s[j - 1], s[j])
      BY <1>4 DEF Stream
    <3> QED
      BY <2>1, <3>1
  <2>3. (i + 1) - 1 = i
    OBVIOUS
  <2> QED
    BY <2>1, <2>2, <2>3
<1>12. IF InHand(p) THEN Advances(p, polled.ev, t[Len(channel'[p])], pos[p])
      ELSE t[Len(channel'[p])] = pos[p]
  BY <1>2, <1>4, <1>7 DEF Stream
<1>13. Stream(p, t)'
  BY <1>10, <1>11, <1>12 DEF Stream, InHand, Advances
<1> QED
  BY <1>13

\* A step that takes an event keeps the invariant if the store is to hold it, or
\* is marked as one that misses it.
LEMMA TakeRestores ==
  ASSUME StoreTypes, RestoreInv, NEW p \in Partitions, Take(p), MoreTypes',
         UNCHANGED <<end, pos, polled, restores, first, early>>,
         \A q \in Partitions : q # p =>
            /\ store'[q] = store[q] /\ updating'[q] = updating[q] /\ signal'[q] = signal[q]
            /\ sync'[q] = sync[q] /\ (q \in failed <=> q \in failed'),
         Running(p)', Sane(p)' => Sane(p),
         updating'[p] \in {0, Next1(p)},
         store'[p] = store[p] \/
           (Next1(p) # PartitionEnd /\ store'[p] = Write(store[p], Changelog[Next1(p)])),
         Sane(p)' => Target(p)' = IF Next1(p) = PartitionEnd THEN Target(p)
                                  ELSE Write(Target(p), Changelog[Next1(p)]),
         signal'[p] # signal[p] => Next1(p) = PartitionEnd
  PROVE  RestoreInv'
<1>1. HandInv'
  BY DEF RestoreInv, HandInv
<1>2. /\ channel[p] \in Seq(Positions) /\ channel[p] # <<>>
      /\ channel' = [channel EXCEPT ![p] = Tail(channel[p])]
  BY DEF Take, StoreTypes
<1>3. /\ channel'[p] = Tail(channel[p]) /\ Len(channel[p]) \in Nat \ {0}
      /\ \A i \in 1 .. Len(channel'[p]) : channel'[p][i] = channel[p][i + 1] /\ i + 1 \in 1 .. Len(channel[p])
      /\ Next1(p) = channel[p][1] /\ Next1(p) \in Positions /\ Next1(p) \in Nat
      /\ end[p] \in Nat
  BY <1>2, ChangelogLength DEF StoreTypes, Next1, Positions
<1>4. ASSUME NEW q \in Partitions PROVE Bounded(q)' /\ Restoring(q)'
  <2>1. Bounded(q) /\ Restoring(q)
    BY DEF RestoreInv
  <2>2. CASE q # p
    <3>1. channel'[q] = channel[q]
      BY <2>2, <1>2 DEF StoreTypes
    <3> QED
      BY <2>1, <2>2, <3>1, OtherKept DEF Sane, InHand
  <2>3. CASE q = p
    <3>1. Next1(p) <= end[p]
      BY <2>1, <2>3, <1>3 DEF Bounded
    <3>2. \A k \in Keys : store'[p][k] # None => k \in Touched(end[p])
      <4>1. CASE store'[p] = store[p]
        BY <4>1, <2>1, <2>3 DEF Bounded
      <4>2. CASE Next1(p) # PartitionEnd /\ store'[p] = Write(store[p], Changelog[Next1(p)])
        <5>1. Changelog[Next1(p)].key \in Touched(end[p])
          BY <4>2, <3>1, <1>3 DEF Touched, PartitionEnd
        <5>2. \A k \in Keys : k # Changelog[Next1(p)].key => store'[p][k] = store[p][k]
          <6>1. Changelog[Next1(p)] \in [key : Keys, val : Values \cup {None}]
            BY <4>2, <1>3, ChangelogRecord DEF PartitionEnd
          <6>2. store[p] \in StoreType
            BY DEF StoreTypes
          <6> QED
            BY <4>2, <6>1, <6>2, WriteType
        <5> QED
          BY <5>1, <5>2, <2>1, <2>3 DEF Bounded
      <4> QED
        BY <4>1, <4>2
    <3>3. Bounded(p)'
      BY <3>1, <3>2, <2>1, <2>3, <1>3 DEF Bounded, Touched
    <3>4. Sane(p)' => \E t \in Streams(p)' : Stream(p, t)'
      BY TakeStream
    <3>5. Restoring(p)'
      BY <3>4 DEF Restoring, Running
    <3> QED
      BY <2>3, <3>3, <3>5
  <2> QED
    BY <2>2, <2>3
<1> QED
  BY <1>1, <1>4 DEF RestoreInv

\* The events a syncer takes.
LEMMA SyncerTakes ==
  ASSUME StoreTypes, RestoreInv, NEW p \in Partitions,
         Synced(p) \/ Update(p) \/ UpdateIndexes(p) \/ UpdateFails(p)
  PROVE  RestoreInv'
<1>1. /\ Take(p) /\ updating[p] = 0 /\ Running(p)
      /\ UNCHANGED <<end, pos, polled, restores, first, early>>
  BY DEF Synced, Update, UpdateIndexes, UpdateFails, Take, clientVars
<1>2. Target(p) = store[p]
  BY <1>1 DEF Target
<1>3. CASE Synced(p)
  <2>1. /\ UNCHANGED <<store, updating, failed>> /\ Next1(p) = PartitionEnd
        /\ sync' = [sync EXCEPT ![p] = "live"] /\ signal' = [signal EXCEPT ![p] = "synced"]
    BY <1>3 DEF Synced
  <2>2. MoreTypes'
    BY <2>1, <1>1 DEF RestoreInv, MoreTypes
  <2> QED
    BY <1>1, <2>1, <2>2, TakeRestores DEF Running, StoreTypes, Sane, Target, RestoreInv, MoreTypes
<1>4. CASE Update(p)
  <2>1. /\ UNCHANGED <<sync, signal, updating, failed>> /\ Next1(p) # PartitionEnd
        /\ store' = [store EXCEPT ![p] = Write(store[p], Changelog[Next1(p)])]
    BY <1>4 DEF Update
  <2>2. MoreTypes'
    BY <2>1, <1>1 DEF RestoreInv, MoreTypes
  <2>3. store'[p] = Write(store[p], Changelog[Next1(p)]) /\ Target(p)' = store'[p]
    BY <2>1, <1>1 DEF StoreTypes, Target
  <2> QED
    BY <1>1, <1>2, <2>1, <2>2, <2>3, TakeRestores DEF Running, StoreTypes, Sane
<1>5. CASE UpdateIndexes(p)
  <2>1. /\ UNCHANGED <<sync, signal, store, failed>> /\ Next1(p) # PartitionEnd
        /\ updating' = [updating EXCEPT ![p] = Next1(p)]
    BY <1>5 DEF UpdateIndexes
  <2>2. MoreTypes'
    BY <2>1, <1>1 DEF RestoreInv, MoreTypes
  <2>3. updating'[p] = Next1(p) /\ Target(p)' = Write(store[p], Changelog[Next1(p)])
    BY <2>1, <1>1 DEF StoreTypes, Target, PartitionEnd
  <2> QED
    BY <1>1, <1>2, <2>1, <2>2, <2>3, TakeRestores DEF Running, StoreTypes, Sane
<1>6. CASE UpdateFails(p)
  <2>1. UNCHANGED <<sync, signal, updating, store>> /\ failed' = failed \cup {p}
    BY <1>6 DEF UpdateFails
  <2>2. MoreTypes' /\ ~Sane(p)'
    BY <2>1, <1>1 DEF RestoreInv, MoreTypes, Sane
  <2> QED
    BY <1>1, <2>1, <2>2, TakeRestores DEF Running
<1> QED
  BY <1>3, <1>4, <1>5, <1>6

\* The record whose indexes are written is written, or is not.
LEMMA SetRestores ==
  ASSUME StoreInv, RestoreInv, NEW p \in Partitions, SetIndexed(p) \/ SetFails(p)
  PROVE  RestoreInv'
<1>1. /\ UNCHANGED <<end, pos, polled, channel, restores, sync, signal, first, early>>
      /\ updating[p] # 0 /\ updating' = [updating EXCEPT ![p] = 0]
      /\ failed' = failed \/ failed' = failed \cup {p}
  BY DEF SetIndexed, SetFails, clientVars, history
<1>2. /\ updating[p] \in Positions /\ updating[p] \in Nat /\ end[p] \in Nat /\ sync[p] = "live"
      /\ updating'[p] = 0
  BY <1>1, ChangelogLength DEF StoreInv, StoreTypes, IndexInv, Writers, Positions
<1>3. /\ \A q \in Partitions : q # p => store'[q] = store[q]
      /\ store'[p] = store[p] \/ store'[p] = Write(store[p], Changelog[updating[p]])
      /\ failed' = failed => store'[p] = Write(store[p], Changelog[updating[p]])
                             \/ p \in failed
  BY DEF SetIndexed, SetFails, StoreInv, StoreTypes
<1>4. MoreTypes' /\ HandInv'
  BY <1>1 DEF RestoreInv, MoreTypes, HandInv
<1>5. ASSUME NEW q \in Partitions PROVE Bounded(q)' /\ Restoring(q)'
  <2>1. Bounded(q) /\ Restoring(q)
    BY DEF RestoreInv
  <2>2. CASE q # p
    BY <2>1, <2>2, <1>1, <1>3, OtherKept DEF Sane, InHand, StoreInv, StoreTypes
  <2>3. CASE q = p
    <3>1. \A k \in Keys : store'[p][k] # None => k \in Touched(end[p])
      <4>1. Changelog[updating[p]].key \in Touched(end[p])
        BY <2>1, <2>3, <1>1, <1>2 DEF Bounded, Touched
      <4>2. \A k \in Keys : k # Changelog[updating[p]].key =>
               Write(store[p], Changelog[updating[p]])[k] = store[p][k]
        <5>1. Changelog[updating[p]] \in [key : Keys, val : Values \cup {None}]
          BY <1>1, <1>2, ChangelogRecord
        <5>2. store[p] \in StoreType
          BY DEF StoreInv, StoreTypes
        <5> QED
          BY <5>1, <5>2, WriteType
      <4> QED
        BY <4>1, <4>2, <2>1, <2>3, <1>3 DEF Bounded
    <3>2. Bounded(p)'
      BY <3>1, <2>1, <2>3, <1>1, <1>2 DEF Bounded, Touched
    <3>3. ASSUME Sane(p)', NEW s \in Streams(p), Stream(p, s) PROVE Stream(p, s)' /\ s \in Streams(p)'
      <4>1. failed' = failed /\ p \notin failed
        BY <3>3, <1>1 DEF Sane
      <4>2. Target(p)' = Target(p)
        BY <4>1, <1>1, <1>2, <1>3 DEF Target
      <4>3. At(p, Target(p), s[0])'
        BY <3>3, <4>2, <1>1 DEF Stream, At, Touched, Replayed
      <4> QED
        BY <3>3, <4>3, <1>1 DEF Stream, Streams, Advances, InHand
    <3>4. Sane(p)' => Sane(p)
      BY <1>1 DEF Sane
    <3>5. Restoring(p)'
      BY <2>1, <2>3, <3>3, <3>4, <1>1, <1>2 DEF Restoring, Running
    <3> QED
      BY <2>3, <3>2, <3>5
  <2> QED
    BY <2>2, <2>3
<1> QED
  BY <1>4, <1>5 DEF RestoreInv

\* A syncer that was synced and stops leaves a complete store.
LEMMA StopRestores ==
  ASSUME StoreTypes, RestoreInv, NEW p \in Partitions,
         SyncerStops(p) \/ SyncerStopped(p) \/ Remove(p)
  PROVE  RestoreInv'
<1>1. UNCHANGED <<end, pos, polled, channel, restores, updating, store, first, failed, early>>
  BY DEF SyncerStops, SyncerStopped, Remove, clientVars, history
<1>2. /\ signal' \in [Partitions -> {"no", "synced", "ended"}]
      /\ \A q \in Partitions : q # p => signal'[q] = signal[q] /\ sync'[q] = sync[q]
      /\ signal'[p] = "synced" => signal[p] = "synced"
  BY DEF SyncerStops, SyncerStopped, Remove, RestoreInv, MoreTypes, StoreTypes
<1>3. MoreTypes' /\ HandInv'
  BY <1>1, <1>2 DEF RestoreInv, MoreTypes, HandInv
<1>4. ASSUME NEW q \in Partitions PROVE Bounded(q)' /\ Restoring(q)'
  <2>1. Bounded(q) /\ Restoring(q)
    BY DEF RestoreInv
  <2>2. CASE q # p
    BY <2>1, <2>2, <1>1, <1>2, OtherKept DEF Sane, InHand
  <2>3. CASE q = p
    <3>1. Bounded(p)'
      BY <2>1, <2>3, <1>1 DEF Bounded, Touched
    <3>2. CASE SyncerStops(p)
      <4>1. Running(p) /\ updating[p] = 0 /\ sync'[p] = "closing" /\ signal' = signal
        BY <3>2 DEF SyncerStops, StoreTypes
      <4>2. ASSUME signal[p] = "synced", Sane(p)
            PROVE  \E n \in first[p] .. end[p] : store[p] = Replayed(n)
        <5>1. PICK s \in Streams(p) : Stream(p, s)
          BY <4>1, <4>2, <2>1, <2>3 DEF Restoring
        <5>2. /\ Len(channel[p]) \in Nat /\ end[p] \in Nat /\ first[p] \in Nat
              /\ store[p] \in StoreType
          BY ChangelogLength DEF StoreTypes, RestoreInv, MoreTypes, Positions
        <5>3. s[0] \in 0 .. end[p] /\ s[0] >= first[p] /\ At(p, store[p], s[0])
          BY <5>1, <5>2, <4>1, <4>2 DEF Streams, Stream, Target
        <5>4. store[p] = Replayed(s[0])
          BY <5>2, <5>3, AtComplete
        <5> QED
          BY <5>2, <5>3, <5>4
      <4> QED
        BY <4>1, <4>2, <3>1, <2>3, <1>1 DEF Restoring, Running, Sane, Replayed
    <3>3. CASE SyncerStopped(p)
      <4>1. sync[p] = "closing" /\ sync'[p] = "stopped"
        BY <3>3 DEF SyncerStopped, StoreTypes
      <4> QED
        BY <4>1, <3>1, <2>1, <2>3, <1>1, <1>2 DEF Restoring, Running, Sane, Replayed
    <3>4. CASE Remove(p)
      <4>1. sync'[p] = "none"
        BY <3>4 DEF Remove, StoreTypes
      <4> QED
        BY <4>1, <3>1, <2>3 DEF Restoring, Running
    <3> QED
      BY <3>2, <3>3, <3>4
  <2> QED
    BY <2>2, <2>3
<1> QED
  BY <1>3, <1>4 DEF RestoreInv

-----------------------------------------------------------------------------
(* The promise.                                                            *)

\* Nothing has begun.
LEMMA RestoreBegins == Init => RestoreInv
<1> SUFFICES ASSUME Init PROVE RestoreInv
  OBVIOUS
<1> USE DEF Init, RestoreInit, Each
<1>0. end \in [Partitions -> 0 .. Len(Changelog)]
  BY StoreRestoreAssumption DEF StoreRestoreAssumption
<1>1. MoreTypes /\ HandInv
  BY ChangelogLength DEF MoreTypes, HandInv, Positions
<1>2. ASSUME NEW p \in Partitions PROVE Bounded(p) /\ Restoring(p)
  <2>1. first[p] = 0 /\ updating[p] = 0 /\ end[p] \in Nat /\ channel[p] = <<>>
        /\ store[p] = EmptyStore /\ sync[p] = "none"
    BY <1>0, ChangelogLength
  <2> QED
    BY <2>1 DEF Bounded, Restoring, Running, EmptyStore
<1> QED
  BY <1>1, <1>2 DEF RestoreInv

\* Every step keeps the invariant.
LEMMA RestoreNext == ASSUME StoreInv, RestoreInv, [Next]_vars PROVE RestoreInv'
<1>1. StoreTypes /\ IndexInv
  BY DEF StoreInv
<1>2. CASE RestoreStep
  <2>1. CASE Rebuild \/ Stop
    BY <2>1, RestoreFrame DEF Rebuild, RebuildStart, RebuildKey, RebuildEnd, Stop, clientVars, history
  <2>2. ASSUME NEW p \in Partitions, CloseStore(p) PROVE RestoreInv'
    BY <2>2, RestoreFrame DEF CloseStore, clientVars, history
  <2>3. CASE PollLoop
    BY <2>3, <1>1, PollRestores, WaitRestores, DeliverRestores DEF PollLoop
  <2> QED
    BY <1>1, <1>2, <2>1, <2>2, <2>3, ProduceRestores, RestoreRestores, SyncerTakes, SetRestores,
       StopRestores DEF RestoreStep, Syncer
<1>3. CASE Query \/ Register \/ UNCHANGED vars
  BY <1>3, RestoreFrame DEF Query, Register, Unknown, RequestAll, Complete, Request, RequestIndex, Get,
     OpenIterator, GetClosed, FetchIndexed, vars, restoreVars, clientVars, history
<1> QED
  BY <1>2, <1>3 DEF Next

\* A store whose partition end was signalled holds its changelog, outside the
\* exceptions that SyncedIsComplete names.
LEMMA SyncedComplete == ASSUME StoreInv, RestoreInv PROVE SyncedIsComplete
<1> SUFFICES ASSUME NEW p \in Partitions, signal[p] = "synced", sync[p] # "none",
                    updating[p] = 0, Sane(p)
             PROVE  \E n \in first[p] .. end[p] : store[p] = Replayed(n)
  BY DEF SyncedIsComplete, Sane
<1>1. CASE Running(p)
  <2>1. PICK s \in Streams(p) : Stream(p, s)
    BY <1>1 DEF RestoreInv, Restoring
  <2>2. /\ Len(channel[p]) \in Nat /\ end[p] \in Nat /\ first[p] \in Nat
        /\ store[p] \in StoreType
    BY ChangelogLength DEF StoreInv, StoreTypes, RestoreInv, MoreTypes, Positions
  <2>3. s[0] \in 0 .. end[p] /\ s[0] >= first[p] /\ At(p, store[p], s[0])
    BY <2>1, <2>2 DEF Streams, Stream, Target
  <2>4. store[p] = Replayed(s[0])
    BY <2>2, <2>3, AtComplete
  <2> QED
    BY <2>2, <2>3, <2>4
<1>2. CASE ~Running(p)
  BY <1>2 DEF Running, StoreInv, StoreTypes, RestoreInv, Restoring
<1> QED
  BY <1>1, <1>2

\* For every changelog, channel size and number of partitions and restores, a
\* restore that was told of the end of its partition has replayed the changelog
\* (changelogSyncer.Sync over partitionConsumer.ConsumePartition), whatever an
\* earlier life left in the store and the poll loop had in hand.
THEOREM SyncedIsCompleteHolds == Spec => []SyncedIsComplete
<1>1. StoreInv /\ RestoreInv /\ [Next]_vars => RestoreInv'
  BY RestoreNext
<1>2. StoreInv /\ RestoreInv => SyncedIsComplete
  BY SyncedComplete
<1> QED
  BY <1>1, <1>2, RestoreBegins, StoreInvariant, PTL DEF Spec
=============================================================================
