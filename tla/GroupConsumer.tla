--------------------------- MODULE GroupConsumer ---------------------------
(***************************************************************************)
(* The librdkafka group consumer (kafka/adaptors/librd/group_consumer.go)  *)
(* with the rebalance handler it calls (streams/stream_consumer_instance.go) *)
(* over the task manager.                                                  *)
(*                                                                         *)
(* Goroutines: the poll loop of every instance (pc), which also runs the   *)
(* rebalance callbacks, and one Consume per claimed partition, which feeds *)
(* the records of the claim's channel to the task it found when it         *)
(* started (claim: 0 before the lookup, then whose task).                  *)
(***************************************************************************)
EXTENDS TaskManager

CONSTANTS
  ChanCap,     \* capacity of a claim's channel (10 in the code)
  MaxFaults,   \* bound: crashes of a process and evictions
  MaxStops     \* bound: instances told to stop

ASSUME GroupConsumerAssumption == ChanCap \in Nat \ {0} /\ {MaxFaults, MaxStops} \subseteq Nat

VARIABLES
  pc,       \* the poll loop
  stopping, \* the stop signal: "no", "sent", "seen" (shutdownOnce)
  current,  \* currentAssignment
  held,     \* the partitions assigned to the consumer
  pos,      \* the consumer's fetch position
  chan,     \* the claims' channels, NoChan when there is none
  claim,    \* the Consume goroutines, NoClaim when there is none
  sending,  \* the partition whose record the poll loop sends
  crashes

consumerVars == <<pc, stopping, current, held, pos, chan, claim, sending, crashes>>
vars == <<brokerVars, process, memberGen, managerVars, slipped, consumerVars>>

NoChan == <<0>>
NoClaim == NumInstances + 1
Up == {"poll", "send", "assign", "revoke", "close"}

TypeOK ==
  /\ pc \in [Instances -> Up \cup {"new", "stopped", "dead"}]
  /\ stopping \in [Instances -> {"no", "sent", "seen"}]
  /\ current \in [Instances -> SUBSET Tasks] /\ held \in [Instances -> SUBSET Tasks]
  /\ claim \in [Instances -> [Tasks -> 0 .. NoClaim]]
  /\ work \in [Instances -> [Tasks -> {"none", "remove", "removing", "add", "adding",
                                       "restore", "init", "done"}]]
  /\ \A i \in Instances, t \in Tasks : chan[i][t] = NoChan \/ Len(chan[i][t]) <= ChanCap

Init ==
  /\ BrokerInit /\ ManagerInit
  /\ pc = [i \in Instances |-> "new"]
  /\ stopping = [i \in Instances |-> "no"]
  /\ current = [i \in Instances |-> {}] /\ held = [i \in Instances |-> {}]
  /\ pos = [i \in Instances |-> [t \in Tasks |-> 0]]
  /\ chan = [i \in Instances |-> [t \in Tasks |-> NoChan]]
  /\ claim = [i \in Instances |-> [t \in Tasks |-> NoClaim]]
  /\ sending = [i \in Instances |-> 0]
  /\ crashes = 0

PcTo(i, s) == pc' = [pc EXCEPT ![i] = s]
\* the goroutines of a callback, one per task of the assignment ts
StartWork(i, ts, w) == work' = [work EXCEPT ![i] = [t \in Tasks |-> IF t \in ts THEN w ELSE "none"]]
WorkDone(i) == \A t \in Tasks : work[i][t] \in {"none", "done"}
managerIdle == <<process, task, manager, victim, slipped>>

\* groupConsumer.Subscribe; a member that was evicted or has revoked all
\* joins from its poll loop
Subscribe(i) ==
  /\ pc[i] \in {"new", "poll"} /\ stopping[i] = "no"
  /\ i \notin members /\ held[i] = {}
  /\ Join(i) /\ PcTo(i, "poll")
  /\ UNCHANGED <<epoch, outputs, committed, memberGen, managerIdle, work, stopping,
                 current, held, pos, chan, claim, sending, crashes>>

\* groupConsumer.Unsubscribe
Unsubscribe(i) ==
  /\ pc[i] \in Up /\ stopping[i] = "no"
  /\ Cardinality({j \in Instances : stopping[j] # "no"}) < MaxStops
  /\ stopping' = [stopping EXCEPT ![i] = "sent"]
  /\ UNCHANGED <<brokerVars, memberGen, managerIdle, work, pc, current, held, pos,
                 chan, claim, sending, crashes>>

\* rebalance, AssignedPartitions: assign calls OnPartitionAssigned
AssignedPartitions(i) ==
  /\ pc[i] = "poll" /\ stopping[i] # "sent"
  /\ phase = "stable" /\ i \in members /\ memberGen[i] < gen /\ held[i] = {}
  /\ memberGen' = [memberGen EXCEPT ![i] = gen]
  /\ current' = [current EXCEPT ![i] = target[i]]
  /\ StartWork(i, target[i], "add")
  /\ PcTo(i, "assign")
  /\ UNCHANGED <<brokerVars, managerIdle, stopping, held, pos, chan, claim, sending, crashes>>

\* the handler is done: channels, Consume goroutines and c.Assign, which
\* fetches the committed offsets (the sources' default, OffsetStored)
Assign(i) ==
  /\ pc[i] = "assign" /\ WorkDone(i)
  /\ held' = [held EXCEPT ![i] = current[i]]
  /\ pos' = [pos EXCEPT ![i] = committed]
  /\ chan' = [chan EXCEPT ![i] = [t \in Tasks |-> IF t \in current[i] THEN <<>> ELSE @[t]]]
  /\ claim' = [claim EXCEPT ![i] = [t \in Tasks |-> IF t \in current[i] THEN 0 ELSE @[t]]]
  /\ PcTo(i, "poll")
  /\ UNCHANGED <<brokerVars, memberGen, managerIdle, work, stopping, current, sending, crashes>>

\* consumeMessages: a record of an assigned partition, whose channel exists or
\* the loop panics; while the channel is full the loop serves nothing else
Message(i, t) ==
  /\ pc[i] = "poll" /\ stopping[i] # "sent"
  /\ t \in held[i] /\ pos[i][t] < NumRecords /\ chan[i][t] # NoChan
  /\ pos' = [pos EXCEPT ![i][t] = @ + 1]
  /\ IF Len(chan[i][t]) < ChanCap
     THEN /\ chan' = [chan EXCEPT ![i][t] = Append(@, pos[i][t] + 1)]
          /\ UNCHANGED <<sending, pc>>
     ELSE /\ sending' = [sending EXCEPT ![i] = t] /\ PcTo(i, "send")
          /\ UNCHANGED chan
  /\ UNCHANGED <<brokerVars, memberGen, managerIdle, work, stopping, current, held,
                 claim, crashes>>

\* Mutant: the channel grows.
SendUnbounded(i) ==
  LET t == sending[i] IN
  /\ pc[i] = "send"
  /\ chan' = [chan EXCEPT ![i][t] = Append(@, pos[i][t])]
  /\ sending' = [sending EXCEPT ![i] = 0]
  /\ PcTo(i, "poll")
  /\ UNCHANGED <<brokerVars, memberGen, managerIdle, work, stopping, current, held,
                 pos, claim, crashes>>
\* a reader has made room
Send(i) ==
  LET t == sending[i] IN
  /\ pc[i] = "send" /\ Len(chan[i][t]) < ChanCap
  /\ chan' = [chan EXCEPT ![i][t] = Append(@, pos[i][t])]
  /\ sending' = [sending EXCEPT ![i] = 0]
  /\ PcTo(i, "poll")
  /\ UNCHANGED <<brokerVars, memberGen, managerIdle, work, stopping, current, held,
                 pos, claim, crashes>>

\* rebalance, RevokedPartitions, also of a lost assignment (OnLost only logs):
\* OnPartitionRevoked removes the tasks of the current assignment
RevokedPartitions(i) ==
  /\ pc[i] = "poll" /\ stopping[i] # "sent" /\ held[i] # {}
  /\ i \notin members \/ (phase = "preparing" /\ i \notin rejoined)
  /\ StartWork(i, current[i], "remove")
  /\ PcTo(i, "revoke")
  /\ UNCHANGED <<brokerVars, memberGen, managerIdle, stopping, current, held, pos,
                 chan, claim, sending, crashes>>

\* a member without partitions takes part in the rebalance at once
RejoinIdle(i) ==
  /\ pc[i] = "poll" /\ stopping[i] # "sent" /\ held[i] = {}
  /\ phase = "preparing" /\ i \in members \ rejoined
  /\ Rejoin(i)
  /\ UNCHANGED <<epoch, outputs, committed, memberGen, managerIdle, work, consumerVars>>

\* the loop sees the stop signal between two polls; Close revokes what is held
StopSeen(i) ==
  /\ pc[i] = "poll" /\ stopping[i] = "sent"
  /\ stopping' = [stopping EXCEPT ![i] = "seen"]
  /\ StartWork(i, IF held[i] = {} THEN {} ELSE current[i], "remove")
  /\ PcTo(i, "close")
  /\ UNCHANGED <<brokerVars, memberGen, managerIdle, current, held, pos, chan, claim,
                 sending, crashes>>

\* Mutant: OnPartitionRevoked does not wait for its goroutines.
RevokedEarly(i) ==
  /\ pc[i] \in {"revoke", "close"}
  /\ held' = [held EXCEPT ![i] = {}]
  /\ chan' = [chan EXCEPT ![i] = [t \in Tasks |-> IF t \in held[i] THEN NoChan ELSE @[t]]]
  /\ claim' = [claim EXCEPT ![i] = [t \in Tasks |-> IF t \in held[i] THEN NoClaim ELSE @[t]]]
  /\ pos' = [pos EXCEPT ![i] = [t \in Tasks |-> 0]]
  /\ IF pc[i] = "close"
     THEN PcTo(i, "stopped") /\ Leave({i})
     ELSE PcTo(i, "poll") /\ Rejoin(i)
  /\ UNCHANGED <<epoch, outputs, committed, memberGen, managerIdle, work, stopping,
                 current, sending, crashes>>

\* revoke: Unassign and close the channels; then back to polling, or Close
\* returns and the member leaves
Revoked(i) ==
  /\ pc[i] \in {"revoke", "close"} /\ WorkDone(i)
  /\ held' = [held EXCEPT ![i] = {}]
  /\ chan' = [chan EXCEPT ![i] = [t \in Tasks |-> IF t \in held[i] THEN NoChan ELSE @[t]]]
  /\ claim' = [claim EXCEPT ![i] = [t \in Tasks |-> IF t \in held[i] THEN NoClaim ELSE @[t]]]
  /\ pos' = [pos EXCEPT ![i] = [t \in Tasks |-> 0]]
  /\ IF pc[i] = "close"
     THEN PcTo(i, "stopped") /\ Leave({i})
     ELSE PcTo(i, "poll") /\ Rejoin(i)
  /\ UNCHANGED <<epoch, outputs, committed, memberGen, managerIdle, work, stopping,
                 current, sending, crashes>>

\* Consume: the task is looked up once; a missing one shuts the consumer down
Consume(i, t) ==
  /\ claim[i][t] = 0
  /\ IF Stored(i, t) = 0
     THEN /\ claim' = [claim EXCEPT ![i][t] = NoClaim]
          /\ stopping' = [stopping EXCEPT ![i] = IF @ = "no" THEN "sent" ELSE @]
     ELSE /\ claim' = [claim EXCEPT ![i][t] = Stored(i, t)]
          /\ UNCHANGED stopping
  /\ UNCHANGED <<brokerVars, memberGen, managerIdle, work, pc, current, held, pos, chan,
                 sending, crashes>>

\* task.Start passes a record on and the loop of the task processes it
Process(i, t) ==
  LET o == claim[i][t] IN
  /\ o \in Instances /\ chan[i][t] \notin {NoChan, <<>>}
  /\ task[o][t].st = "running" /\ ~task[o][t].closing /\ ~task[o][t].sent
  /\ task' = [task EXCEPT ![o][t].batch = Append(@, Head(chan[i][t]))]
  /\ chan' = [chan EXCEPT ![i][t] = Tail(@)]
  /\ UNCHANGED <<brokerVars, process, memberGen, manager, work, victim, slipped, pc,
                 stopping, current, held, pos, claim, sending, crashes>>

\* task.Start returns when its task stops, and nobody reads the channel
ClaimEnds(i, t) ==
  /\ claim[i][t] \in Instances /\ task[claim[i][t]][t].closing
  /\ claim' = [claim EXCEPT ![i][t] = NoClaim]
  /\ UNCHANGED <<brokerVars, memberGen, managerIdle, work, pc, stopping, current, held,
                 pos, chan, sending, crashes>>

\* what a process that ends leaves: transactions that nobody commits, members
\* that time out
Gone(p, s) ==
  LET I == {i \in Instances : process[i] = p}
      Reset(f, v) == [i \in Instances |-> IF i \in I THEN v ELSE f[i]]
      None(v) == [t \in Tasks |-> v]
  IN
  /\ Leave(I)
  /\ pc' = [i \in Instances |-> IF i \notin I THEN pc[i]
                                ELSE IF pc[i] = "stopped" THEN "stopped" ELSE s]
  /\ task' = Reset(task, None(NoTask))
  /\ manager' = [manager EXCEPT ![p] = None(0)]
  /\ work' = Reset(work, None("none")) /\ victim' = Reset(victim, None(0))
  /\ stopping' = Reset(stopping, "no") /\ sending' = Reset(sending, 0)
  /\ current' = Reset(current, {}) /\ held' = Reset(held, {})
  /\ pos' = Reset(pos, None(0)) /\ chan' = Reset(chan, None(NoChan))
  /\ claim' = Reset(claim, None(NoClaim))
  /\ UNCHANGED <<epoch, outputs, committed, process, memberGen, slipped>>

Crash(p) ==
  /\ crashes + evictions < MaxFaults /\ \E i \in Instances : process[i] = p /\ pc[i] \in Up
  /\ crashes' = crashes + 1 /\ Gone(p, "new")

\* OnPartitionAssigned panics when a task it added is no longer there
InitPanics(i, t) ==
  /\ work[i][t] = "init" /\ Stored(i, t) = 0
  /\ \A u \in Tasks : work[i][u] \in {"none", "init", "done"}
  /\ Gone(process[i], "dead") /\ UNCHANGED crashes

Evict(i) ==
  /\ crashes + evictions < MaxFaults /\ EvictMember(i)
  /\ UNCHANGED <<epoch, outputs, committed, memberGen, managerIdle, work, consumerVars>>
Sync == SyncGroup /\ UNCHANGED <<epoch, outputs, committed, memberGen, managerIdle, work,
                                 consumerVars>>

\* what the goroutines of instance i do
PollLoop(i) ==
  \/ Subscribe(i) \/ AssignedPartitions(i) \/ Assign(i) \/ Send(i)
  \/ RevokedPartitions(i) \/ RejoinIdle(i) \/ StopSeen(i) \/ Revoked(i)
  \/ \E t \in Tasks : Message(i, t)
Claims(i, t) == Consume(i, t) \/ Process(i, t) \/ ClaimEnds(i, t) \/ InitPanics(i, t)
Manager(i, t) == TaskStep(i, t) /\ UNCHANGED consumerVars
Instance(i) == PollLoop(i) \/ \E t \in Tasks : Claims(i, t) \/ Manager(i, t)

Next ==
  \/ Sync
  \/ \E i \in Instances : Instance(i) \/ Unsubscribe(i) \/ Evict(i) \/ Crash(i)

\* an instance that can step does, as does the coordinator; nobody has to
\* unsubscribe, and evictions and crashes may never come
Spec ==
  Init /\ [][Next]_vars /\ WF_vars(Sync) /\ \A i \in Instances : WF_vars(Instance(i))

-----------------------------------------------------------------------------
Evicted == evictions > 0
Shared(i) == \E j \in Instances \ {i} : process[j] = process[i]
\* instance i may commit for its tasks
Owner(i) == pc[i] = "poll" /\ ValidMember(i, memberGen[i])

\* Whatever crashed, stopped or was evicted, the output of every record up to
\* the committed offset is committed once and in order: the task is fenced
\* (InitTask) before the new owner fetches its offsets (Assign).  The exception
\* is a process whose instances share the map of one task manager: a callback of
\* the evicted instance that comes late finds, and feeds, the other one's task.
ExactlyOnceOutput ==
  \A t \in Tasks :
    \/ outputs[t] = [k \in 1 .. committed[t] |-> k]
    \/ \E i \in Instances : Evicted /\ Shared(i)

\* A task that processes records under a valid membership has a store that holds
\* every committed change, except for what an older owner committed between
\* the restore (addTask) and the fence (Init), and, as above, for tasks that late
\* callbacks deleted from the map of a shared manager: they run on unknown to it.
OwnerStoreComplete ==
  \A i \in Instances : \A t \in held[i] \cap Tasks :
    /\ Owner(i) /\ ~(Evicted /\ Shared(i))
    /\ task[i][t].st = "running" /\ task[i][t].epoch = epoch[t]
    => 1 .. committed[t] \subseteq task[i][t].store \/ <<i, t>> \in slipped

\* The records of an assigned partition reach a running task that this
\* instance added and the manager still holds, unless a member was evicted and
\* the late callbacks of another instance of the process took the task away.
ClaimsHaveTheirTask ==
  \A i \in Instances : \A t \in held[i] :
    Owner(i) /\ phase = "stable" /\ stopping[i] = "no" /\ ~(Evicted /\ Shared(i))
    => /\ claim[i][t] \in {0, i}
       /\ Stored(i, t) = i /\ task[i][t].st = "running" /\ ~task[i][t].closing

\* Unsubscribe ends the poll loop: no callback waits for ever and no send to a
\* channel stays blocked, unless an evicted instance lost its tasks to another
\* instance of its process.
StopReturns ==
  \A i \in Instances :
    stopping[i] = "sent" ~> \/ pc[i] \notin Up \/ stopping[i] = "no"
                            \/ Evicted /\ Shared(i)
                            \/ \E t \in Tasks : epoch[t] = MaxEpoch  \* the bound
=============================================================================
