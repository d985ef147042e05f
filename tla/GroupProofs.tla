---------------------------- MODULE GroupProofs ----------------------------
(***************************************************************************)
(* Proofs about the consumer group, for any number of instances, tasks,    *)
(* records, rebalances, crashes and evictions.                             *)
(***************************************************************************)
EXTENDS GroupInv, FiniteSetTheorems, SequenceTheorems, TLAPS

-----------------------------------------------------------------------------
(* Names and shares.                                                       *)

\* Instances have numbers; 0 and NoClaim are nobody.
LEMMA Names ==
  /\ NumInstances \in Nat \ {0} /\ NumTasks \in Nat \ {0}
  /\ Instances \subseteq Nat /\ 0 \notin Instances /\ 0 \notin Tasks
  /\ NoClaim \notin Instances /\ NoClaim # 0
  /\ Instances \cup {0, NoClaim} \subseteq 0 .. NoClaim
BY GroupBrokerAssumption DEF Instances, Tasks, NoClaim

\* A member that comes after another one has a higher rank.
LEMMA RankGrows ==
  ASSUME NEW m \in SUBSET Instances, NEW i \in m, NEW j \in m, i < j
  PROVE  Cardinality({k \in m : k < i}) # Cardinality({k \in m : k < j})
<1> DEFINE R(n) == {k \in m : k < n}
<1>1. IsFiniteSet(Instances)
  BY Names, FS_Interval DEF Instances
<1>2. IsFiniteSet(R(j))
  <2>1. R(j) \in SUBSET Instances
    OBVIOUS
  <2> HIDE DEF R
  <2> QED
    BY <1>1, <2>1, FS_Subset
<1>3. R(i) \subseteq R(j)
  <2> SUFFICES ASSUME NEW k \in m, k < i PROVE k < j
    OBVIOUS
  <2> QED
    BY Names
<1>4. i \in R(j) /\ i \notin R(i)
  BY Names
<1>5. R(i) # R(j)
  BY <1>4
<1> HIDE DEF R
<1>6. Cardinality(R(i)) # Cardinality(R(j))
  BY <1>2, <1>3, <1>5, FS_Subset
<1> QED
  BY <1>6, <1>1 DEF R

\* No partition is given to two members.
LEMMA ShareDisjoint ==
  ASSUME NEW m \in SUBSET Instances
  PROVE  /\ Share(m) \in [Instances -> SUBSET Tasks]
         /\ \A i, j \in Instances : i # j => Share(m)[i] \cap Share(m)[j] = {}
<1>1. Share(m) \in [Instances -> SUBSET Tasks]
  BY DEF Share
<1>2. ASSUME NEW i \in Instances, NEW j \in Instances, i # j, NEW t \in Share(m)[i] \cap Share(m)[j]
      PROVE  FALSE
  <2>1. i \in m /\ j \in m /\ Cardinality({k \in m : k < i}) = Cardinality({k \in m : k < j})
    BY <1>2 DEF Share
  <2>2. i < j \/ j < i
    BY <1>2, Names
  <2> QED
    BY <2>1, <2>2, RankGrows
<1> QED
  BY <1>1, <1>2

-----------------------------------------------------------------------------
(* Types and membership.                                                   *)

\* What the coordinator does keeps its types.
LEMMA CoordStep ==
  ASSUME CoordTypes, NEW i \in Instances, NEW I \in SUBSET Instances,
         Join(i) \/ Leave(I) \/ Rejoin(i) \/ EvictMember(i) \/ SyncGroup \/ UNCHANGED coordVars
  PROVE  CoordTypes'
<1> USE DEF CoordTypes, Rebalance, Waiting
<1>1. CASE Join(i)
  BY <1>1 DEF Join
<1>2. CASE Leave(I)
  BY <1>2 DEF Leave
<1>3. CASE Rejoin(i)
  BY <1>3 DEF Rejoin
<1>4. CASE EvictMember(i)
  BY <1>4 DEF EvictMember
<1>5. CASE SyncGroup
  BY <1>5, ShareDisjoint DEF SyncGroup
<1>6. CASE UNCHANGED coordVars
  BY <1>6, <1>1 DEF coordVars
<1> QED
  BY <1>1, <1>2, <1>3, <1>4, <1>5, <1>6

\* Who leaves, joins, rejoins.
LEMMA CoordEffect ==
  ASSUME CoordTypes, MemberInv, NEW i \in Instances, NEW I \in SUBSET Instances
  PROVE  /\ Join(i) => /\ members' = members \cup {i} /\ rejoined' = rejoined \cup {i}
                       /\ phase' = "preparing" /\ UNCHANGED <<gen, target, evictions>>
         /\ Leave(I) => /\ members' = members \ I /\ rejoined' = rejoined \ I
                        /\ phase' = "stable" => rejoined' = {}
                        /\ phase = "preparing" /\ members' # {} => phase' = "preparing"
                        /\ UNCHANGED <<gen, target, evictions>>
         /\ EvictMember(i) => /\ members' = members \ {i} /\ rejoined' = rejoined \ {i}
                              /\ phase' = "stable" => rejoined' = {}
                              /\ phase = "preparing" /\ members' # {} => phase' = "preparing"
                              /\ evictions' # 0 /\ UNCHANGED <<gen, target>>
<1> USE DEF CoordTypes, MemberInv, Rebalance, Waiting
<1>1. Waiting = rejoined
  OBVIOUS
<1>2. ASSUME Join(i)
      PROVE  /\ members' = members \cup {i} /\ rejoined' = rejoined \cup {i}
             /\ phase' = "preparing" /\ UNCHANGED <<gen, target, evictions>>
  BY <1>1, <1>2 DEF Join
<1>3. ASSUME Leave(I)
      PROVE  /\ members' = members \ I /\ rejoined' = rejoined \ I
             /\ phase' = "stable" => rejoined' = {}
             /\ phase = "preparing" /\ members' # {} => phase' = "preparing"
             /\ UNCHANGED <<gen, target, evictions>>
  BY <1>1, <1>3 DEF Leave
<1>4. ASSUME EvictMember(i)
      PROVE  /\ members' = members \ {i} /\ rejoined' = rejoined \ {i}
             /\ phase' = "stable" => rejoined' = {}
             /\ phase = "preparing" /\ members' # {} => phase' = "preparing"
             /\ evictions' # 0 /\ UNCHANGED <<gen, target>>
  BY <1>1, <1>4 DEF EvictMember
<1> QED
  BY <1>2, <1>3, <1>4

\* The step changes one task, to r.
TaskTo(i, t, r) ==
  /\ task' \in [Instances -> [Tasks -> TaskType]]
  /\ task'[i][t] = r
  /\ \A j \in Instances, u \in Tasks : j # i \/ u # t => task'[j][u] = task[j][u]

\* Every update of a task is one of these.
LEMMA TaskUpdate ==
  ASSUME ManagerTypes, NEW i \in Instances, NEW t \in Tasks, NEW r \in TaskType,
         task' = [task EXCEPT ![i][t] = r]
  PROVE  TaskTo(i, t, r)
BY DEF TaskTo, ManagerTypes

\* A task with some fields changed is a task.
LEMMA FieldType ==
  ASSUME NEW k \in TaskType
  PROVE  /\ [k EXCEPT !.sent = TRUE] \in TaskType
         /\ [k EXCEPT !.closing = TRUE] \in TaskType
         /\ [k EXCEPT !.batch = <<>>, !.sent = FALSE] \in TaskType
         /\ \A b \in Seq(Nat) : [k EXCEPT !.batch = b] \in TaskType
         /\ \A n \in Nat : /\ [k EXCEPT !.epoch = n, !.sent = FALSE] \in TaskType
                           /\ [k EXCEPT !.st = "running", !.epoch = n] \in TaskType
         /\ \A s \in SUBSET Nat :
              [k EXCEPT !.batch = <<>>, !.sent = FALSE, !.store = @ \cup s] \in TaskType
<1>1. ASSUME NEW l \in TaskType
      PROVE  /\ [l EXCEPT !.sent = TRUE] \in TaskType /\ [l EXCEPT !.sent = FALSE] \in TaskType
             /\ [l EXCEPT !.closing = TRUE] \in TaskType
  BY DEF TaskType
<1>2. ASSUME NEW l \in TaskType, NEW b \in Seq(Nat) PROVE [l EXCEPT !.batch = b] \in TaskType
  BY DEF TaskType
<1>3. ASSUME NEW l \in TaskType PROVE [l EXCEPT !.batch = <<>>] \in TaskType
  <2>1. <<>> \in Seq(Nat)
    OBVIOUS
  <2> QED
    BY <1>2, <2>1
<1>4. ASSUME NEW l \in TaskType, NEW n \in Nat PROVE [l EXCEPT !.epoch = n] \in TaskType
  BY DEF TaskType
<1>5. ASSUME NEW l \in TaskType PROVE [l EXCEPT !.st = "running"] \in TaskType
  BY DEF TaskType
<1>6. ASSUME NEW l \in TaskType, NEW s \in SUBSET Nat
      PROVE  [l EXCEPT !.store = l.store \cup s] \in TaskType
  <2> DEFINE z == l.store \cup s
  <2>1. z \in SUBSET Nat
    BY DEF TaskType
  <2> HIDE DEF z
  <2>2. ASSUME NEW y \in SUBSET Nat PROVE [l EXCEPT !.store = y] \in TaskType
    BY DEF TaskType
  <2>3. [l EXCEPT !.store = z] \in TaskType
    BY <2>1, <2>2
  <2> QED
    BY <2>3 DEF z
<1>7. [[k EXCEPT !.batch = <<>>] EXCEPT !.sent = FALSE] \in TaskType
  BY <1>1, <1>3
<1>8. ASSUME NEW n \in Nat
      PROVE  /\ [[k EXCEPT !.epoch = n] EXCEPT !.sent = FALSE] \in TaskType
             /\ [[k EXCEPT !.st = "running"] EXCEPT !.epoch = n] \in TaskType
  BY <1>1, <1>4, <1>5
<1>9. ASSUME NEW s \in SUBSET Nat
      PROVE  [k EXCEPT !.batch = <<>>, !.sent = FALSE, !.store = @ \cup s] \in TaskType
  <2> DEFINE l == [[k EXCEPT !.batch = <<>>] EXCEPT !.sent = FALSE]
  <2>1. l.store = k.store
    BY DEF TaskType
  <2>2. [l EXCEPT !.store = l.store \cup s] \in TaskType
    BY <1>6, <1>7
  <2> QED
    BY <2>1, <2>2
<1>10. [k EXCEPT !.batch = <<>>, !.sent = FALSE] \in TaskType
  BY <1>7
<1>11. ASSUME NEW n \in Nat
       PROVE  /\ [k EXCEPT !.epoch = n, !.sent = FALSE] \in TaskType
              /\ [k EXCEPT !.st = "running", !.epoch = n] \in TaskType
  BY <1>8
<1> QED
  BY <1>1, <1>2, <1>9, <1>10, <1>11

\* What the steps of the manager do to tasks.
LEMMA TaskEffect ==
  ASSUME Types, NEW i \in Instances, NEW t \in Tasks
  PROVE  LET k == task[i][t] IN
         /\ k \in TaskType
         /\ AddRestored(i, t) =>
              TaskTo(i, t, [NoTask EXCEPT !.st = "restored", !.store = Offsets(outputs[t])])
         /\ SendOffsets(i, t) => TaskTo(i, t, [k EXCEPT !.sent = TRUE])
         /\ CommitTransaction(i, t) =>
              TaskTo(i, t, [k EXCEPT !.batch = <<>>, !.sent = FALSE,
                                     !.store = @ \cup Offsets(k.batch)])
         /\ RestartFenced(i, t) => TaskTo(i, t, [k EXCEPT !.epoch = epoch[t] + 1, !.sent = FALSE])
         /\ GiveUp(i, t) => TaskTo(i, t, [k EXCEPT !.batch = <<>>, !.sent = FALSE])
         /\ TaskStops(i, t) => TaskTo(i, t, [NoTask EXCEPT !.st = "stopped", !.closing = TRUE])
<1> DEFINE k == task[i][t]
<1> USE DEF Types
<1>1. /\ k \in TaskType /\ epoch[t] \in Nat /\ outputs[t] \in Seq(Nat)
      /\ task \in [Instances -> [Tasks -> TaskType]]
  BY DEF ManagerTypes, BrokerTypes
<1>2. Offsets(outputs[t]) \subseteq Nat /\ Offsets(k.batch) \subseteq Nat
  BY <1>1 DEF Offsets, TaskType
<1>3. NoTask \in TaskType
  BY DEF NoTask, TaskType
<1>4. ASSUME AddRestored(i, t)
      PROVE  TaskTo(i, t, [NoTask EXCEPT !.st = "restored", !.store = Offsets(outputs[t])])
  <2>1. [NoTask EXCEPT !.st = "restored", !.store = Offsets(outputs[t])] \in TaskType
    BY <1>2, <1>3 DEF TaskType
  <2> QED
    BY <1>4, <2>1, TaskUpdate DEF AddRestored
<1>5. ASSUME SendOffsets(i, t) PROVE TaskTo(i, t, [k EXCEPT !.sent = TRUE])
  <2>1. [k EXCEPT !.sent = TRUE] \in TaskType
    BY <1>1 DEF TaskType
  <2>2. task' = [task EXCEPT ![i][t] = [k EXCEPT !.sent = TRUE]]
    BY <1>5, <1>1 DEF SendOffsets
  <2> QED
    BY <2>1, <2>2, TaskUpdate
<1>6. ASSUME CommitTransaction(i, t)
      PROVE  TaskTo(i, t, [k EXCEPT !.batch = <<>>, !.sent = FALSE,
                                    !.store = @ \cup Offsets(k.batch)])
  <2> DEFINE r == [k EXCEPT !.batch = <<>>, !.sent = FALSE, !.store = @ \cup Offsets(k.batch)]
  <2>1. r \in TaskType
    BY <1>1, <1>2, FieldType
  <2>2. task' = [task EXCEPT ![i][t] = r]
    BY <1>6, <1>1 DEF CommitTransaction
  <2> HIDE DEF r
  <2>3. TaskTo(i, t, r)
    BY <2>1, <2>2, TaskUpdate
  <2> QED
    BY <2>3 DEF r
<1>7. ASSUME RestartFenced(i, t)
      PROVE  TaskTo(i, t, [k EXCEPT !.epoch = epoch[t] + 1, !.sent = FALSE])
  <2> DEFINE n == epoch[t] + 1
             r == [k EXCEPT !.epoch = n, !.sent = FALSE]
  <2>1. task' = [task EXCEPT ![i][t] = r]
    BY <1>7, <1>1 DEF RestartFenced
  <2>2. n \in Nat
    BY <1>1
  <2> HIDE DEF n
  <2>3. r \in TaskType
    BY <1>1, <2>2, FieldType
  <2> HIDE DEF r
  <2>4. TaskTo(i, t, r)
    BY <2>1, <2>3, TaskUpdate
  <2> QED
    BY <2>4 DEF r, n
<1>8. ASSUME GiveUp(i, t) PROVE TaskTo(i, t, [k EXCEPT !.batch = <<>>, !.sent = FALSE])
  <2> DEFINE r == [k EXCEPT !.batch = <<>>, !.sent = FALSE]
  <2>1. r \in TaskType
    BY <1>1, FieldType
  <2>2. task' = [task EXCEPT ![i][t] = r]
    BY <1>8, <1>1 DEF GiveUp
  <2> HIDE DEF r
  <2>3. TaskTo(i, t, r)
    BY <2>1, <2>2, TaskUpdate
  <2> QED
    BY <2>3 DEF r
<1>9. ASSUME TaskStops(i, t)
      PROVE  TaskTo(i, t, [NoTask EXCEPT !.st = "stopped", !.closing = TRUE])
  <2>1. [NoTask EXCEPT !.st = "stopped", !.closing = TRUE] \in TaskType
    BY <1>3 DEF TaskType
  <2> QED
    BY <1>9, <2>1, TaskUpdate DEF TaskStops
<1> QED
  BY <1>1, <1>4, <1>5, <1>6, <1>7, <1>8, <1>9

\* StopStored tells a task to close; InitTask starts a task, with a producer
\* that is newer than all others.
LEMMA TaskEffect2 ==
  ASSUME Types, NEW i \in Instances, NEW t \in Tasks
  PROVE  LET o == Stored(i, t) IN
         /\ o \in Instances \cup {0}
         /\ \A from, waits, next : StopStored(i, t, from, waits, next) /\ o # 0 =>
              TaskTo(o, t, [task[o][t] EXCEPT !.closing = TRUE])
         /\ InitTask(i, t) /\ task[o][t].st # "stopped" =>
              TaskTo(o, t, [task[o][t] EXCEPT !.st = "running", !.epoch = epoch[t] + 1])
<1> DEFINE o == Stored(i, t)
           k == task[o][t]
<1> USE DEF Types
<1>1. o \in Instances \cup {0} /\ epoch[t] \in Nat
  BY Names DEF Stored, ManagerTypes, BrokerTypes, Instances
<1>2. (o # 0 => k \in TaskType) /\ task \in [Instances -> [Tasks -> TaskType]]
  BY <1>1 DEF ManagerTypes
<1>3. ASSUME NEW from, NEW waits, NEW next, StopStored(i, t, from, waits, next), o # 0
      PROVE  TaskTo(o, t, [k EXCEPT !.closing = TRUE])
  <2> DEFINE r == [k EXCEPT !.closing = TRUE]
  <2>1. r \in TaskType /\ o \in Instances
    BY <1>1, <1>2, <1>3 DEF TaskType
  <2>2. task' = [task EXCEPT ![o][t] = r]
    BY <1>1, <1>2, <1>3 DEF StopStored
  <2> HIDE DEF r, o
  <2>3. TaskTo(o, t, r)
    BY <2>1, <2>2, TaskUpdate
  <2> QED
    BY <2>3 DEF r, o
<1>4. ASSUME InitTask(i, t), k.st # "stopped"
      PROVE  TaskTo(o, t, [k EXCEPT !.st = "running", !.epoch = epoch[t] + 1])
  <2> DEFINE n == epoch[t] + 1
             r == [k EXCEPT !.st = "running", !.epoch = n]
  <2>1. o \in Instances /\ k \in TaskType /\ n \in Nat
    BY <1>1, <1>2, <1>4 DEF InitTask
  <2>2. task' = [task EXCEPT ![o][t] = r]
    BY <1>1, <1>2, <1>4 DEF InitTask
  <2> HIDE DEF n, k
  <2>3. r \in TaskType
    BY <2>1, FieldType
  <2> HIDE DEF r, o
  <2>4. TaskTo(o, t, r)
    BY <2>1, <2>2, <2>3, TaskUpdate
  <2> QED
    BY <2>4 DEF r, n, o, k
<1> QED
  BY <1>1, <1>3, <1>4

\* Only a task that runs keeps a batch.
LEMMA BatchStep ==
  ASSUME BatchInv, NEW i \in Instances, NEW t \in Tasks, NEW r \in TaskType, TaskTo(i, t, r),
         r.sent => r.batch # <<>>, r.batch # <<>> => r.st = "running"
  PROVE  BatchInv'
<1> SUFFICES ASSUME NEW j \in Instances, NEW u \in Tasks
             PROVE  /\ task'[j][u].sent => task'[j][u].batch # <<>>
                    /\ task'[j][u].batch # <<>> => task'[j][u].st = "running"
  BY DEF BatchInv
<1>1. CASE j = i /\ u = t
  BY <1>1 DEF TaskTo
<1>2. CASE j # i \/ u # t
  BY <1>2 DEF TaskTo, BatchInv
<1> QED
  BY <1>1, <1>2

\* No new producer.
LEMMA EpochKept ==
  ASSUME EpochInv, NEW i \in Instances, NEW t \in Tasks, NEW r \in TaskType, TaskTo(i, t, r),
         UNCHANGED epoch, epoch \in [Tasks -> Nat], r.epoch \in {0, task[i][t].epoch},
         r.st = "running" => r.epoch # 0
  PROVE  EpochInv'
<1>1. \A j \in Instances, u \in Tasks :
        task'[j][u] = task[j][u] \/ (j = i /\ u = t /\ task'[j][u] = r)
  BY DEF TaskTo
<1>2. ASSUME NEW j \in Instances, NEW u \in Tasks
      PROVE  /\ task'[j][u].epoch <= epoch'[u]
             /\ task'[j][u].st = "running" => task'[j][u].epoch # 0
             /\ task'[j][u].epoch \in {0, task[j][u].epoch}
  BY <1>1 DEF EpochInv
<1>3. ASSUME NEW j \in Instances, NEW k \in Instances, NEW u \in Tasks,
             task'[j][u].epoch = task'[k][u].epoch, task'[j][u].epoch # 0
      PROVE  j = k
  BY <1>2, <1>3 DEF EpochInv
<1> QED
  BY <1>2, <1>3 DEF EpochInv

\* A new producer, newer than all.
LEMMA EpochNew ==
  ASSUME EpochInv, NEW i \in Instances, NEW t \in Tasks, NEW r \in TaskType, TaskTo(i, t, r),
         epoch \in [Tasks -> Nat], epoch' = [epoch EXCEPT ![t] = @ + 1],
         task \in [Instances -> [Tasks -> TaskType]], r.epoch = epoch[t] + 1
  PROVE  /\ EpochInv'
         /\ \A j \in Instances : j # i => task'[j][t].epoch < epoch'[t]
<1>1. epoch'[t] = epoch[t] + 1 /\ epoch[t] \in Nat /\ \A u \in Tasks : u # t => epoch'[u] = epoch[u]
  OBVIOUS
<1>2. \A j \in Instances, u \in Tasks :
        task[j][u].epoch \in Nat /\ task[j][u].epoch <= epoch[u]
  BY DEF EpochInv, TaskType
<1>3. task'[i][t].epoch = epoch[t] + 1
  BY DEF TaskTo
<1>4. \A j \in Instances, u \in Tasks : j # i \/ u # t => task'[j][u] = task[j][u]
  BY DEF TaskTo
<1>5. ASSUME NEW j \in Instances, NEW u \in Tasks
      PROVE  /\ task'[j][u].epoch <= epoch'[u]
             /\ task'[j][u].st = "running" => task'[j][u].epoch # 0
  <2>1. CASE j = i /\ u = t
    BY <2>1, <1>1, <1>3
  <2>2. CASE j # i \/ u # t
    <3>1. task'[j][u] = task[j][u] /\ epoch[u] <= epoch'[u] /\ epoch[u] \in Nat /\ epoch'[u] \in Nat
      BY <2>2, <1>1, <1>4
    <3> QED
      BY <3>1, <1>2 DEF EpochInv
  <2> QED
    BY <2>1, <2>2
<1>6. ASSUME NEW j \in Instances, j # i PROVE task'[j][t].epoch < epoch'[t]
  BY <1>1, <1>2, <1>4, <1>6
<1>7. ASSUME NEW j \in Instances, NEW k \in Instances, NEW u \in Tasks,
             task'[j][u].epoch = task'[k][u].epoch, task'[j][u].epoch # 0
      PROVE  j = k
  <2>1. CASE u = t
    <3>1. ASSUME NEW l \in Instances, l # i PROVE task'[l][u].epoch <= epoch[t] /\ task'[l][u].epoch \in Nat
      BY <2>1, <3>1, <1>2, <1>4
    <3>2. task'[i][u].epoch = epoch[t] + 1 /\ epoch[t] \in Nat
      BY <2>1, <1>1, <1>3
    <3>3. CASE j # i /\ k # i
      BY <3>3, <2>1, <1>4, <1>7 DEF EpochInv
    <3>4. CASE j = i \/ k = i
      BY <3>1, <3>2, <3>4, <1>7
    <3> QED
      BY <3>3, <3>4
  <2>2. CASE u # t
    BY <2>2, <1>4, <1>7 DEF EpochInv
  <2> QED
    BY <2>1, <2>2
<1> QED
  BY <1>5, <1>6, <1>7 DEF EpochInv

\* Steps of the task manager leave membership alone.
LEMMA MemberFrame ==
  ASSUME CoordTypes, ConsumerTypes, MemberInv, UNCHANGED <<coordVars, memberGen, consumerVars>>
  PROVE  CoordTypes' /\ ConsumerTypes' /\ MemberInv'
<1> USE DEF coordVars, consumerVars
<1>1. CoordTypes' /\ ConsumerTypes'
  BY DEF CoordTypes, ConsumerTypes
<1>2. MemberInv'
  BY DEF MemberInv, MemberOk, Engaged
<1> QED
  BY <1>1, <1>2

\* The types of what a callback moves.
LEMMA WorkTypes ==
  ASSUME ManagerTypes, NEW i \in Instances, NEW t \in Tasks
  PROVE  /\ \A w \in Places : WorkTo(i, t, w) => work' \in [Instances -> [Tasks -> Places]]
         /\ \A o \in Instances \cup {0} :
              Store(i, t, o) => manager' \in [Instances -> [Tasks -> Instances \cup {0}]]
         /\ \A o \in Instances \cup {0} :
              victim' = [victim EXCEPT ![i][t] = o] => victim' \in [Instances -> [Tasks -> Instances \cup {0}]]
<1>1. process[i] \in Instances
  BY Names DEF ManagerTypes, Instances
<1>2. /\ work \in [Instances -> [Tasks -> Places]]
      /\ manager \in [Instances -> [Tasks -> Instances \cup {0}]]
      /\ victim \in [Instances -> [Tasks -> Instances \cup {0}]]
  BY DEF ManagerTypes
<1>3. ASSUME NEW w \in Places, WorkTo(i, t, w) PROVE work' \in [Instances -> [Tasks -> Places]]
  BY <1>2, <1>3 DEF WorkTo
<1>4. ASSUME NEW o \in Instances \cup {0}, Store(i, t, o)
      PROVE  manager' \in [Instances -> [Tasks -> Instances \cup {0}]]
  BY <1>1, <1>2, <1>4 DEF Store
<1>5. ASSUME NEW o \in Instances \cup {0}, victim' = [victim EXCEPT ![i][t] = o]
      PROVE  victim' \in [Instances -> [Tasks -> Instances \cup {0}]]
  BY <1>2, <1>5
<1> QED
  BY <1>3, <1>4, <1>5

\* Both callbacks, while they tell a task to stop.
LEMMA StopStoredTypes ==
  ASSUME Types, NEW i \in Instances, NEW t \in Tasks, NEW from, NEW waits \in Places, NEW next \in Places,
         StopStored(i, t, from, waits, next), UNCHANGED consumerVars
  PROVE  Types'
<1> DEFINE o == Stored(i, t)
<1>1. /\ UNCHANGED <<coordVars, epoch, outputs, committed, process, memberGen, manager, slipped>>
      /\ o \in Instances \cup {0}
  BY TaskEffect2 DEF StopStored, brokerVars
<1>2. CoordTypes' /\ ConsumerTypes' /\ MemberInv' /\ BrokerTypes'
  BY <1>1, MemberFrame DEF Types, BrokerTypes
<1>3. work' \in [Instances -> [Tasks -> Places]] /\ victim' \in [Instances -> [Tasks -> Instances \cup {0}]]
  BY <1>1, WorkTypes DEF StopStored, Types, ManagerTypes
<1>4. CASE o = 0
  <2>1. UNCHANGED task
    BY <1>4 DEF StopStored
  <2> QED
    BY <1>1, <1>2, <1>3, <2>1 DEF Types, ManagerTypes, BatchInv, EpochInv
<1>5. CASE o # 0
  <2> DEFINE r == [task[o][t] EXCEPT !.closing = TRUE]
  <2>1. TaskTo(o, t, r)
    BY <1>5, TaskEffect2
  <2>2. /\ task[o][t] \in TaskType /\ r \in TaskType /\ o \in Instances
        /\ r.sent = task[o][t].sent /\ r.batch = task[o][t].batch
        /\ r.st = task[o][t].st /\ r.epoch = task[o][t].epoch
    <3>1. o \in Instances /\ task[o][t] \in TaskType
      BY <1>1, <1>5 DEF Types, ManagerTypes
    <3> HIDE DEF o
    <3> QED
      BY <3>1 DEF TaskType
  <2> HIDE DEF r, o
  <2>3. BatchInv'
    BY <2>1, <2>2, BatchStep DEF Types, BatchInv
  <2>4. EpochInv'
    <3>1. EpochInv /\ epoch \in [Tasks -> Nat] /\ (task[o][t].st = "running" => task[o][t].epoch # 0)
      BY <2>2 DEF Types, EpochInv, BrokerTypes
    <3> QED
      BY <2>1, <2>2, <1>1, <3>1, EpochKept
  <2>5. ManagerTypes'
    BY <1>1, <1>3, <2>1 DEF Types, ManagerTypes, TaskTo
  <2> QED
    BY <1>2, <2>3, <2>4, <2>5 DEF Types
<1> QED
  BY <1>4, <1>5

\* What a step of the manager has to keep.
LEMMA ManagerFrame ==
  ASSUME Types, UNCHANGED <<coordVars, process, memberGen, consumerVars>>, BrokerTypes',
         task' \in [Instances -> [Tasks -> TaskType]],
         manager' \in [Instances -> [Tasks -> Instances \cup {0}]],
         work' \in [Instances -> [Tasks -> Places]],
         victim' \in [Instances -> [Tasks -> Instances \cup {0}]],
         slipped' \subseteq Instances \X Tasks, BatchInv', EpochInv'
  PROVE  Types'
<1>1. CoordTypes' /\ ConsumerTypes' /\ MemberInv'
  BY MemberFrame DEF Types
<1>2. ManagerTypes'
  BY DEF Types, ManagerTypes
<1> QED
  BY <1>1, <1>2 DEF Types

\* A step that only moves a callback.
LEMMA MoveTypes ==
  ASSUME Types, NEW i \in Instances, NEW t \in Tasks, RemoveDelete(i, t) \/ AddWait(i, t),
         UNCHANGED consumerVars
  PROVE  Types'
<1>1. UNCHANGED <<coordVars, epoch, outputs, committed, process, memberGen, task, slipped>>
  BY DEF RemoveDelete, AddWait, brokerVars
<1>2. /\ WorkTo(i, t, "done") \/ WorkTo(i, t, "restore")
      /\ victim' = [victim EXCEPT ![i][t] = 0]
      /\ Store(i, t, 0) \/ UNCHANGED manager
  BY DEF RemoveDelete, AddWait
<1>3. ManagerTypes /\ "done" \in Places /\ "restore" \in Places /\ 0 \in Instances \cup {0}
  BY DEF Types, Places
<1>4. /\ work' \in [Instances -> [Tasks -> Places]]
      /\ manager' \in [Instances -> [Tasks -> Instances \cup {0}]]
      /\ victim' \in [Instances -> [Tasks -> Instances \cup {0}]]
  <2>1. work' \in [Instances -> [Tasks -> Places]]
    BY <1>2, <1>3, WorkTypes
  <2>2. victim' \in [Instances -> [Tasks -> Instances \cup {0}]]
    BY <1>2, <1>3, WorkTypes
  <2>3. manager' \in [Instances -> [Tasks -> Instances \cup {0}]]
    BY <1>2, <1>3, WorkTypes DEF ManagerTypes
  <2> QED
    BY <2>1, <2>2, <2>3
<1>5. BrokerTypes' /\ BatchInv' /\ EpochInv'
  BY <1>1 DEF Types, BrokerTypes, BatchInv, EpochInv
<1>6. task' \in [Instances -> [Tasks -> TaskType]] /\ slipped' \subseteq Instances \X Tasks
  BY <1>1, <1>3 DEF ManagerTypes
<1> QED
  BY <1>1, <1>4, <1>5, <1>6, ManagerFrame

\* A step that changes a task and no producer.
LEMMA TaskTypes ==
  ASSUME Types, NEW i \in Instances, NEW t \in Tasks, NEW r \in TaskType, TaskTo(i, t, r),
         UNCHANGED <<coordVars, epoch, process, memberGen, consumerVars, victim>>, BrokerTypes',
         manager' \in [Instances -> [Tasks -> Instances \cup {0}]],
         work' \in [Instances -> [Tasks -> Places]],
         slipped' \subseteq Instances \X Tasks,
         r.sent => r.batch # <<>>, r.batch # <<>> => r.st = "running",
         r.epoch \in {0, task[i][t].epoch}, r.st = "running" => r.epoch # 0
  PROVE  Types'
<1>1. BatchInv'
  BY BatchStep DEF Types
<1>2. EpochInv'
  BY EpochKept DEF Types, BrokerTypes
<1>3. victim' \in [Instances -> [Tasks -> Instances \cup {0}]]
  BY DEF Types, ManagerTypes
<1>4. task' \in [Instances -> [Tasks -> TaskType]]
  BY DEF TaskTo
<1> QED
  BY <1>1, <1>2, <1>3, <1>4, ManagerFrame

\* A step that makes a new producer.
LEMMA ProducerTypes ==
  ASSUME Types, NEW i \in Instances, NEW t \in Tasks, NEW r \in TaskType, TaskTo(i, t, r),
         UNCHANGED <<coordVars, outputs, committed, process, memberGen, consumerVars, manager,
                     victim, slipped>>,
         work' \in [Instances -> [Tasks -> Places]],
         epoch' = [epoch EXCEPT ![t] = @ + 1], r.epoch = epoch[t] + 1,
         r.sent => r.batch # <<>>, r.batch # <<>> => r.st = "running"
  PROVE  Types' /\ \A j \in Instances : j # i => task'[j][t].epoch < epoch'[t]
<1>1. BatchInv'
  BY BatchStep DEF Types
<1>2. EpochInv' /\ \A j \in Instances : j # i => task'[j][t].epoch < epoch'[t]
  BY EpochNew DEF Types, BrokerTypes, ManagerTypes
<1>3. BrokerTypes'
  BY DEF Types, BrokerTypes
<1>4. /\ victim' \in [Instances -> [Tasks -> Instances \cup {0}]]
      /\ manager' \in [Instances -> [Tasks -> Instances \cup {0}]]
      /\ slipped' \subseteq Instances \X Tasks
  BY DEF Types, ManagerTypes
<1>5. task' \in [Instances -> [Tasks -> TaskType]]
  BY DEF TaskTo
<1> QED
  BY <1>1, <1>2, <1>3, <1>4, <1>5, ManagerFrame

\* A task with these fields.
Fields(r, st, e, s, b, x, c) ==
  /\ r \in TaskType /\ r.st = st /\ r.epoch = e /\ r.store = s /\ r.batch = b /\ r.sent = x
  /\ r.closing = c

\* The fields of a task after each change.
LEMMA FieldValues ==
  ASSUME NEW k \in TaskType
  PROVE  /\ Fields([k EXCEPT !.sent = TRUE], k.st, k.epoch, k.store, k.batch, TRUE, k.closing)
         /\ Fields([k EXCEPT !.closing = TRUE], k.st, k.epoch, k.store, k.batch, k.sent, TRUE)
         /\ Fields([k EXCEPT !.batch = <<>>, !.sent = FALSE],
                   k.st, k.epoch, k.store, <<>>, FALSE, k.closing)
         /\ \A b \in Seq(Nat) :
              Fields([k EXCEPT !.batch = b], k.st, k.epoch, k.store, b, k.sent, k.closing)
         /\ \A n \in Nat :
              Fields([k EXCEPT !.epoch = n, !.sent = FALSE],
                     k.st, n, k.store, k.batch, FALSE, k.closing)
         /\ \A n \in Nat :
              Fields([k EXCEPT !.st = "running", !.epoch = n],
                     "running", n, k.store, k.batch, k.sent, k.closing)
         /\ \A s \in SUBSET Nat :
              Fields([k EXCEPT !.batch = <<>>, !.sent = FALSE, !.store = @ \cup s],
                     k.st, k.epoch, k.store \cup s, <<>>, FALSE, k.closing)
<1>1. Fields([k EXCEPT !.sent = TRUE], k.st, k.epoch, k.store, k.batch, TRUE, k.closing)
  BY FieldType DEF TaskType, Fields
<1>2. Fields([k EXCEPT !.closing = TRUE], k.st, k.epoch, k.store, k.batch, k.sent, TRUE)
  BY FieldType DEF TaskType, Fields
<1>3. Fields([k EXCEPT !.batch = <<>>, !.sent = FALSE],
             k.st, k.epoch, k.store, <<>>, FALSE, k.closing)
  <2> DEFINE r == [k EXCEPT !.batch = <<>>, !.sent = FALSE]
  <2>1. r \in TaskType
    BY FieldType
  <2>2. r.st = k.st /\ r.epoch = k.epoch /\ r.store = k.store /\ r.batch = <<>> /\ r.sent = FALSE
        /\ r.closing = k.closing
    BY DEF TaskType
  <2> QED
    BY <2>1, <2>2 DEF Fields
<1>4. ASSUME NEW b \in Seq(Nat)
      PROVE  Fields([k EXCEPT !.batch = b], k.st, k.epoch, k.store, b, k.sent, k.closing)
  BY FieldType DEF TaskType, Fields
<1>5. ASSUME NEW n \in Nat
      PROVE  Fields([k EXCEPT !.epoch = n, !.sent = FALSE],
                    k.st, n, k.store, k.batch, FALSE, k.closing)
  <2> DEFINE r == [k EXCEPT !.epoch = n, !.sent = FALSE]
  <2>1. r \in TaskType
    BY FieldType
  <2>2. r.st = k.st /\ r.epoch = n /\ r.store = k.store /\ r.batch = k.batch /\ r.sent = FALSE
        /\ r.closing = k.closing
    BY DEF TaskType
  <2> QED
    BY <2>1, <2>2 DEF Fields
<1>6. ASSUME NEW n \in Nat
      PROVE  Fields([k EXCEPT !.st = "running", !.epoch = n],
                    "running", n, k.store, k.batch, k.sent, k.closing)
  <2> DEFINE r == [k EXCEPT !.st = "running", !.epoch = n]
  <2>1. r \in TaskType
    BY FieldType
  <2>2. r.st = "running" /\ r.epoch = n /\ r.store = k.store /\ r.batch = k.batch /\ r.sent = k.sent
        /\ r.closing = k.closing
    BY DEF TaskType
  <2> QED
    BY <2>1, <2>2 DEF Fields
<1>7. ASSUME NEW s \in SUBSET Nat
      PROVE  Fields([k EXCEPT !.batch = <<>>, !.sent = FALSE, !.store = @ \cup s],
                    k.st, k.epoch, k.store \cup s, <<>>, FALSE, k.closing)
  <2> DEFINE r == [k EXCEPT !.batch = <<>>, !.sent = FALSE, !.store = @ \cup s]
  <2>1. r \in TaskType
    BY FieldType
  <2>2. r.st = k.st /\ r.epoch = k.epoch /\ r.store = k.store \cup s /\ r.batch = <<>> /\ r.sent = FALSE
        /\ r.closing = k.closing
    BY DEF TaskType
  <2> QED
    BY <2>1, <2>2 DEF Fields
<1> QED
  BY <1>1, <1>2, <1>3, <1>4, <1>5, <1>6, <1>7

\* The task after each step that changes one.
LEMMA TaskFields ==
  ASSUME Types, NEW i \in Instances, NEW t \in Tasks
  PROVE  LET k == task[i][t]
             l == task'[i][t] IN
         /\ AddRestored(i, t) =>
              /\ TaskTo(i, t, l)
              /\ Fields(l, "restored", 0, Offsets(outputs[t]), <<>>, FALSE, FALSE)
         /\ SendOffsets(i, t) =>
              /\ TaskTo(i, t, l)
              /\ Fields(l, k.st, k.epoch, k.store, k.batch, TRUE, k.closing)
         /\ CommitTransaction(i, t) =>
              /\ TaskTo(i, t, l)
              /\ Fields(l, k.st, k.epoch, k.store \cup Offsets(k.batch), <<>>, FALSE, k.closing)
         /\ RestartFenced(i, t) =>
              /\ TaskTo(i, t, l)
              /\ Fields(l, k.st, epoch[t] + 1, k.store, k.batch, FALSE, k.closing)
         /\ GiveUp(i, t) =>
              /\ TaskTo(i, t, l)
              /\ Fields(l, k.st, k.epoch, k.store, <<>>, FALSE, k.closing)
         /\ TaskStops(i, t) =>
              /\ TaskTo(i, t, l)
              /\ Fields(l, "stopped", 0, {}, <<>>, FALSE, TRUE)
<1> DEFINE k == task[i][t]
           l == task'[i][t]
<1>1. k \in TaskType /\ epoch[t] + 1 \in Nat /\ Offsets(k.batch) \subseteq Nat
  BY DEF Types, ManagerTypes, BrokerTypes, TaskType, Offsets
<1>2. NoTask \in TaskType /\ Offsets(outputs[t]) \subseteq Nat
  BY DEF NoTask, TaskType, Offsets, Types, BrokerTypes
<1>3. ASSUME AddRestored(i, t)
      PROVE  TaskTo(i, t, l) /\ Fields(l, "restored", 0, Offsets(outputs[t]), <<>>, FALSE, FALSE)
  <2>1. TaskTo(i, t, [NoTask EXCEPT !.st = "restored", !.store = Offsets(outputs[t])])
    BY <1>3, TaskEffect
  <2>2. l = [NoTask EXCEPT !.st = "restored", !.store = Offsets(outputs[t])]
    BY <2>1 DEF TaskTo
  <2>3. l \in TaskType
    BY <2>1 DEF TaskTo
  <2> QED
    BY <2>1, <2>2, <2>3 DEF Fields, NoTask
<1>4. ASSUME SendOffsets(i, t)
      PROVE  TaskTo(i, t, l) /\ Fields(l, k.st, k.epoch, k.store, k.batch, TRUE, k.closing)
  <2>1. TaskTo(i, t, [k EXCEPT !.sent = TRUE])
    BY <1>4, TaskEffect
  <2>2. l = [k EXCEPT !.sent = TRUE]
    BY <2>1 DEF TaskTo
  <2> HIDE DEF k, l
  <2> QED
    BY <2>1, <2>2, <1>1, FieldValues
<1>5. ASSUME CommitTransaction(i, t)
      PROVE  /\ TaskTo(i, t, l)
             /\ Fields(l, k.st, k.epoch, k.store \cup Offsets(k.batch), <<>>, FALSE, k.closing)
  <2> DEFINE s == Offsets(k.batch)
  <2>1. TaskTo(i, t, [k EXCEPT !.batch = <<>>, !.sent = FALSE, !.store = @ \cup s])
    BY <1>5, TaskEffect
  <2>2. l = [k EXCEPT !.batch = <<>>, !.sent = FALSE, !.store = @ \cup s]
    BY <2>1 DEF TaskTo
  <2> HIDE DEF k, l, s
  <2>3. s \in SUBSET Nat
    BY <1>1 DEF s
  <2>4. TaskTo(i, t, l) /\ Fields(l, k.st, k.epoch, k.store \cup s, <<>>, FALSE, k.closing)
    BY <2>1, <2>2, <2>3, <1>1, FieldValues
  <2> QED
    BY <2>4 DEF s
<1>6. ASSUME RestartFenced(i, t)
      PROVE  /\ TaskTo(i, t, l)
             /\ Fields(l, k.st, epoch[t] + 1, k.store, k.batch, FALSE, k.closing)
  <2> DEFINE n == epoch[t] + 1
  <2>1. TaskTo(i, t, [k EXCEPT !.epoch = n, !.sent = FALSE])
    BY <1>6, TaskEffect
  <2>2. l = [k EXCEPT !.epoch = n, !.sent = FALSE]
    BY <2>1 DEF TaskTo
  <2> HIDE DEF k, l, n
  <2>3. n \in Nat
    BY <1>1 DEF n
  <2>4. TaskTo(i, t, l) /\ Fields(l, k.st, n, k.store, k.batch, FALSE, k.closing)
    BY <2>1, <2>2, <2>3, <1>1, FieldValues
  <2> QED
    BY <2>4 DEF n
<1>7. ASSUME GiveUp(i, t)
      PROVE  TaskTo(i, t, l) /\ Fields(l, k.st, k.epoch, k.store, <<>>, FALSE, k.closing)
  <2>1. TaskTo(i, t, [k EXCEPT !.batch = <<>>, !.sent = FALSE])
    BY <1>7, TaskEffect
  <2>2. l = [k EXCEPT !.batch = <<>>, !.sent = FALSE]
    BY <2>1 DEF TaskTo
  <2> HIDE DEF k, l
  <2> QED
    BY <2>1, <2>2, <1>1, FieldValues
<1>8. ASSUME TaskStops(i, t)
      PROVE  TaskTo(i, t, l) /\ Fields(l, "stopped", 0, {}, <<>>, FALSE, TRUE)
  <2>1. TaskTo(i, t, [NoTask EXCEPT !.st = "stopped", !.closing = TRUE])
    BY <1>8, TaskEffect
  <2>2. l = [NoTask EXCEPT !.st = "stopped", !.closing = TRUE]
    BY <2>1 DEF TaskTo
  <2>3. l \in TaskType
    BY <2>1 DEF TaskTo
  <2> QED
    BY <2>1, <2>2, <2>3 DEF Fields, NoTask
<1> QED
  BY <1>3, <1>4, <1>5, <1>6, <1>7, <1>8

\* The same of the task that the map names, for the steps that change that one.
LEMMA StoredFields ==
  ASSUME Types, NEW i \in Instances, NEW t \in Tasks
  PROVE  LET o == Stored(i, t)
             k == task[o][t]
             l == task'[o][t] IN
         /\ o \in Instances \cup {0}
         /\ \A from, waits, next : StopStored(i, t, from, waits, next) /\ o # 0 =>
              /\ TaskTo(o, t, l)
              /\ Fields(l, k.st, k.epoch, k.store, k.batch, k.sent, TRUE)
         /\ InitTask(i, t) /\ k.st # "stopped" =>
              /\ TaskTo(o, t, l)
              /\ Fields(l, "running", epoch[t] + 1, k.store, k.batch, k.sent, k.closing)
<1> DEFINE o == Stored(i, t)
           k == task[o][t]
           l == task'[o][t]
<1>1. o \in Instances \cup {0}
  BY TaskEffect2
<1>2. epoch[t] + 1 \in Nat /\ (o # 0 => o \in Instances /\ k \in TaskType)
  BY <1>1 DEF Types, ManagerTypes, BrokerTypes
<1>3. ASSUME NEW from, NEW waits, NEW next, StopStored(i, t, from, waits, next), o # 0
      PROVE  TaskTo(o, t, l) /\ Fields(l, k.st, k.epoch, k.store, k.batch, k.sent, TRUE)
  <2>1. TaskTo(o, t, [k EXCEPT !.closing = TRUE])
    BY <1>3, TaskEffect2
  <2>2. l = [k EXCEPT !.closing = TRUE]
    BY <2>1 DEF TaskTo
  <2> HIDE DEF k, l, o
  <2> QED
    BY <2>1, <2>2, <1>2, <1>3, FieldValues
<1>4. ASSUME InitTask(i, t), k.st # "stopped"
      PROVE  /\ TaskTo(o, t, l)
             /\ Fields(l, "running", epoch[t] + 1, k.store, k.batch, k.sent, k.closing)
  <2> DEFINE n == epoch[t] + 1
  <2>1. TaskTo(o, t, [k EXCEPT !.st = "running", !.epoch = n]) /\ o # 0
    BY <1>4, TaskEffect2 DEF InitTask
  <2>2. l = [k EXCEPT !.st = "running", !.epoch = n]
    BY <2>1 DEF TaskTo
  <2> HIDE DEF k, l, o, n
  <2>3. n \in Nat
    BY <1>2 DEF n
  <2>4. TaskTo(o, t, l) /\ Fields(l, "running", n, k.store, k.batch, k.sent, k.closing)
    BY <2>1, <2>2, <2>3, <1>2, FieldValues
  <2> QED
    BY <2>4 DEF n
<1> QED
  BY <1>1, <1>3, <1>4

\* Every step of the task manager keeps the types.
LEMMA TaskStepTypes ==
  ASSUME Types, NEW i \in Instances, NEW t \in Tasks, TaskStep(i, t), UNCHANGED consumerVars
  PROVE  Types'
<1> DEFINE k == task[i][t]
           l == task'[i][t]
           o == Stored(i, t)
<1>1. /\ ManagerTypes /\ BrokerTypes /\ BatchInv /\ EpochInv
      /\ {"remove", "removing", "add", "adding", "restore", "init", "done"} \subseteq Places
      /\ k \in TaskType /\ k.epoch \in Nat /\ (k.st = "running" => k.epoch # 0)
      /\ k.sent => k.batch # <<>>
      /\ k.batch # <<>> => k.st = "running"
  <2>1. ManagerTypes /\ BrokerTypes /\ BatchInv /\ EpochInv
    BY DEF Types
  <2>2. {"remove", "removing", "add", "adding", "restore", "init", "done"} \subseteq Places
    BY DEF Places
  <2>3. k \in TaskType
    BY <2>1 DEF ManagerTypes
  <2>4. (k.st = "running" => k.epoch # 0)
    BY <2>1 DEF EpochInv
  <2>5. (k.sent => k.batch # <<>>) /\ (k.batch # <<>> => k.st = "running")
    BY <2>1 DEF BatchInv
  <2>6. k.epoch \in Nat
    BY <2>3 DEF TaskType
  <2> QED
    BY <2>1, <2>2, <2>3, <2>4, <2>5, <2>6
<1>2. CASE RemoveLoad(i, t)
  BY <1>1, <1>2, StopStoredTypes DEF RemoveLoad
<1>3. CASE AddLoad(i, t)
  BY <1>1, <1>3, StopStoredTypes DEF AddLoad
<1>4. CASE RemoveDelete(i, t) \/ AddWait(i, t)
  BY <1>4, MoveTypes
<1>5. CASE AddRestored(i, t)
  <2>1. TaskTo(i, t, l) /\ Fields(l, "restored", 0, Offsets(outputs[t]), <<>>, FALSE, FALSE)
    BY <1>5, TaskFields
  <2>2. /\ UNCHANGED <<coordVars, epoch, process, memberGen, consumerVars, victim>>
        /\ UNCHANGED <<outputs, committed>> /\ slipped' \subseteq slipped
        /\ WorkTo(i, t, "init") /\ Store(i, t, i)
    BY <1>5 DEF AddRestored, brokerVars
  <2>3. BrokerTypes' /\ slipped' \subseteq Instances \X Tasks
    BY <2>2, <1>1 DEF BrokerTypes, ManagerTypes
  <2>4. work' \in [Instances -> [Tasks -> Places]]
    BY <2>2, <1>1, WorkTypes
  <2>5. manager' \in [Instances -> [Tasks -> Instances \cup {0}]]
    BY <2>2, <1>1, WorkTypes
  <2>6. /\ l \in TaskType /\ (l.sent => l.batch # <<>>) /\ (l.batch # <<>> => l.st = "running")
        /\ l.epoch \in {0, k.epoch} /\ (l.st = "running" => l.epoch # 0)
    BY <2>1 DEF Fields
  <2> HIDE DEF l
  <2> QED
    BY <2>1, <2>2, <2>3, <2>4, <2>5, <2>6, TaskTypes
<1>6. CASE InitTask(i, t)
  <2>1. /\ UNCHANGED <<coordVars, outputs, committed, process, memberGen, consumerVars, manager,
                       victim, slipped>>
        /\ WorkTo(i, t, "done") /\ o \in Instances
    BY <1>6, StoredFields DEF InitTask
  <2>2. work' \in [Instances -> [Tasks -> Places]]
    BY <2>1, <1>1, WorkTypes
  <2>3. CASE task[o][t].st = "stopped"
    <3>1. UNCHANGED <<epoch, task>>
      BY <1>6, <2>3 DEF InitTask
    <3>2. /\ BrokerTypes' /\ BatchInv' /\ EpochInv'
          /\ slipped' \subseteq Instances \X Tasks
          /\ task' \in [Instances -> [Tasks -> TaskType]]
          /\ manager' \in [Instances -> [Tasks -> Instances \cup {0}]]
          /\ victim' \in [Instances -> [Tasks -> Instances \cup {0}]]
      BY <3>1, <2>1, <1>1 DEF BrokerTypes, BatchInv, EpochInv, ManagerTypes
    <3> QED
      BY <2>1, <2>2, <3>2, ManagerFrame
  <2>4. CASE task[o][t].st # "stopped"
    <3> DEFINE m == task[o][t]
               n == task'[o][t]
    <3>1. /\ TaskTo(o, t, n)
          /\ Fields(n, "running", epoch[t] + 1, m.store, m.batch, m.sent, m.closing)
      BY <1>6, <2>4, StoredFields
    <3>2. epoch' = [epoch EXCEPT ![t] = @ + 1]
      BY <1>6, <2>4 DEF InitTask
    <3>3. (m.sent => m.batch # <<>>)
      BY <2>1, <1>1 DEF BatchInv
    <3>4. /\ n \in TaskType /\ n.epoch = epoch[t] + 1 /\ (n.sent => n.batch # <<>>)
          /\ n.batch # <<>> => n.st = "running"
      BY <3>1, <3>3 DEF Fields
    <3> HIDE DEF n, m, o
    <3> QED
      BY <2>1, <2>2, <3>1, <3>2, <3>4, ProducerTypes
  <2> QED
    BY <2>3, <2>4
<1>7. CASE SendOffsets(i, t) \/ GiveUp(i, t) \/ TaskStops(i, t)
  <2>1. /\ UNCHANGED <<coordVars, epoch, process, memberGen, consumerVars, victim>>
        /\ UNCHANGED <<outputs, committed, slipped, work, manager>>
    BY <1>7 DEF SendOffsets, GiveUp, TaskStops, brokerVars
  <2>2. /\ BrokerTypes' /\ slipped' \subseteq Instances \X Tasks
        /\ work' \in [Instances -> [Tasks -> Places]]
        /\ manager' \in [Instances -> [Tasks -> Instances \cup {0}]]
    BY <2>1, <1>1 DEF BrokerTypes, ManagerTypes
  <2>3. /\ TaskTo(i, t, l)
        /\ \/ Fields(l, k.st, k.epoch, k.store, k.batch, TRUE, k.closing) /\ k.batch # <<>>
           \/ Fields(l, k.st, k.epoch, k.store, <<>>, FALSE, k.closing)
           \/ Fields(l, "stopped", 0, {}, <<>>, FALSE, TRUE)
    BY <1>7, TaskFields DEF SendOffsets
  <2>4. /\ l \in TaskType /\ (l.sent => l.batch # <<>>) /\ (l.batch # <<>> => l.st = "running")
        /\ l.epoch \in {0, k.epoch} /\ (l.st = "running" => l.epoch # 0)
    BY <2>3, <1>1 DEF Fields
  <2> HIDE DEF l
  <2> QED
    BY <2>1, <2>2, <2>3, <2>4, TaskTypes
<1>8. CASE CommitTransaction(i, t)
  <2>1. /\ UNCHANGED <<coordVars, epoch, process, memberGen, consumerVars, victim>>
        /\ UNCHANGED <<work, manager>>
    BY <1>8 DEF CommitTransaction
  <2>2. /\ TaskTo(i, t, l) /\ k.batch # <<>>
        /\ Fields(l, k.st, k.epoch, k.store \cup Offsets(k.batch), <<>>, FALSE, k.closing)
    BY <1>8, <1>1, TaskFields DEF CommitTransaction
  <2>3. outputs' \in [Tasks -> Seq(Nat)] /\ committed' \in [Tasks -> Nat]
    <3> DEFINE b == k.batch
    <3>1. b \in Seq(Nat) /\ b # <<>>
      BY <2>2, <1>1 DEF TaskType
    <3>2. /\ outputs' = [outputs EXCEPT ![t] = @ \o b]
          /\ committed' = [committed EXCEPT ![t] = b[Len(b)]]
      BY <1>8 DEF CommitTransaction
    <3> HIDE DEF b
    <3>3. b[Len(b)] \in Nat /\ outputs[t] \o b \in Seq(Nat)
      BY <3>1, <1>1 DEF BrokerTypes
    <3> QED
      BY <3>2, <3>3, <1>1 DEF BrokerTypes
  <2>4. slipped' \subseteq Instances \X Tasks
    BY <1>8, <1>1 DEF CommitTransaction, ManagerTypes
  <2>5. /\ BrokerTypes'
        /\ work' \in [Instances -> [Tasks -> Places]]
        /\ manager' \in [Instances -> [Tasks -> Instances \cup {0}]]
    BY <2>1, <2>3, <1>1 DEF BrokerTypes, ManagerTypes
  <2>6. /\ l \in TaskType /\ (l.sent => l.batch # <<>>) /\ (l.batch # <<>> => l.st = "running")
        /\ l.epoch \in {0, k.epoch} /\ (l.st = "running" => l.epoch # 0)
    BY <2>2, <1>1 DEF Fields
  <2> HIDE DEF l
  <2> QED
    BY <2>1, <2>2, <2>4, <2>5, <2>6, TaskTypes
<1>9. CASE RestartFenced(i, t)
  <2>1. /\ UNCHANGED <<coordVars, outputs, committed, process, memberGen, consumerVars, manager,
                       victim, slipped>>
        /\ UNCHANGED work /\ epoch' = [epoch EXCEPT ![t] = @ + 1] /\ k.st = "running"
    BY <1>9 DEF RestartFenced
  <2>2. work' \in [Instances -> [Tasks -> Places]]
    BY <2>1, <1>1 DEF ManagerTypes
  <2>3. /\ TaskTo(i, t, l)
        /\ Fields(l, k.st, epoch[t] + 1, k.store, k.batch, FALSE, k.closing)
    BY <1>9, TaskFields
  <2>4. /\ l \in TaskType /\ l.epoch = epoch[t] + 1 /\ (l.sent => l.batch # <<>>)
        /\ l.batch # <<>> => l.st = "running"
    BY <2>1, <2>3, <1>1 DEF Fields
  <2> HIDE DEF l
  <2> QED
    BY <2>1, <2>2, <2>3, <2>4, ProducerTypes
<1> QED
  BY <1>2, <1>3, <1>4, <1>5, <1>6, <1>7, <1>8, <1>9 DEF TaskStep

-----------------------------------------------------------------------------
(* The poll loops.                                                         *)

\* What other instances keep while one polls.
Same(j) ==
  /\ pc'[j] = pc[j] /\ stopping'[j] = stopping[j]
  /\ current'[j] = current[j] /\ held'[j] = held[j] /\ sending'[j] = sending[j]
  /\ pos'[j] = pos[j] /\ chan'[j] = chan[j] /\ claim'[j] = claim[j]
  /\ work'[j] = work[j] /\ memberGen'[j] = memberGen[j]

\* A channel never looks like no channel.
LEMMA Channels ==
  /\ \A s \in Seq(Nat \ {0}) :
       /\ s # NoChan
       /\ \A n \in Nat \ {0} : Append(s, n) \in Seq(Nat \ {0})
       /\ s # <<>> => Head(s) \in Nat \ {0} /\ Tail(s) \in Seq(Nat \ {0})
  /\ <<>> \in Seq(Nat \ {0})
<1>1. ASSUME NEW s \in Seq(Nat \ {0}) PROVE s # NoChan
  BY DEF NoChan
<1>2. ASSUME NEW s \in Seq(Nat \ {0}), NEW n \in Nat \ {0} PROVE Append(s, n) \in Seq(Nat \ {0})
  OBVIOUS
<1>3. ASSUME NEW s \in Seq(Nat \ {0}), s # <<>>
      PROVE  Head(s) \in Nat \ {0} /\ Tail(s) \in Seq(Nat \ {0})
  BY <1>3
<1> QED
  BY <1>1, <1>2, <1>3

\* What the loop of an instance may change.
LEMMA PollFrame ==
  ASSUME Types, NEW i \in Instances, PollLoop(i)
  PROVE  /\ UNCHANGED <<epoch, outputs, committed, managerIdle>>
         /\ CoordTypes' /\ memberGen' \in [Instances -> Nat]
         /\ work' \in [Instances -> [Tasks -> Places]] /\ ConsumerTypes'
         /\ \A j \in Instances : j # i => Same(j)
<1> USE DEF Types, ManagerTypes, PcTo, managerIdle
<1>1. CoordTypes /\ ConsumerTypes /\ MemberInv
  OBVIOUS
<1>2. CASE Subscribe(i)
  <2>1. CoordTypes'
    BY <1>2, CoordStep DEF Subscribe
  <2>2. UNCHANGED <<epoch, outputs, committed, memberGen, managerIdle, work, stopping,
                 current, held, pos, chan, claim, sending>> /\ PcTo(i, "poll")
    BY <1>2 DEF Subscribe
  <2> QED
    BY <2>1, <2>2 DEF ConsumerTypes, Same, Up
<1>3. CASE RejoinIdle(i)
  <2>1. CoordTypes'
    BY <1>3, CoordStep DEF RejoinIdle
  <2> QED
    BY <1>3, <2>1 DEF RejoinIdle, consumerVars, ConsumerTypes, Same
<1>4. CASE AssignedPartitions(i)
  <2>1. CoordTypes' /\ UNCHANGED brokerVars
    BY <1>4 DEF AssignedPartitions, CoordTypes, brokerVars, coordVars
  <2>2. /\ memberGen' \in [Instances -> Nat] /\ target[i] \in SUBSET Tasks
        /\ current' \in [Instances -> SUBSET Tasks]
    BY <1>4 DEF AssignedPartitions, CoordTypes, ConsumerTypes
  <2>3. work' \in [Instances -> [Tasks -> Places]]
    BY <1>4 DEF AssignedPartitions, StartWork, Places
  <2>4. UNCHANGED <<managerIdle, stopping, held, pos, chan, claim, sending>> /\ PcTo(i, "assign")
    BY <1>4 DEF AssignedPartitions
  <2>5. \A j \in Instances : j # i => Same(j)
    BY <1>4, <2>4 DEF AssignedPartitions, StartWork, Same, ConsumerTypes
  <2> QED
    BY <2>1, <2>2, <2>3, <2>4, <2>5 DEF ConsumerTypes, Up, brokerVars
<1>5. CASE RevokedPartitions(i) \/ StopSeen(i)
  <2>1. CoordTypes' /\ UNCHANGED <<brokerVars, memberGen, managerIdle>>
    BY <1>5 DEF RevokedPartitions, StopSeen, CoordTypes, brokerVars, coordVars
  <2>2. work' \in [Instances -> [Tasks -> Places]]
    <3>1. StartWork(i, current[i], "remove") \/ StartWork(i, {}, "remove")
      BY <1>5 DEF RevokedPartitions, StopSeen
    <3>2. ASSUME NEW ts PROVE [t \in Tasks |-> IF t \in ts THEN "remove" ELSE "none"] \in [Tasks -> Places]
      BY DEF Places
    <3>3. ASSUME NEW ts, StartWork(i, ts, "remove") PROVE work' \in [Instances -> [Tasks -> Places]]
      BY <3>2, <3>3 DEF StartWork
    <3> QED
      BY <3>1, <3>3
  <2>3. ConsumerTypes'
    BY <1>5 DEF RevokedPartitions, StopSeen, ConsumerTypes, Up
  <2>4. \A j \in Instances : j # i => Same(j)
    BY <1>5 DEF RevokedPartitions, StopSeen, StartWork, Same, ConsumerTypes
  <2> QED
    BY <2>1, <2>2, <2>3, <2>4 DEF brokerVars
<1>6. CASE Assign(i)
  <2>1. CoordTypes' /\ UNCHANGED <<brokerVars, memberGen, managerIdle, work, stopping, current, sending>>
    BY <1>6 DEF Assign, CoordTypes, brokerVars, coordVars
  <2>2. held' \in [Instances -> SUBSET Tasks] /\ pc' \in [Instances -> Up \cup {"new", "stopped", "dead"}]
    BY <1>6 DEF Assign, ConsumerTypes, Up
  <2>3. pos' \in [Instances -> [Tasks -> Nat]]
    BY <1>6 DEF Assign, ConsumerTypes, BrokerTypes
  <2>4. chan' \in [Instances -> [Tasks -> Seq(Nat \ {0}) \cup {NoChan}]]
    BY <1>6, Channels DEF Assign, ConsumerTypes
  <2>5. claim' \in [Instances -> [Tasks -> Instances \cup {0, NoClaim}]]
    BY <1>6 DEF Assign, ConsumerTypes
  <2>6. \A j \in Instances : j # i => Same(j)
    BY <1>6, <2>1 DEF Assign, Same, ConsumerTypes
  <2> QED
    BY <2>1, <2>2, <2>3, <2>4, <2>5, <2>6 DEF ConsumerTypes, brokerVars
<1>7. CASE Send(i)
  <2> DEFINE t == sending[i]
  <2>1. CoordTypes' /\ UNCHANGED <<brokerVars, memberGen, managerIdle, work, stopping, current, held, pos, claim>>
    BY <1>7 DEF Send, CoordTypes, brokerVars, coordVars
  <2>2. t \in Tasks /\ pos[i][t] \in Nat \ {0} /\ chan[i][t] \in Seq(Nat \ {0})
    BY <1>7 DEF Send, MemberInv, MemberOk, ConsumerTypes
  <2>3. chan' \in [Instances -> [Tasks -> Seq(Nat \ {0}) \cup {NoChan}]]
    <3>1. Append(chan[i][t], pos[i][t]) \in Seq(Nat \ {0}) \cup {NoChan}
      BY <2>2, Channels
    <3>2. chan' = [chan EXCEPT ![i][t] = Append(chan[i][t], pos[i][t])]
      BY <1>7 DEF Send
    <3> HIDE DEF t
    <3> QED
      BY <3>1, <3>2, <2>2 DEF ConsumerTypes
  <2>4. \A j \in Instances : j # i => Same(j)
    BY <1>7 DEF Send, Same, ConsumerTypes
  <2>5. sending' \in [Instances -> Tasks \cup {0}] /\ pc' \in [Instances -> Up \cup {"new", "stopped", "dead"}]
    BY <1>7 DEF Send, ConsumerTypes, Up
  <2> QED
    BY <2>1, <2>3, <2>4, <2>5 DEF ConsumerTypes, brokerVars
<1>8. ASSUME NEW t \in Tasks, Message(i, t)
      PROVE  /\ UNCHANGED <<epoch, outputs, committed, managerIdle>>
             /\ CoordTypes' /\ memberGen' \in [Instances -> Nat]
             /\ work' \in [Instances -> [Tasks -> Places]] /\ ConsumerTypes'
             /\ \A j \in Instances : j # i => Same(j)
  <2>1. CoordTypes' /\ UNCHANGED <<brokerVars, memberGen, managerIdle, work, stopping, current, held, claim>>
    BY <1>8 DEF Message, CoordTypes, brokerVars, coordVars
  <2>2. pos[i][t] \in Nat /\ chan[i][t] \in Seq(Nat \ {0})
    BY <1>8 DEF Message, ConsumerTypes
  <2>3. Append(chan[i][t], pos[i][t] + 1) \in Seq(Nat \ {0})
    BY <2>2, Channels
  <2>4. chan' \in [Instances -> [Tasks -> Seq(Nat \ {0}) \cup {NoChan}]]
    <3>1. chan' = chan \/ chan' = [chan EXCEPT ![i][t] = Append(chan[i][t], pos[i][t] + 1)]
      BY <1>8 DEF Message, ConsumerTypes
    <3>2. ASSUME NEW c \in Seq(Nat \ {0}) PROVE [chan EXCEPT ![i][t] = c] \in [Instances -> [Tasks -> Seq(Nat \ {0}) \cup {NoChan}]]
      BY DEF ConsumerTypes
    <3>3. chan \in [Instances -> [Tasks -> Seq(Nat \ {0}) \cup {NoChan}]]
      BY DEF ConsumerTypes
    <3> QED
      BY ONLY <3>1, <3>2, <3>3, <2>3
  <2>5. pos' \in [Instances -> [Tasks -> Nat]]
    BY <1>8, <2>2 DEF Message, ConsumerTypes
  <2>6. sending' \in [Instances -> Tasks \cup {0}] /\ pc' \in [Instances -> Up \cup {"new", "stopped", "dead"}]
    <3>1. UNCHANGED <<sending, pc>> \/ (sending' = [sending EXCEPT ![i] = t] /\ pc' = [pc EXCEPT ![i] = "send"])
      BY <1>8 DEF Message
    <3>2. /\ sending \in [Instances -> Tasks \cup {0}] /\ t \in Tasks \cup {0}
          /\ pc \in [Instances -> Up \cup {"new", "stopped", "dead"}] /\ "send" \in Up
      BY DEF ConsumerTypes, Up
    <3> QED
      BY ONLY <3>1, <3>2
  <2>7. \A j \in Instances : j # i => Same(j)
    BY <1>8 DEF Message, Same, ConsumerTypes
  <2> QED
    BY <2>1, <2>4, <2>5, <2>6, <2>7 DEF ConsumerTypes, brokerVars
<1>9. CASE Revoked(i)
  <2>1. CoordTypes'
    BY <1>9, CoordStep DEF Revoked
  <2>2. UNCHANGED <<epoch, outputs, committed, memberGen, managerIdle, work, stopping, current, sending>>
    BY <1>9 DEF Revoked
  <2>3. held' \in [Instances -> SUBSET Tasks] /\ pc' \in [Instances -> Up \cup {"new", "stopped", "dead"}]
    BY <1>9 DEF Revoked, ConsumerTypes, Up
  <2>4. pos' \in [Instances -> [Tasks -> Nat]]
    BY <1>9 DEF Revoked, ConsumerTypes
  <2>5. chan' \in [Instances -> [Tasks -> Seq(Nat \ {0}) \cup {NoChan}]]
    BY <1>9 DEF Revoked, ConsumerTypes
  <2>6. claim' \in [Instances -> [Tasks -> Instances \cup {0, NoClaim}]]
    BY <1>9 DEF Revoked, ConsumerTypes
  <2>7. \A j \in Instances : j # i => Same(j)
    BY <1>9, <2>2 DEF Revoked, Same, ConsumerTypes
  <2> QED
    BY <2>1, <2>2, <2>3, <2>4, <2>5, <2>6, <2>7 DEF ConsumerTypes
<1> QED
  BY <1>2, <1>3, <1>4, <1>5, <1>6, <1>7, <1>8, <1>9 DEF PollLoop

\* Membership as one instance sees it does not depend on what others poll.
LEMMA MemberOther ==
  ASSUME CoordTypes, NEW j \in Instances, MemberOk(j), Same(j), UNCHANGED <<gen, target>>,
         j \in members' => j \in members, j \in rejoined' => j \in rejoined,
         j \in members' /\ phase = "preparing" => phase' = "preparing",
         evictions' = 0 => evictions = 0 /\ (j \in members => j \in members')
  PROVE  MemberOk(j)'
BY DEF MemberOk, Same, Engaged

\* What the loops do to membership.
LEMMA PollMember ==
  ASSUME Types, NEW i \in Instances, PollLoop(i)
  PROVE  MemberInv'
<1>1. /\ CoordTypes /\ MemberInv /\ ConsumerTypes /\ memberGen \in [Instances -> Nat] /\ gen \in Nat
      /\ \A j \in Instances : j # i => Same(j) /\ MemberOk(j)
      /\ MemberOk(i)
  BY PollFrame DEF Types, MemberInv, ManagerTypes, CoordTypes
<1>2. ASSUME UNCHANGED <<gen, target, evictions>>, MemberOk(i)',
             members' \ {i} = members \ {i}, rejoined' \ {i} = rejoined \ {i},
             rejoined' \subseteq members', phase' = "stable" => rejoined' = {},
             phase = "preparing" /\ members' # {} => phase' = "preparing"
      PROVE  MemberInv'
  <2>1. ASSUME NEW j \in Instances PROVE MemberOk(j)'
    <3>1. CASE j # i
      BY <1>1, <1>2, <3>1, MemberOther
    <3> QED
      BY <3>1, <1>2
  <2> QED
    BY <1>1, <1>2, <2>1 DEF MemberInv
<1>3. ASSUME UNCHANGED coordVars, MemberOk(i)' PROVE MemberInv'
  BY <1>1, <1>2, <1>3 DEF coordVars, MemberInv
<1>4. CASE Subscribe(i)
  <2>1. /\ members' = members \cup {i} /\ rejoined' = rejoined \cup {i}
        /\ phase' = "preparing" /\ UNCHANGED <<gen, target, evictions>>
    BY <1>1, <1>4, CoordEffect DEF Subscribe
  <2>2. MemberOk(i)'
    BY <1>1, <1>4, <2>1 DEF Subscribe, PcTo, MemberOk, Engaged, ConsumerTypes, Up
  <2> QED
    BY <1>1, <1>2, <2>1, <2>2 DEF MemberInv
<1>5. CASE RejoinIdle(i)
  <2>1. /\ rejoined' = rejoined \cup {i} /\ i \in members /\ phase = "preparing"
        /\ UNCHANGED <<members, phase, gen, target, evictions, memberGen, consumerVars>>
    BY <1>5 DEF RejoinIdle, Rejoin
  <2>2. MemberOk(i)'
    BY <1>1, <1>5, <2>1 DEF RejoinIdle, consumerVars, MemberOk, Engaged
  <2> QED
    BY <1>1, <1>2, <2>1, <2>2 DEF MemberInv
<1>6. CASE AssignedPartitions(i)
  <2>1. MemberOk(i)'
    BY <1>1, <1>6 DEF AssignedPartitions, PcTo, brokerVars, coordVars, MemberOk, MemberInv, Engaged, ConsumerTypes, Up
  <2> QED
    BY <1>3, <1>6, <2>1 DEF AssignedPartitions, brokerVars
<1>7. CASE Assign(i)
  <2>1. MemberOk(i)'
    BY <1>1, <1>7 DEF Assign, PcTo, brokerVars, coordVars, MemberOk, Engaged, ConsumerTypes, Up
  <2> QED
    BY <1>3, <1>7, <2>1 DEF Assign, brokerVars
<1>8. CASE Send(i)
  <2>1. MemberOk(i)'
    BY <1>1, <1>8 DEF Send, PcTo, brokerVars, coordVars, MemberOk, Engaged, ConsumerTypes, Up
  <2> QED
    BY <1>3, <1>8, <2>1 DEF Send, brokerVars
<1>9. CASE RevokedPartitions(i)
  <2>1. MemberOk(i)'
    BY <1>1, <1>9 DEF RevokedPartitions, PcTo, brokerVars, coordVars, MemberOk, Engaged, ConsumerTypes, Up
  <2> QED
    BY <1>3, <1>9, <2>1 DEF RevokedPartitions, brokerVars
<1>10. CASE StopSeen(i)
  <2>1. MemberOk(i)'
    BY <1>1, <1>10 DEF StopSeen, PcTo, brokerVars, coordVars, MemberOk, Engaged, ConsumerTypes, Up
  <2> QED
    BY <1>3, <1>10, <2>1 DEF StopSeen, brokerVars
<1>11. CASE Revoked(i) /\ pc[i] = "close"
  <2>1. Leave({i}) /\ {i} \in SUBSET Instances
    BY <1>11 DEF Revoked
  <2>2. /\ members' = members \ {i} /\ rejoined' = rejoined \ {i}
        /\ phase' = "stable" => rejoined' = {}
        /\ phase = "preparing" /\ members' # {} => phase' = "preparing"
        /\ UNCHANGED <<gen, target, evictions>>
    BY <1>1, <2>1, CoordEffect
  <2>3. pc'[i] = "stopped" /\ held'[i] = {} /\ memberGen' = memberGen
    BY <1>1, <1>11 DEF Revoked, PcTo, ConsumerTypes
  <2>4. MemberOk(i)'
    BY <1>1, <2>2, <2>3 DEF MemberOk, Engaged
  <2> QED
    BY <1>1, <1>2, <2>2, <2>4 DEF MemberInv
<1>12. CASE Revoked(i) /\ pc[i] # "close"
  <2>1. /\ rejoined' = (IF i \in members THEN rejoined \cup {i} ELSE rejoined)
        /\ UNCHANGED <<members, phase, gen, target, evictions>>
        /\ i \in members => phase = "preparing"
    BY <1>12, <1>1 DEF Revoked, Rejoin, MemberOk
  <2>2. pc'[i] = "poll" /\ held'[i] = {} /\ memberGen' = memberGen /\ held[i] # {} /\ current'[i] = current[i]
    BY <1>1, <1>12 DEF Revoked, PcTo, ConsumerTypes, MemberOk
  <2>3. MemberOk(i)'
    BY <1>1, <2>1, <2>2 DEF MemberOk, Engaged, Up
  <2> QED
    BY <1>1, <1>2, <2>1, <2>3 DEF MemberInv
<1>13. ASSUME NEW t \in Tasks, Message(i, t) PROVE MemberInv'
  <2>1. MemberOk(i)'
    BY <1>1, <1>13 DEF Message, PcTo, brokerVars, coordVars, MemberOk, Engaged, ConsumerTypes, Up
  <2> QED
    BY <1>3, <1>13, <2>1 DEF Message, brokerVars
<1> QED
  BY <1>4, <1>5, <1>6, <1>7, <1>8, <1>9, <1>10, <1>11, <1>12, <1>13 DEF PollLoop

-----------------------------------------------------------------------------
(* Claims, coordination and the end of a process.                          *)

\* What the step of a Consume goroutine changes.
LEMMA ProcessEffect ==
  ASSUME Types, NEW i \in Instances, NEW t \in Tasks, Process(i, t)
  PROVE  LET o == claim[i][t]
             k == task[o][t]
             c == chan[i][t] IN
         /\ o \in Instances /\ c \in Seq(Nat \ {0}) /\ c # <<>>
         /\ k.st = "running" /\ ~k.closing /\ ~k.sent /\ k \in TaskType
         /\ TaskTo(o, t, task'[o][t])
         /\ Fields(task'[o][t], "running", k.epoch, k.store, Append(k.batch, Head(c)), FALSE, FALSE)
         /\ chan' \in [Instances -> [Tasks -> Seq(Nat \ {0}) \cup {NoChan}]]
         /\ chan'[i][t] = Tail(c)
         /\ \A j \in Instances, u \in Tasks : j # i \/ u # t => chan'[j][u] = chan[j][u]
<1> DEFINE o == claim[i][t]
           k == task[o][t]
           c == chan[i][t]
<1>1. /\ o \in Instances /\ c \in Seq(Nat \ {0}) /\ c # <<>>
      /\ k.st = "running" /\ ~k.closing /\ ~k.sent
      /\ chan \in [Instances -> [Tasks -> Seq(Nat \ {0}) \cup {NoChan}]]
  BY DEF Process, Types, ConsumerTypes
<1>2. k \in TaskType /\ task \in [Instances -> [Tasks -> TaskType]] /\ ManagerTypes
  BY <1>1 DEF Types, ManagerTypes
<1>3. Head(c) \in Nat /\ Tail(c) \in Seq(Nat \ {0})
  BY <1>1, Channels
<1>4. Append(k.batch, Head(c)) \in Seq(Nat)
  <2>1. k.batch \in Seq(Nat)
    BY <1>2 DEF TaskType
  <2> QED
    BY ONLY <2>1, <1>3
<1>5. k.sent = FALSE /\ k.closing = FALSE
  BY <1>1, <1>2 DEF TaskType
<1>6. /\ task' = [task EXCEPT ![o][t] = [k EXCEPT !.batch = Append(k.batch, Head(c))]]
      /\ chan' = [chan EXCEPT ![i][t] = Tail(c)]
  BY <1>1, <1>2 DEF Process
<1>7. /\ chan' \in [Instances -> [Tasks -> Seq(Nat \ {0}) \cup {NoChan}]]
      /\ chan'[i][t] = Tail(c)
      /\ \A j \in Instances, u \in Tasks : j # i \/ u # t => chan'[j][u] = chan[j][u]
  <2> HIDE DEF c
  <2> QED
    BY <1>1, <1>3, <1>6
<1>8. /\ TaskTo(o, t, task'[o][t])
      /\ Fields(task'[o][t], "running", k.epoch, k.store, Append(k.batch, Head(c)), FALSE, FALSE)
  <2> DEFINE b == Append(k.batch, Head(c))
             r == [k EXCEPT !.batch = b]
  <2>1. r \in TaskType /\ Fields(r, k.st, k.epoch, k.store, b, k.sent, k.closing)
    <3> HIDE DEF k, c, b
    <3>1. b \in Seq(Nat) /\ k \in TaskType
      BY <1>2, <1>4 DEF b
    <3> QED
      BY <3>1, FieldValues, FieldType
  <2>2. task' = [task EXCEPT ![o][t] = r]
    BY <1>6
  <2> HIDE DEF r, o, k, c, b
  <2>3. TaskTo(o, t, r)
    BY <1>1, <1>2, <2>1, <2>2, TaskUpdate
  <2>4. TaskTo(o, t, task'[o][t]) /\ task'[o][t] = r
    BY <2>3 DEF TaskTo
  <2> QED
    BY <2>1, <2>4, <1>1, <1>5 DEF b
<1> QED
  BY <1>1, <1>2, <1>7, <1>8

\* Consume goroutines and Unsubscribe keep the types.
LEMMA ClaimTypes ==
  ASSUME Types, NEW i \in Instances, NEW t \in Tasks,
         Consume(i, t) \/ Process(i, t) \/ ClaimEnds(i, t) \/ Unsubscribe(i)
  PROVE  Types'
<1>1. /\ UNCHANGED <<brokerVars, memberGen, process, manager, victim, slipped, work, pc, current,
                     held, pos, sending>>
      /\ CoordTypes' /\ BrokerTypes'
  BY DEF Consume, Process, ClaimEnds, Unsubscribe, managerIdle, Types, CoordTypes, BrokerTypes,
         brokerVars, coordVars
<1>2. CASE Consume(i, t) \/ ClaimEnds(i, t) \/ Unsubscribe(i)
  <2>1. UNCHANGED <<task, chan>>
    BY <1>2 DEF Consume, ClaimEnds, Unsubscribe, managerIdle
  <2>2. Stored(i, t) \in Instances \cup {0}
    BY StoredFields
  <2>3. claim' \in [Instances -> [Tasks -> Instances \cup {0, NoClaim}]]
    <3>1. claim \in [Instances -> [Tasks -> Instances \cup {0, NoClaim}]]
      BY DEF Types, ConsumerTypes
    <3> QED
      BY <1>2, <2>2, <3>1 DEF Consume, ClaimEnds, Unsubscribe
  <2>4. stopping' \in [Instances -> {"no", "sent", "seen"}]
    <3>1. stopping \in [Instances -> {"no", "sent", "seen"}]
      BY DEF Types, ConsumerTypes
    <3> QED
      BY <1>2, <3>1 DEF Consume, ClaimEnds, Unsubscribe
  <2>5. ConsumerTypes'
    BY <1>1, <2>1, <2>3, <2>4 DEF Types, ConsumerTypes
  <2>6. ManagerTypes' /\ BatchInv' /\ EpochInv' /\ MemberInv'
    BY <1>1, <2>1 DEF Types, ManagerTypes, BatchInv, EpochInv, MemberInv, MemberOk, Engaged,
                      brokerVars, coordVars
  <2> QED
    BY <1>1, <2>5, <2>6 DEF Types
<1>3. CASE Process(i, t)
  <2> DEFINE o == claim[i][t]
             l == task'[o][t]
  <2>1. /\ o \in Instances /\ TaskTo(o, t, l) /\ l \in TaskType
        /\ ~l.sent /\ l.st = "running" /\ l.epoch = task[o][t].epoch
    BY <1>3, ProcessEffect DEF Fields
  <2>2. /\ chan' \in [Instances -> [Tasks -> Seq(Nat \ {0}) \cup {NoChan}]]
        /\ \A j \in Instances, u \in Tasks :
             chan[j][u] # NoChan => chan'[j][u] # NoChan
    <3>1. Tail(chan[i][t]) \in Seq(Nat \ {0})
      BY <1>3, ProcessEffect, Channels
    <3>2. chan'[i][t] # NoChan
      BY <1>3, <3>1, ProcessEffect, Channels
    <3>3. \A j \in Instances, u \in Tasks : j # i \/ u # t => chan'[j][u] = chan[j][u]
      BY <1>3, ProcessEffect
    <3>4. chan' \in [Instances -> [Tasks -> Seq(Nat \ {0}) \cup {NoChan}]]
      BY <1>3, ProcessEffect
    <3> QED
      BY <3>2, <3>3, <3>4
  <2>3. l.epoch # 0 /\ UNCHANGED epoch /\ epoch \in [Tasks -> Nat] /\ EpochInv /\ BatchInv
    <3>1. EpochInv /\ BatchInv /\ epoch \in [Tasks -> Nat]
      BY DEF Types, BrokerTypes
    <3>2. task[o][t].st = "running"
      BY <1>3, ProcessEffect
    <3>3. task[o][t].epoch # 0
      BY <2>1, <3>1, <3>2 DEF EpochInv
    <3> QED
      BY <1>1, <2>1, <3>1, <3>3 DEF brokerVars
  <2>4. BatchInv' /\ EpochInv' /\ task' \in [Instances -> [Tasks -> TaskType]]
    <3> HIDE DEF o, l
    <3>1. BatchInv'
      BY <2>1, <2>3, BatchStep
    <3>2. EpochInv'
      BY <2>1, <2>3, EpochKept
    <3> QED
      BY <3>1, <3>2, <2>1 DEF TaskTo
  <2>5. ManagerTypes' /\ ConsumerTypes'
    BY <1>1, <1>3, <2>2, <2>4 DEF Process, Types, ManagerTypes, ConsumerTypes
  <2>6. MemberInv'
    <3>1. ASSUME NEW j \in Instances PROVE MemberOk(j)'
      <4>1. /\ UNCHANGED <<members, rejoined, phase, gen, target, evictions, memberGen, pc, current,
                           held, pos, sending>>
            /\ MemberOk(j) /\ (pc[j] = "send" => sending[j] \in Tasks)
        BY <1>1 DEF Types, MemberInv, MemberOk, brokerVars, coordVars, ConsumerTypes
      <4>2. pc[j] = "send" => chan'[j][sending[j]] # NoChan
        BY <4>1, <2>2 DEF MemberOk
      <4> QED
        BY <4>1, <4>2 DEF MemberOk, Engaged
    <3> QED
      BY <1>1, <3>1 DEF Types, MemberInv, brokerVars, coordVars
  <2> QED
    BY <1>1, <2>4, <2>5, <2>6 DEF Types
<1> QED
  BY <1>2, <1>3

\* What the end of a process leaves.
LEMMA GoneEffect ==
  ASSUME Types, NEW p \in Instances, NEW s \in {"new", "dead"}, Gone(p, s)
  PROVE  /\ \A j \in Instances : process[j] # p =>
              Same(j) /\ task'[j] = task[j] /\ victim'[j] = victim[j]
         /\ \A j \in Instances : process[j] = p =>
              /\ pc'[j] \notin Up /\ held'[j] = {} /\ current'[j] = {} /\ memberGen'[j] = memberGen[j]
              /\ \A u \in Tasks : /\ task'[j][u] = NoTask /\ work'[j][u] = "none"
                                  /\ chan'[j][u] = NoChan /\ claim'[j][u] = NoClaim
         /\ \A u \in Tasks : manager'[p][u] = 0
         /\ \A q \in Instances, u \in Tasks : q # p => manager'[q][u] = manager[q][u]
         /\ members' = members \ {j \in Instances : process[j] = p}
         /\ rejoined' = rejoined \ {j \in Instances : process[j] = p}
         /\ phase' = "stable" => rejoined' = {}
         /\ phase = "preparing" /\ members' # {} => phase' = "preparing"
         /\ UNCHANGED <<gen, target, evictions, epoch, outputs, committed, process, memberGen, slipped>>
<1> DEFINE I == {j \in Instances : process[j] = p}
<1>1. CoordTypes /\ MemberInv /\ I \in SUBSET Instances /\ Leave(I)
  BY DEF Types, Gone
<1>2. /\ members' = members \ I /\ rejoined' = rejoined \ I
      /\ phase' = "stable" => rejoined' = {}
      /\ phase = "preparing" /\ members' # {} => phase' = "preparing"
      /\ UNCHANGED <<gen, target, evictions>>
  <2> HIDE DEF I
  <2> QED
    BY <1>1, CoordEffect, Names
<1>3. UNCHANGED <<epoch, outputs, committed, process, memberGen, slipped>>
  BY DEF Gone
<1>4. ASSUME NEW j \in Instances, process[j] # p
      PROVE  Same(j) /\ task'[j] = task[j] /\ victim'[j] = victim[j]
  BY <1>3, <1>4 DEF Gone, Same
<1>5. ASSUME NEW j \in Instances, process[j] = p
      PROVE  /\ pc'[j] \notin Up /\ held'[j] = {} /\ current'[j] = {} /\ memberGen'[j] = memberGen[j]
             /\ \A u \in Tasks : /\ task'[j][u] = NoTask /\ work'[j][u] = "none"
                                 /\ chan'[j][u] = NoChan /\ claim'[j][u] = NoClaim
  BY <1>3, <1>5 DEF Gone, Up
<1>6. /\ \A u \in Tasks : manager'[p][u] = 0
      /\ \A q \in Instances, u \in Tasks : q # p => manager'[q][u] = manager[q][u]
  BY DEF Gone, Types, ManagerTypes
<1> QED
  BY <1>2, <1>3, <1>4, <1>5, <1>6

\* The types after a process has ended.
LEMMA GoneTypes ==
  ASSUME Types, NEW p \in Instances, NEW s \in {"new", "dead"}, Gone(p, s)
  PROVE  Types'
<1> DEFINE I == {j \in Instances : process[j] = p}
<1>1. CoordTypes' /\ BrokerTypes'
  <2>1. I \in SUBSET Instances /\ Leave(I)
    BY DEF Gone
  <2>2. CoordTypes'
    <3> HIDE DEF I
    <3> QED
      BY <2>1, CoordStep, Names DEF Types
  <2> QED
    BY <2>2 DEF Gone, Types, BrokerTypes
<1>2. ConsumerTypes'
  <2> USE DEF Gone, Types, ConsumerTypes, Up
  <2>1. pc' \in [Instances -> Up \cup {"new", "stopped", "dead"}]
    OBVIOUS
  <2>2. stopping' \in [Instances -> {"no", "sent", "seen"}]
    OBVIOUS
  <2>3. current' \in [Instances -> SUBSET Tasks] /\ held' \in [Instances -> SUBSET Tasks]
    OBVIOUS
  <2>4. pos' \in [Instances -> [Tasks -> Nat]]
    OBVIOUS
  <2>5. chan' \in [Instances -> [Tasks -> Seq(Nat \ {0}) \cup {NoChan}]]
    OBVIOUS
  <2>6. claim' \in [Instances -> [Tasks -> Instances \cup {0, NoClaim}]]
    OBVIOUS
  <2>7. sending' \in [Instances -> Tasks \cup {0}]
    OBVIOUS
  <2> QED
    BY <2>1, <2>2, <2>3, <2>4, <2>5, <2>6, <2>7
<1>3. ManagerTypes'
  <2> USE DEF Gone, Types, ManagerTypes
  <2>1. NoTask \in TaskType /\ "none" \in Places
    BY DEF NoTask, TaskType, Places
  <2>2. task' \in [Instances -> [Tasks -> TaskType]]
    BY <2>1
  <2>3. work' \in [Instances -> [Tasks -> Places]]
    BY <2>1
  <2>4. victim' \in [Instances -> [Tasks -> Instances \cup {0}]]
    OBVIOUS
  <2>5. manager' \in [Instances -> [Tasks -> Instances \cup {0}]]
    OBVIOUS
  <2> QED
    BY <2>2, <2>3, <2>4, <2>5
<1>4. ASSUME NEW j \in Instances, NEW u \in Tasks
      PROVE  task'[j][u] = task[j][u] \/ task'[j][u] = NoTask
  BY GoneEffect
<1>5. BatchInv'
  <2>1. BatchInv
    BY DEF Types
  <2> QED
    BY <1>4, <2>1 DEF BatchInv, NoTask
<1>6. EpochInv'
  <2>1. EpochInv /\ UNCHANGED epoch /\ epoch \in [Tasks -> Nat]
    BY GoneEffect DEF Types, BrokerTypes
  <2>2. ASSUME NEW j \in Instances, NEW u \in Tasks
        PROVE  /\ task'[j][u].epoch <= epoch'[u]
               /\ task'[j][u].st = "running" => task'[j][u].epoch # 0
               /\ task'[j][u].epoch \in {0, task[j][u].epoch}
    BY <1>4, <2>1 DEF EpochInv, NoTask
  <2> QED
    BY <2>1, <2>2 DEF EpochInv
<1>7. MemberInv'
  <2>1. /\ members' = members \ I /\ rejoined' = rejoined \ I
        /\ phase' = "stable" => rejoined' = {}
        /\ phase = "preparing" /\ members' # {} => phase' = "preparing"
        /\ UNCHANGED <<gen, target, evictions>> /\ MemberInv /\ CoordTypes
    BY GoneEffect DEF Types
  <2>2. ASSUME NEW j \in Instances PROVE MemberOk(j)'
    <3>1. CASE j \in I
      BY <2>1, <3>1, GoneEffect DEF MemberInv, MemberOk, Engaged, Up
    <3>2. CASE j \notin I
      <4>1. Same(j) /\ MemberOk(j)
        BY <2>1, <3>2, GoneEffect DEF MemberInv
      <4> QED
        BY <2>1, <3>2, <4>1, MemberOther
    <3> QED
      BY <3>1, <3>2
  <2> QED
    BY <2>1, <2>2 DEF MemberInv
<1> QED
  BY <1>1, <1>2, <1>3, <1>5, <1>6, <1>7 DEF Types

\* Evictions and rebalances.
LEMMA CoordinatorTypes ==
  ASSUME Types, NEW i \in Instances, Evict(i) \/ Sync
  PROVE  Types'
<1>1. /\ UNCHANGED <<epoch, outputs, committed, process, memberGen, task, manager, victim, slipped,
                     work, consumerVars>>
      /\ EvictMember(i) \/ SyncGroup
  BY DEF Evict, Sync, managerIdle
<1>2. CoordTypes' /\ BrokerTypes'
  BY <1>1, CoordStep, Names DEF Types, BrokerTypes
<1>3. ManagerTypes' /\ ConsumerTypes' /\ BatchInv' /\ EpochInv'
  BY <1>1 DEF Types, ManagerTypes, ConsumerTypes, consumerVars, BatchInv, EpochInv
<1>4. CoordTypes /\ MemberInv /\ \A j \in Instances : Same(j) /\ MemberOk(j)
  BY <1>1 DEF Types, MemberInv, Same, consumerVars
<1>5. MemberInv'
  <2>1. CASE EvictMember(i)
    <3>1. /\ members' = members \ {i} /\ rejoined' = rejoined \ {i}
          /\ phase' = "stable" => rejoined' = {}
          /\ phase = "preparing" /\ members' # {} => phase' = "preparing"
          /\ evictions' # 0 /\ UNCHANGED <<gen, target>>
      BY <1>4, <2>1, CoordEffect, Names
    <3>2. ASSUME NEW j \in Instances PROVE MemberOk(j)'
      BY <1>4, <3>1, MemberOther
    <3> QED
      BY <1>4, <3>1, <3>2 DEF MemberInv
  <2>2. CASE SyncGroup
    <3>1. /\ members \subseteq rejoined /\ members' = members /\ rejoined' = {}
          /\ gen' = gen + 1 /\ gen \in Nat /\ target' = Share(members) /\ evictions' = evictions
          /\ members \in SUBSET Instances
      BY <1>4, <2>2 DEF SyncGroup, CoordTypes
    <3>2. ASSUME NEW j \in Instances PROVE MemberOk(j)'
      <4>1. Engaged(j) => j \notin members
        BY <1>4, <3>1 DEF MemberOk
      <4>2. memberGen[j] \in Nat /\ memberGen'[j] = memberGen[j]
        BY <1>1 DEF Types, ManagerTypes
      <4>3. Engaged(j)' = Engaged(j)
        BY <1>1 DEF Engaged, consumerVars
      <4>4. j \in members => pc[j] # "revoke"
        BY <1>4, <4>1 DEF MemberOk, Engaged
      <4>5. memberGen'[j] <= gen'
        BY <1>4, <3>1, <4>2 DEF MemberOk
      <4> QED
        BY <1>1, <1>4, <3>1, <4>1, <4>3, <4>4, <4>5 DEF MemberOk, consumerVars
    <3>3. \A j, k \in Instances : j # k => target'[j] \cap target'[k] = {}
      BY <3>1, ShareDisjoint
    <3> QED
      BY <3>1, <3>2, <3>3 DEF MemberInv
  <2> QED
    BY <1>1, <2>1, <2>2
<1> QED
  BY <1>2, <1>3, <1>5 DEF Types

-----------------------------------------------------------------------------
(* Type correctness.                                                       *)

\* The types hold at first.
LEMMA InitTypes == Init => Types
<1> SUFFICES ASSUME Init PROVE Types
  OBVIOUS
<1>1. CoordTypes /\ BrokerTypes
  BY Names DEF Init, BrokerInit, CoordTypes, BrokerTypes
<1>2. ManagerTypes
  <2>1. NoTask \in TaskType /\ "none" \in Places
    BY DEF NoTask, TaskType, Places
  <2> QED
    BY <2>1 DEF Init, ManagerInit, ManagerTypes
<1>3. ConsumerTypes
  BY Names DEF Init, ConsumerTypes
<1>4. BatchInv /\ EpochInv
  BY DEF Init, BrokerInit, ManagerInit, NoTask, BatchInv, EpochInv
<1>5. MemberInv
  BY Names DEF Init, BrokerInit, ManagerInit, MemberInv, MemberOk, Engaged
<1> QED
  BY <1>1, <1>2, <1>3, <1>4, <1>5 DEF Types

\* Every step keeps them.
LEMMA NextTypes == Types /\ [Next]_vars => Types'
<1> SUFFICES ASSUME Types, [Next]_vars PROVE Types'
  OBVIOUS
<1>1. CASE Sync
  <2>1. 1 \in Instances
    BY Names DEF Instances
  <2> QED
    BY <1>1, <2>1, CoordinatorTypes
<1>2. ASSUME NEW i \in Instances, PollLoop(i) PROVE Types'
  <2>1. MemberInv'
    BY <1>2, PollMember
  <2>2. /\ UNCHANGED <<epoch, outputs, committed, process, task, manager, victim, slipped>>
        /\ CoordTypes' /\ memberGen' \in [Instances -> Nat]
        /\ work' \in [Instances -> [Tasks -> Places]] /\ ConsumerTypes'
    BY <1>2, PollFrame DEF managerIdle
  <2>3. BrokerTypes' /\ ManagerTypes' /\ BatchInv' /\ EpochInv'
    BY <2>2 DEF Types, BrokerTypes, ManagerTypes, BatchInv, EpochInv
  <2> QED
    BY <2>1, <2>2, <2>3 DEF Types
<1>3. ASSUME NEW i \in Instances, NEW t \in Tasks, Claims(i, t) \/ Manager(i, t) PROVE Types'
  <2>1. CASE InitPanics(i, t)
    <3>1. process[i] \in Instances
      BY Names DEF Types, ManagerTypes, Instances
    <3> QED
      BY <2>1, <3>1, GoneTypes DEF InitPanics
  <2> QED
    BY <1>3, <2>1, ClaimTypes, TaskStepTypes DEF Claims, Manager
<1>4. ASSUME NEW i \in Instances, Unsubscribe(i) PROVE Types'
  <2>1. 1 \in Tasks
    BY Names DEF Tasks
  <2> QED
    BY <1>4, <2>1, ClaimTypes
<1>5. ASSUME NEW i \in Instances, Evict(i) PROVE Types'
  BY <1>5, CoordinatorTypes
<1>6. ASSUME NEW i \in Instances, Crash(i) PROVE Types'
  BY <1>6, GoneTypes DEF Crash
<1>7. CASE UNCHANGED vars
  BY <1>7 DEF vars, brokerVars, coordVars, managerVars, consumerVars, Types, CoordTypes, BrokerTypes,
              ManagerTypes, ConsumerTypes, BatchInv, EpochInv, MemberInv, MemberOk, Engaged
<1> QED
  BY <1>1, <1>2, <1>3, <1>4, <1>5, <1>6, <1>7 DEF Next, Instance

\* No channel holds more than its capacity.
ChanInv == \A i \in Instances, t \in Tasks : chan[i][t] = NoChan \/ Len(chan[i][t]) <= ChanCap

LEMMA NextChan == Types /\ ChanInv /\ [Next]_vars => ChanInv'
<1> SUFFICES ASSUME Types, ChanInv, [Next]_vars, NEW j \in Instances, NEW u \in Tasks
             PROVE  chan'[j][u] = NoChan \/ Len(chan'[j][u]) <= ChanCap
  BY DEF ChanInv
<1> DEFINE c == chan[j][u]
<1>1. /\ chan \in [Instances -> [Tasks -> Seq(Nat \ {0}) \cup {NoChan}]]
      /\ ChanCap \in Nat \ {0} /\ (c = NoChan \/ Len(c) <= ChanCap)
  BY GroupConsumerAssumption DEF Types, ConsumerTypes, ChanInv
<1>2. ASSUME UNCHANGED chan PROVE chan'[j][u] = NoChan \/ Len(chan'[j][u]) <= ChanCap
  BY <1>1, <1>2
<1>3. ASSUME NEW i \in Instances, Assign(i) \/ Revoked(i)
      PROVE  chan'[j][u] = NoChan \/ Len(chan'[j][u]) <= ChanCap
  BY <1>1, <1>3 DEF Assign, Revoked
<1>4. ASSUME NEW p \in Instances, NEW s \in {"new", "dead"}, Gone(p, s)
      PROVE  chan'[j][u] = NoChan \/ Len(chan'[j][u]) <= ChanCap
  <2>1. CASE process[j] = p
    BY <1>4, <2>1, GoneEffect
  <2>2. CASE process[j] # p
    <3>1. chan'[j] = chan[j]
      BY <1>4, <2>2, GoneEffect DEF Same
    <3> QED
      BY <1>1, <3>1
  <2> QED
    BY <2>1, <2>2
<1>5. ASSUME NEW i \in Instances, NEW t \in Tasks, NEW n,
             chan' = [chan EXCEPT ![i][t] = Append(@, n)], Len(chan[i][t]) < ChanCap,
             chan[i][t] \in Seq(Nat \ {0}), n \in Nat \ {0}
      PROVE  chan'[j][u] = NoChan \/ Len(chan'[j][u]) <= ChanCap
  <2>1. CASE j = i /\ u = t
    BY <1>1, <1>5, <2>1
  <2>2. CASE j # i \/ u # t
    BY <1>1, <1>5, <2>2
  <2> QED
    BY <2>1, <2>2
<1>6. ASSUME NEW i \in Instances, Send(i) PROVE chan'[j][u] = NoChan \/ Len(chan'[j][u]) <= ChanCap
  <2> DEFINE t == sending[i]
  <2>1. /\ t \in Tasks /\ pos[i][t] \in Nat \ {0} /\ chan[i][t] \in Seq(Nat \ {0})
        /\ Len(chan[i][t]) < ChanCap /\ chan' = [chan EXCEPT ![i][t] = Append(@, pos[i][t])]
    BY <1>6 DEF Send, Types, MemberInv, MemberOk, ConsumerTypes
  <2> HIDE DEF t
  <2> QED
    BY <2>1, <1>5
<1>7. ASSUME NEW i \in Instances, NEW t \in Tasks, Message(i, t)
      PROVE  chan'[j][u] = NoChan \/ Len(chan'[j][u]) <= ChanCap
  <2> DEFINE n == pos[i][t] + 1
  <2>1. /\ n \in Nat \ {0} /\ chan[i][t] \in Seq(Nat \ {0})
        /\ UNCHANGED chan \/ (chan' = [chan EXCEPT ![i][t] = Append(@, n)] /\ Len(chan[i][t]) < ChanCap)
    BY <1>7 DEF Message, Types, ConsumerTypes
  <2> HIDE DEF n
  <2> QED
    BY <2>1, <1>2, <1>5
<1>8. ASSUME NEW i \in Instances, NEW t \in Tasks, Process(i, t)
      PROVE  chan'[j][u] = NoChan \/ Len(chan'[j][u]) <= ChanCap
  <2>1. /\ chan[i][t] \in Seq(Nat \ {0}) /\ chan[i][t] # <<>> /\ chan'[i][t] = Tail(chan[i][t])
        /\ \A k \in Instances, v \in Tasks : k # i \/ v # t => chan'[k][v] = chan[k][v]
    BY <1>8, ProcessEffect
  <2>2. CASE j = i /\ u = t
    <3>1. c # NoChan
      BY <2>1, <2>2, Channels
    <3>2. Len(Tail(c)) <= Len(c) /\ Len(Tail(c)) \in Nat /\ Len(c) \in Nat
      <4>1. c \in Seq(Nat \ {0}) /\ c # <<>>
        BY <2>1, <2>2
      <4> QED
        BY ONLY <4>1
    <3>3. chan'[j][u] = Tail(c) /\ Len(c) <= ChanCap /\ ChanCap \in Nat
      BY <1>1, <2>1, <2>2, <3>1
    <3> QED
      BY ONLY <3>2, <3>3
  <2>3. CASE j # i \/ u # t
    BY <1>1, <2>1, <2>3
  <2> QED
    BY <2>2, <2>3
<1>9. ASSUME NEW i \in Instances,
             \/ Subscribe(i) \/ AssignedPartitions(i) \/ RevokedPartitions(i) \/ RejoinIdle(i)
             \/ StopSeen(i) \/ Unsubscribe(i) \/ Evict(i)
      PROVE  UNCHANGED chan
  BY <1>9 DEF Subscribe, AssignedPartitions, RevokedPartitions, RejoinIdle, StopSeen, Unsubscribe,
              Evict, consumerVars
<1>10. ASSUME NEW i \in Instances, NEW t \in Tasks, Consume(i, t) \/ ClaimEnds(i, t) \/ Manager(i, t)
       PROVE  UNCHANGED chan
  BY <1>10 DEF Consume, ClaimEnds, Manager, consumerVars
<1>11. ASSUME NEW i \in Instances, Instance(i)
       PROVE  chan'[j][u] = NoChan \/ Len(chan'[j][u]) <= ChanCap
  <2>1. process[i] \in Instances
    BY Names DEF Types, ManagerTypes, Instances
  <2> QED
    BY <1>11, <2>1, <1>2, <1>3, <1>4, <1>6, <1>7, <1>8, <1>9, <1>10
       DEF Instance, PollLoop, Claims, InitPanics
<1>12. CASE Sync \/ UNCHANGED vars
  BY <1>12, <1>2 DEF Sync, vars, consumerVars
<1> QED
  BY <1>2, <1>4, <1>9, <1>11, <1>12 DEF Next, Crash

\* GroupConsumer.TypeOK holds always: the types of the variables, and the
\* capacity of the claims' channels, which the poll loop waits for (Send).
THEOREM GroupTypeOK == Spec => []TypeOK
<1>1. Init => Types /\ ChanInv
  <2>1. Init => ChanInv
    BY DEF Init, ChanInv
  <2> QED
    BY <2>1, InitTypes
<1>2. Types /\ ChanInv /\ [Next]_vars => (Types /\ ChanInv)'
  BY NextTypes, NextChan
<1>3. Types /\ ChanInv => TypeOK
  BY Names DEF Types, ManagerTypes, ConsumerTypes, ChanInv, TypeOK, Places
<1> QED
  BY <1>1, <1>2, <1>3, PTL DEF Spec

-----------------------------------------------------------------------------
(* Whose task is whose.                                                    *)

\* A partition is assigned once, and once per process where it matters.
LEMMA Exclusive ==
  ASSUME Types, NEW i \in Instances, NEW j \in Instances, NEW t \in Tasks, Has(i, t), Has(j, t),
         i \in members \/ evictions = 0, j \in members \/ evictions = 0
  PROVE  i = j
BY DEF Types, MemberInv, MemberOk, Has

LEMMA SameProcess ==
  ASSUME Types, Regular, NEW i \in Instances, NEW j \in Instances, NEW t \in Tasks,
         Has(i, t), Has(j, t), process[i] = process[j]
  PROVE  i = j
BY Exclusive DEF Regular

\* The map of the process names an instance's own task or none.
LEMMA StoredOwn ==
  ASSUME Types, Regular, Core, NEW i \in Instances, NEW t \in Tasks
  PROVE  /\ process[i] \in Instances
         /\ Has(i, t) => Stored(i, t) \in {0, i}
         /\ \A j \in Instances : Stored(i, t) = i /\ Stored(j, t) = j /\ process[i] = process[j] => i = j
<1>1. process[i] \in Instances /\ Stored(i, t) \in Instances \cup {0}
  <2>1. process[i] \in Instances
    BY Names DEF Types, ManagerTypes, Instances
  <2> QED
    BY <2>1, StoredFields
<1>2. StoredInv
  BY DEF Core
<1>3. ASSUME Has(i, t), Stored(i, t) # 0 PROVE Stored(i, t) = i
  <2>1. process[Stored(i, t)] = process[i] /\ Has(Stored(i, t), t)
    BY <1>1, <1>2, <1>3 DEF StoredInv, Stored
  <2> QED
    BY <1>1, <1>3, <2>1, SameProcess
<1>4. ASSUME NEW j \in Instances, Stored(i, t) = i, Stored(j, t) = j, process[i] = process[j]
      PROVE  i = j
  BY <1>4 DEF Stored
<1> QED
  BY <1>1, <1>3, <1>4

\* Where a task is in its life.
LEMMA WorkLife ==
  ASSUME NEW i \in Instances, NEW t \in Tasks, LifeInv(i, t)
  PROVE  /\ work[i][t] = "remove" => Claimed(i, t)
         /\ work[i][t] = "removing" => Stopping(i, t)
         /\ work[i][t] \in {"add", "restore"} => Added(i, t)
         /\ work[i][t] = "init" => Restored(i, t)
         /\ work[i][t] # "adding"
         /\ claim[i][t] \in {0, i, NoClaim}
BY DEF LifeInv, Outside, Added, Restored, Started, Claimed, Stopping, Removed, Unclaimed

\* A task that does not run has nothing to commit.
LEMMA NothingRuns ==
  ASSUME BatchInv, NEW i \in Instances, NEW t \in Tasks, task[i][t].st # "running"
  PROVE  task[i][t].batch = <<>> /\ ~task[i][t].sent
BY DEF BatchInv

\* Nothing flows through a task that does not run.
LEMMA NoFlow ==
  ASSUME BatchInv', NEW i \in Instances, NEW t \in Tasks, task'[i][t].st # "running"
  PROVE  FlowInv(i, t)'
<1>1. task'[i][t].batch = <<>>
  BY DEF BatchInv
<1>2. ~Claimed(i, t)'
  BY DEF Claimed, Kept
<1>3. \A n \in Nat : From(<<>>, n)
  BY DEF From
<1> QED
  BY <1>1, <1>2 DEF FlowInv, From

\* Regularity is never gained.
LEMMA RegularBack ==
  ASSUME CoordTypes, UNCHANGED process, evictions' \in {evictions, evictions + 1}, Regular'
  PROVE  Regular
BY DEF Regular, CoordTypes

-----------------------------------------------------------------------------
(* What a step leaves alone.                                               *)

\* A step that does not concern task u of instance j.
Keeps(j, u) ==
  /\ pc'[j] = pc[j] /\ current'[j] = current[j] /\ held'[j] = held[j] /\ sending'[j] = sending[j]
  /\ work'[j][u] = work[j][u] /\ victim'[j][u] = victim[j][u] /\ task'[j][u] = task[j][u]
  /\ claim'[j][u] = claim[j][u] /\ chan'[j][u] = chan[j][u] /\ pos'[j][u] = pos[j][u]
  /\ (Stored(j, u) = j)' = (Stored(j, u) = j)
  /\ j \in members' /\ Has(j, u) => j \in members

\* Such a task stays where it was in its life.
LEMMA KeepsLife ==
  ASSUME NEW j \in Instances, NEW u \in Tasks, Keeps(j, u)
  PROVE  /\ Has(j, u)' = Has(j, u) /\ (Owns(j, u)' => Owns(j, u))
         /\ Restored(j, u)' = Restored(j, u)
         /\ Claimed(j, u)' = Claimed(j, u)
         /\ LifeInv(j, u) => LifeInv(j, u)'
<1>1. Has(j, u)' = Has(j, u) /\ (Owns(j, u)' => Owns(j, u))
  BY DEF Keeps, Has, Engaged, Owns
<1>2. Restored(j, u)' = Restored(j, u)
  BY DEF Keeps, Restored, Unclaimed
<1>3. Claimed(j, u)' = Claimed(j, u)
  BY DEF Keeps, Claimed, Kept
<1>4. Outside(j, u) => Outside(j, u)'
  BY <1>1 DEF Keeps, Outside, Unclaimed, NotKept
<1>5. Added(j, u) => Added(j, u)'
  BY DEF Keeps, Added, Unclaimed, NotKept
<1>6. Started(j, u) => Started(j, u)'
  BY DEF Keeps, Started, Unclaimed, Kept
<1>7. Stopping(j, u) => Stopping(j, u)'
  BY DEF Keeps, Stopping
<1>8. Removed(j, u) => Removed(j, u)'
  BY DEF Keeps, Removed, NotKept
<1> QED
  BY <1>1, <1>2, <1>3, <1>4, <1>5, <1>6, <1>7, <1>8 DEF LifeInv

\* What is true of one task of one instance.
CoreAt(j, u) == LifeInv(j, u) /\ FlowInv(j, u) /\ StoreInv(j, u)

\* If moreover no commit is made, and none is made possible, all stays true.
LEMMA KeepsCore ==
  ASSUME MemberInv, NEW j \in Instances, NEW u \in Tasks, Keeps(j, u), CoreAt(j, u),
         committed'[u] = committed[u], MayCommit(j, u)' => MayCommit(j, u),
         <<j, u>> \in slipped => <<j, u>> \in slipped'
  PROVE  CoreAt(j, u)'
<1>1. /\ Has(j, u)' = Has(j, u) /\ (Owns(j, u)' => Owns(j, u))
      /\ Restored(j, u)' = Restored(j, u) /\ Claimed(j, u)' = Claimed(j, u)
      /\ LifeInv(j, u)'
  BY KeepsLife DEF CoreAt
<1>2. InSend(j, u)' = InSend(j, u) /\ task'[j][u] = task[j][u] /\ chan'[j][u] = chan[j][u]
      /\ pos'[j][u] = pos[j][u]
  BY DEF Keeps, InSend
<1>3. Claimed(j, u) /\ j \in members' => j \in members
  BY DEF Keeps, Claimed, Has, Engaged, MemberInv, MemberOk
<1>4. FlowInv(j, u)'
  BY <1>1, <1>2, <1>3 DEF CoreAt, FlowInv, From
<1>5. StoreInv(j, u)'
  BY <1>1, <1>2 DEF CoreAt, StoreInv
<1> QED
  BY <1>1, <1>4, <1>5 DEF CoreAt

\* If nobody gains a task or a commit, nothing is lost.
LEMMA QuietFence ==
  ASSUME Core, UNCHANGED <<outputs, committed>>,
         \A j \in Instances, u \in Tasks :
           (Owns(j, u)' => Owns(j, u)) /\ (MayCommit(j, u)' => MayCommit(j, u))
  PROVE  \A u \in Tasks : FenceInv(u)' /\ OutputInv(u)'
BY DEF Core, FenceInv, OutputInv

\* If nobody loses a task that the map names, the map is right.
LEMMA QuietStored ==
  ASSUME Types, Core, UNCHANGED <<manager, process>>,
         \A j \in Instances, u \in Tasks : Has(j, u) /\ Stored(j, u) = j => Has(j, u)'
  PROVE  StoredInv'
<1> SUFFICES ASSUME NEW p \in Instances, NEW u \in Tasks, manager[p][u] # 0
             PROVE  /\ process[manager[p][u]] = p
                    /\ Has(manager[p][u], u)'
  BY DEF StoredInv
<1> DEFINE o == manager[p][u]
<1>1. o \in Instances /\ process[o] = p /\ Has(o, u)
  <2>1. manager[p][u] \in Instances \cup {0}
    BY DEF Types, ManagerTypes
  <2> QED
    BY <2>1 DEF Core, StoredInv
<1>2. Stored(o, u) = o
  BY <1>1 DEF Stored
<1> QED
  BY <1>1, <1>2

\* The parts together.
LEMMA CoreParts ==
  ASSUME StoredInv', \A u \in Tasks : FenceInv(u)' /\ OutputInv(u)',
         \A j \in Instances, u \in Tasks : CoreAt(j, u)'
  PROVE  Core'
BY DEF Core, CoreAt

\* A step of the task manager that concerns task t of instance i only.
TaskOnly(i, t) ==
  /\ UNCHANGED <<coordVars, process, consumerVars>>
  /\ \A j \in Instances, u \in Tasks : j # i \/ u # t =>
       /\ work'[j][u] = work[j][u] /\ victim'[j][u] = victim[j][u] /\ task'[j][u] = task[j][u]
       /\ (Stored(j, u) = j)' = (Stored(j, u) = j)

LEMMA OnlyKeeps ==
  ASSUME NEW i \in Instances, NEW t \in Tasks, TaskOnly(i, t)
  PROVE  /\ \A j \in Instances, u \in Tasks : j # i \/ u # t => Keeps(j, u)
         /\ \A j \in Instances, u \in Tasks : Has(j, u)' = Has(j, u)
<1>1. UNCHANGED <<members, pc, current, held, sending, claim, chan, pos>>
  BY DEF TaskOnly, coordVars, consumerVars
<1> QED
  BY <1>1 DEF TaskOnly, Keeps, Has, Engaged

\* What is left to show of such a step.
LEMMA TaskCore ==
  ASSUME Types, Core, NEW i \in Instances, NEW t \in Tasks, TaskOnly(i, t),
         UNCHANGED <<outputs, committed>>, slipped \ {<<i, t>>} \subseteq slipped',
         \A j \in Instances, u \in Tasks : j # i \/ u # t => (MayCommit(j, u)' => MayCommit(j, u)),
         StoredInv', \A u \in Tasks : FenceInv(u)', CoreAt(i, t)'
  PROVE  Core'
<1>1. \A u \in Tasks : OutputInv(u)'
  BY DEF Core, OutputInv
<1>2. ASSUME NEW j \in Instances, NEW u \in Tasks PROVE CoreAt(j, u)'
  <2>1. CASE j = i /\ u = t
    BY <2>1
  <2>2. CASE j # i \/ u # t
    <3>1. Keeps(j, u) /\ CoreAt(j, u) /\ MemberInv
      BY <2>2, OnlyKeeps DEF Core, CoreAt, Types
    <3>2. <<j, u>> \in slipped => <<j, u>> \in slipped'
      BY <2>2
    <3> QED
      BY <2>2, <3>1, <3>2, KeepsCore
  <2> QED
    BY <2>1, <2>2
<1> QED
  BY <1>1, <1>2, CoreParts

-----------------------------------------------------------------------------
(* The task manager.                                                       *)

\* RemoveTask finds the instance's own task, and tells it to stop.
LEMMA RemoveLoadCore ==
  ASSUME Types, Types', Regular, Core, NEW i \in Instances, NEW t \in Tasks, RemoveLoad(i, t),
         UNCHANGED consumerVars
  PROVE  Core'
<1> DEFINE k == task[i][t]
           l == task'[i][t]
<1>1. /\ Claimed(i, t) /\ FlowInv(i, t) /\ StoreInv(i, t) /\ Stored(i, t) = i /\ i # 0
      /\ work[i][t] = "remove"
  BY WorkLife, Names DEF RemoveLoad, StopStored, Core, Claimed, Kept
<1>2. /\ UNCHANGED <<coordVars, process, manager, epoch, outputs, committed, slipped, consumerVars>>
      /\ TaskTo(i, t, l) /\ Fields(l, k.st, k.epoch, k.store, k.batch, k.sent, TRUE)
      /\ work' = [work EXCEPT ![i][t] = "removing"] /\ victim' = [victim EXCEPT ![i][t] = i]
  BY <1>1, StoredFields DEF RemoveLoad, StopStored, WorkTo, brokerVars
<1>3. /\ work'[i][t] = "removing" /\ victim'[i][t] = i
      /\ \A j \in Instances, u \in Tasks : j # i \/ u # t =>
           work'[j][u] = work[j][u] /\ victim'[j][u] = victim[j][u]
  BY <1>2 DEF Types, ManagerTypes
<1>4. TaskOnly(i, t)
  BY <1>2, <1>3 DEF TaskOnly, TaskTo, Stored
<1>5. /\ l.st = k.st /\ l.epoch = k.epoch /\ l.store = k.store /\ l.batch = k.batch
      /\ l.sent = k.sent /\ l.closing
  BY <1>2 DEF Fields
<1>6. UNCHANGED <<members, pc, current, held>>
  BY <1>2 DEF coordVars, consumerVars
<1>7. /\ \A j \in Instances, u \in Tasks : Owns(j, u)' => Owns(j, u)
      /\ \A j \in Instances, u \in Tasks : MayCommit(j, u)' => MayCommit(j, u)
  <2>1. pc[i] # "assign"
    BY <1>1 DEF Claimed
  <2> QED
    BY <1>2, <1>3, <1>5, <1>6, <2>1, OnlyKeeps, <1>4 DEF Owns, MayCommit, TaskOnly
<1>8. StoredInv'
  BY <1>2, <1>4, OnlyKeeps, QuietStored
<1>9. LifeInv(i, t)'
  <2>1. Stopping(i, t)'
    <3>1. Stored(i, t)' = i /\ claim'[i][t] \in {0, i}
      BY <1>1, <1>2 DEF Stored, Claimed, consumerVars
    <3> QED
      BY <1>1, <1>3, <1>5, <1>6, <3>1 DEF Claimed, Kept, Stopping
  <2> QED
    BY <2>1 DEF LifeInv
<1>10. FlowInv(i, t)' /\ StoreInv(i, t)'
  <2>1. ~Claimed(i, t)' /\ ~Restored(i, t)'
    BY <1>5 DEF Claimed, Restored, Kept
  <2> QED
    BY <1>1, <1>2, <1>5, <1>7, <2>1 DEF FlowInv, StoreInv
<1> QED
  BY <1>2, <1>4, <1>7, <1>8, <1>9, <1>10, QuietFence, TaskCore DEF CoreAt

\* RemoveTask deletes its id when the task has stopped.
LEMMA RemoveDeleteCore ==
  ASSUME Types, Types', Regular, Core, NEW i \in Instances, NEW t \in Tasks, RemoveDelete(i, t),
         UNCHANGED consumerVars
  PROVE  Core'
<1>1. Stopping(i, t) /\ task[i][t].st = "stopped" /\ Stored(i, t) = i /\ process[i] \in Instances
  <2>1. Stopping(i, t)
    BY WorkLife DEF RemoveDelete, Core
  <2>2. process[i] \in Instances
    BY StoredOwn
  <2> QED
    BY <2>1, <2>2 DEF RemoveDelete, Stopped, Stopping
<1>2. /\ UNCHANGED <<coordVars, process, epoch, outputs, committed, task, slipped, consumerVars>>
      /\ work' = [work EXCEPT ![i][t] = "done"] /\ victim' = [victim EXCEPT ![i][t] = 0]
      /\ manager' = [manager EXCEPT ![process[i]][t] = 0]
  BY DEF RemoveDelete, Store, WorkTo, brokerVars
<1>3. /\ work'[i][t] = "done"
      /\ \A j \in Instances, u \in Tasks : j # i \/ u # t =>
           work'[j][u] = work[j][u] /\ victim'[j][u] = victim[j][u]
  BY <1>2 DEF Types, ManagerTypes
<1>4. /\ manager'[process[i]][t] = 0
      /\ \A p \in Instances, u \in Tasks : p # process[i] \/ u # t => manager'[p][u] = manager[p][u]
  BY <1>1, <1>2 DEF Types, ManagerTypes
<1>5. ASSUME NEW j \in Instances, NEW u \in Tasks, j # i \/ u # t
      PROVE  (Stored(j, u) = j)' = (Stored(j, u) = j)
  <2>1. CASE process[j] = process[i] /\ u = t
    <3>1. Stored(j, u) = i /\ j # i /\ Stored(j, u)' = 0 /\ j # 0
      BY <1>1, <1>2, <1>4, <1>5, <2>1, Names DEF Stored
    <3> QED
      BY <3>1
  <2>2. CASE process[j] # process[i] \/ u # t
    <3>1. process[j] \in Instances
      BY StoredOwn
    <3> QED
      BY <1>2, <1>4, <2>2, <3>1 DEF Stored
  <2> QED
    BY <2>1, <2>2
<1>6. TaskOnly(i, t)
  BY <1>2, <1>3, <1>5 DEF TaskOnly
<1>7. UNCHANGED <<members, pc, current, held>>
  BY <1>2 DEF coordVars, consumerVars
<1>8. /\ \A j \in Instances, u \in Tasks : Owns(j, u)' => Owns(j, u)
      /\ \A j \in Instances, u \in Tasks : MayCommit(j, u)' => MayCommit(j, u)
  <2>1. pc[i] # "assign"
    BY <1>1 DEF Stopping
  <2> QED
    BY <1>2, <1>3, <1>7, <2>1, OnlyKeeps, <1>6 DEF Owns, MayCommit
<1>9. StoredInv'
  <2> SUFFICES ASSUME NEW p \in Instances, NEW u \in Tasks, NEW o \in Instances, manager'[p][u] = o
               PROVE  process'[o] = p /\ Has(o, u)'
    <3>1. manager' \in [Instances -> [Tasks -> Instances \cup {0}]]
      BY DEF Types, ManagerTypes
    <3> QED
      BY <3>1 DEF StoredInv
  <2>1. manager[p][u] = o
    BY <1>4, Names
  <2>2. process[o] = p /\ Has(o, u)
    BY <2>1, Names DEF Core, StoredInv
  <2> QED
    BY <1>2, <1>6, <2>2, OnlyKeeps
<1>10. LifeInv(i, t)'
  <2>1. Stored(i, t)' = 0 /\ claim'[i][t] \in {0, i, NoClaim}
    BY <1>1, <1>2, <1>4 DEF Stored, Stopping, consumerVars
  <2>2. Removed(i, t)'
    BY <1>1, <1>2, <1>3, <1>7, <2>1, Names DEF Stopping, Removed, NotKept
  <2> QED
    BY <2>2 DEF LifeInv
<1>11. FlowInv(i, t)' /\ StoreInv(i, t)'
  <2>1. task'[i][t].st = "stopped"
    BY <1>1, <1>2
  <2>2. StoreInv(i, t)'
    BY <2>1 DEF StoreInv, Restored
  <2> QED
    BY <2>1, <2>2, NoFlow DEF Types
<1> QED
  BY <1>2, <1>6, <1>8, <1>9, <1>10, <1>11, QuietFence, TaskCore DEF CoreAt

\* AddTask finds no task under the id.
LEMMA AddLoadCore ==
  ASSUME Types, Types', Regular, Core, NEW i \in Instances, NEW t \in Tasks, AddLoad(i, t),
         UNCHANGED consumerVars
  PROVE  Core'
<1>1. Added(i, t) /\ Stored(i, t) = 0
  <2>1. Added(i, t) /\ Has(i, t)
    BY WorkLife DEF AddLoad, StopStored, Core, Added, Has, Engaged
  <2> QED
    BY <2>1, StoredOwn DEF Added, NotKept
<1>2. /\ UNCHANGED <<coordVars, process, manager, epoch, outputs, committed, task, victim, slipped,
                     consumerVars>>
      /\ work' = [work EXCEPT ![i][t] = "restore"]
  BY <1>1 DEF AddLoad, StopStored, WorkTo, brokerVars
<1>3. /\ work'[i][t] = "restore"
      /\ \A j \in Instances, u \in Tasks : j # i \/ u # t => work'[j][u] = work[j][u]
  BY <1>2 DEF Types, ManagerTypes
<1>4. TaskOnly(i, t)
  BY <1>2, <1>3 DEF TaskOnly, Stored
<1>5. UNCHANGED <<members, pc, current, held, claim, chan>>
  BY <1>2 DEF coordVars, consumerVars
<1>6. /\ \A j \in Instances, u \in Tasks : Owns(j, u)' => Owns(j, u)
      /\ \A j \in Instances, u \in Tasks : MayCommit(j, u)' => MayCommit(j, u)
  BY <1>1, <1>2, <1>3, <1>5, OnlyKeeps, <1>4 DEF Owns, MayCommit, Added
<1>7. StoredInv'
  BY <1>2, <1>4, OnlyKeeps, QuietStored
<1>8. LifeInv(i, t)'
  <2>1. Added(i, t)'
    BY <1>1, <1>2, <1>3, <1>5 DEF Added, NotKept, Unclaimed, Stored
  <2> QED
    BY <2>1 DEF LifeInv
<1>9. FlowInv(i, t)' /\ StoreInv(i, t)'
  <2>1. task'[i][t].st \in {"none", "stopped"}
    BY <1>1, <1>2 DEF Added, NotKept
  <2>2. StoreInv(i, t)'
    BY <2>1 DEF StoreInv, Restored
  <2> QED
    BY <2>1, <2>2, NoFlow DEF Types
<1> QED
  BY <1>2, <1>4, <1>6, <1>7, <1>8, <1>9, QuietFence, TaskCore DEF CoreAt

\* AddTask restores a new task from the changelog and stores it.
LEMMA AddRestoredCore ==
  ASSUME Types, Types', Regular, Core, NEW i \in Instances, NEW t \in Tasks, AddRestored(i, t),
         UNCHANGED consumerVars
  PROVE  Core'
<1> DEFINE l == task'[i][t]
<1>1. Added(i, t) /\ Stored(i, t) = 0 /\ process[i] \in Instances /\ Has(i, t)
  <2>1. Added(i, t) /\ Has(i, t)
    BY WorkLife DEF AddRestored, Core, Added, Has, Engaged
  <2> QED
    BY <2>1, StoredOwn DEF Added, NotKept
<1>2. /\ UNCHANGED <<coordVars, process, epoch, outputs, committed, victim, consumerVars>>
      /\ work' = [work EXCEPT ![i][t] = "init"] /\ slipped' = slipped \ {<<i, t>>}
      /\ manager' = [manager EXCEPT ![process[i]][t] = i]
      /\ TaskTo(i, t, l) /\ Fields(l, "restored", 0, Offsets(outputs[t]), <<>>, FALSE, FALSE)
  BY TaskFields DEF AddRestored, Store, WorkTo, brokerVars
<1>3. /\ work'[i][t] = "init"
      /\ \A j \in Instances, u \in Tasks : j # i \/ u # t => work'[j][u] = work[j][u]
  BY <1>2 DEF Types, ManagerTypes
<1>4. /\ manager'[process[i]][t] = i
      /\ \A p \in Instances, u \in Tasks : p # process[i] \/ u # t => manager'[p][u] = manager[p][u]
  BY <1>1, <1>2 DEF Types, ManagerTypes
<1>5. ASSUME NEW j \in Instances, NEW u \in Tasks, j # i \/ u # t
      PROVE  (Stored(j, u) = j)' = (Stored(j, u) = j)
  <2>1. CASE process[j] = process[i] /\ u = t
    <3>1. Stored(j, u) = 0 /\ j # i /\ Stored(j, u)' = i /\ j # 0
      BY <1>1, <1>2, <1>4, <1>5, <2>1, Names DEF Stored
    <3> QED
      BY <3>1
  <2>2. CASE process[j] # process[i] \/ u # t
    <3>1. process[j] \in Instances
      BY StoredOwn
    <3> QED
      BY <1>2, <1>4, <2>2, <3>1 DEF Stored
  <2> QED
    BY <2>1, <2>2
<1>6. TaskOnly(i, t)
  BY <1>2, <1>3, <1>5 DEF TaskOnly, TaskTo
<1>7. UNCHANGED <<members, pc, current, held, claim, chan>>
  BY <1>2 DEF coordVars, consumerVars
<1>8. l.st = "restored" /\ l.batch = <<>> /\ ~l.sent /\ ~l.closing /\ l.store = Offsets(outputs[t])
  BY <1>2 DEF Fields
<1>9. /\ \A j \in Instances, u \in Tasks : Owns(j, u)' => Owns(j, u)
      /\ \A j \in Instances, u \in Tasks : MayCommit(j, u)' => MayCommit(j, u)
  <2>1. \A j \in Instances, u \in Tasks : Owns(j, u)' => Owns(j, u)
    BY <1>1, <1>3, <1>7, OnlyKeeps, <1>6 DEF Owns, Added
  <2>2. \A j \in Instances, u \in Tasks : MayCommit(j, u)' => MayCommit(j, u)
    BY <1>2, <1>6, <1>8 DEF MayCommit, TaskOnly
  <2> QED
    BY <2>1, <2>2
<1>10. StoredInv'
  <2> SUFFICES ASSUME NEW p \in Instances, NEW u \in Tasks, NEW o \in Instances, manager'[p][u] = o
               PROVE  process'[o] = p /\ Has(o, u)'
    <3>1. manager' \in [Instances -> [Tasks -> Instances \cup {0}]]
      BY DEF Types, ManagerTypes
    <3> QED
      BY <3>1 DEF StoredInv
  <2>1. CASE p = process[i] /\ u = t
    BY <1>1, <1>2, <1>4, <1>6, <2>1, OnlyKeeps
  <2>2. CASE p # process[i] \/ u # t
    <3>1. manager[p][u] = o
      BY <1>4, <2>2
    <3>2. process[o] = p /\ Has(o, u)
      BY <3>1, Names DEF Core, StoredInv
    <3> QED
      BY <1>2, <1>6, <3>2, OnlyKeeps
  <2> QED
    BY <2>1, <2>2
<1>11. Restored(i, t)'
  <2>1. Stored(i, t)' = i
    BY <1>2, <1>4 DEF Stored
  <2> QED
    BY <1>1, <1>3, <1>7, <1>8, <2>1 DEF Added, Restored, Unclaimed
<1>12. StoreInv(i, t)'
  <2>1. OutputInv(t) /\ committed[t] \in Nat
    BY DEF Core, Types, BrokerTypes
  <2>2. 1 .. committed[t] \subseteq Offsets(outputs[t])
    <3> SUFFICES ASSUME NEW n \in 1 .. committed[t] PROVE n \in Offsets(outputs[t])
      OBVIOUS
    <3>1. outputs[t][n] = n /\ n \in DOMAIN outputs[t]
      BY <2>1 DEF OutputInv
    <3> QED
      BY <3>1 DEF Offsets
  <2> QED
    BY <1>2, <1>8, <2>2 DEF StoreInv
<1>13. FlowInv(i, t)'
  BY <1>8, NoFlow DEF Types
<1> QED
  BY <1>2, <1>6, <1>9, <1>10, <1>11, <1>12, <1>13, QuietFence, TaskCore DEF CoreAt, LifeInv

\* A new producer fences all others.
LEMMA Fenced ==
  ASSUME Types, Core, NEW i \in Instances, NEW t \in Tasks, TaskOnly(i, t),
         \A j \in Instances : j # i => task'[j][t].epoch < epoch'[t],
         \A u \in Tasks : u # t => epoch'[u] = epoch[u], Types', ~task'[i][t].sent,
         \A j \in Instances, u \in Tasks : u # t => (Owns(j, u)' => Owns(j, u))
  PROVE  /\ \A j \in Instances : ~MayCommit(j, t)'
         /\ \A j \in Instances, u \in Tasks : j # i \/ u # t => (MayCommit(j, u)' => MayCommit(j, u))
         /\ \A u \in Tasks : FenceInv(u)'
<1>1. ASSUME NEW j \in Instances PROVE ~MayCommit(j, t)'
  <2>1. CASE j = i
    BY <2>1 DEF MayCommit
  <2>2. CASE j # i
    <3>1. task'[j][t].epoch \in Nat /\ epoch'[t] \in Nat
      BY DEF Types, ManagerTypes, BrokerTypes, TaskType
    <3> QED
      BY <2>2, <3>1 DEF MayCommit
  <2> QED
    BY <2>1, <2>2
<1>2. \A j \in Instances, u \in Tasks : u # t => (MayCommit(j, u)' => MayCommit(j, u))
  BY DEF TaskOnly, MayCommit
<1>3. ASSUME NEW u \in Tasks PROVE FenceInv(u)'
  BY <1>1, <1>2 DEF Core, FenceInv
<1> QED
  BY <1>1, <1>2, <1>3

\* Init starts the task with a producer that fences all others.
LEMMA InitTaskCore ==
  ASSUME Types, Types', Regular, Core, NEW i \in Instances, NEW t \in Tasks, InitTask(i, t),
         UNCHANGED consumerVars
  PROVE  Core'
<1> DEFINE k == task[i][t]
           l == task'[i][t]
<1>1. Restored(i, t) /\ StoreInv(i, t) /\ Stored(i, t) = i /\ k.st = "restored"
  <2>1. Restored(i, t) /\ StoreInv(i, t)
    BY WorkLife DEF InitTask, Core
  <2> QED
    BY <2>1 DEF Restored
<1>2. k.batch = <<>> /\ ~k.sent
  BY <1>1, NothingRuns DEF Types
<1>3. /\ UNCHANGED <<coordVars, process, manager, outputs, committed, victim, slipped, consumerVars>>
      /\ work' = [work EXCEPT ![i][t] = "done"] /\ epoch' = [epoch EXCEPT ![t] = @ + 1]
      /\ TaskTo(i, t, l) /\ Fields(l, "running", epoch[t] + 1, k.store, k.batch, k.sent, k.closing)
  BY <1>1, StoredFields DEF InitTask, WorkTo
<1>4. /\ work'[i][t] = "done"
      /\ \A j \in Instances, u \in Tasks : j # i \/ u # t => work'[j][u] = work[j][u]
  BY <1>3 DEF Types, ManagerTypes
<1>5. TaskOnly(i, t)
  BY <1>3, <1>4 DEF TaskOnly, TaskTo, Stored
<1>6. UNCHANGED <<members, pc, current, held, claim, chan>>
  BY <1>3 DEF coordVars, consumerVars
<1>7. l.st = "running" /\ l.batch = <<>> /\ ~l.sent /\ l.closing = k.closing /\ l.store = k.store
  BY <1>2, <1>3 DEF Fields
<1>8. /\ \A j \in Instances : j # i => task'[j][t].epoch < epoch'[t]
      /\ \A u \in Tasks : u # t => epoch'[u] = epoch[u]
  <2>1. EpochInv /\ epoch \in [Tasks -> Nat] /\ task \in [Instances -> [Tasks -> TaskType]]
    BY DEF Types, BrokerTypes, ManagerTypes
  <2>2. l \in TaskType /\ l.epoch = epoch[t] + 1
    BY <1>3 DEF Fields
  <2> HIDE DEF l
  <2> QED
    BY <1>3, <2>1, <2>2, EpochNew
<1>9. \A j \in Instances, u \in Tasks : u # t => (Owns(j, u)' => Owns(j, u))
  BY <1>4, <1>5, <1>6, OnlyKeeps DEF Owns
<1>10. /\ \A j \in Instances, u \in Tasks : j # i \/ u # t => (MayCommit(j, u)' => MayCommit(j, u))
       /\ \A u \in Tasks : FenceInv(u)'
  BY <1>5, <1>7, <1>8, <1>9, Fenced
<1>11. StoredInv'
  BY <1>3, <1>5, OnlyKeeps, QuietStored
<1>12. Started(i, t)'
  <2>1. Stored(i, t)' = i
    BY <1>1, <1>3 DEF Stored
  <2> QED
    BY <1>1, <1>4, <1>6, <1>7, <2>1 DEF Restored, Started, Kept, Unclaimed
<1>13. FlowInv(i, t)'
  <2>1. ~Claimed(i, t)'
    BY <1>1, <1>6 DEF Restored, Claimed, Unclaimed
  <2> QED
    BY <1>7, <2>1 DEF FlowInv, From
<1>14. StoreInv(i, t)'
  BY <1>1, <1>3, <1>7 DEF StoreInv
<1> QED
  BY <1>3, <1>5, <1>10, <1>11, <1>12, <1>13, <1>14, TaskCore DEF CoreAt, LifeInv

\* Only the owner sends offsets: its task is the one that may commit next.
LEMMA SendOffsetsCore ==
  ASSUME Types, Types', Regular, Core, NEW i \in Instances, NEW t \in Tasks, SendOffsets(i, t),
         UNCHANGED consumerVars
  PROVE  Core'
<1> DEFINE k == task[i][t]
           l == task'[i][t]
<1>1. /\ UNCHANGED <<coordVars, process, manager, epoch, outputs, committed, work, victim, slipped,
                     consumerVars>>
      /\ TaskTo(i, t, l) /\ Fields(l, k.st, k.epoch, k.store, k.batch, TRUE, k.closing)
  BY TaskFields DEF SendOffsets, brokerVars
<1>2. TaskOnly(i, t)
  BY <1>1 DEF TaskOnly, TaskTo, Stored
<1>3. UNCHANGED <<members, pc, current, held, claim, chan, pos, sending>>
  BY <1>1 DEF coordVars, consumerVars
<1>4. /\ l.st = k.st /\ l.epoch = k.epoch /\ l.store = k.store /\ l.batch = k.batch
      /\ l.closing = k.closing
  BY <1>1 DEF Fields
<1>5. Owns(i, t) /\ i \in members
  <2>1. k.st = "running" /\ k.batch # <<>> /\ i \in members
    BY DEF SendOffsets, ValidMember, Types, BatchInv
  <2>2. Claimed(i, t) \/ Stopping(i, t)
    BY <2>1 DEF Core, LifeInv, Outside, Added, Restored, Started, Removed, NotKept
  <2>3. t \in held[i] /\ pc[i] # "assign" /\ held[i] = current[i]
    BY <2>2 DEF Claimed, Stopping, Types, MemberInv, MemberOk
  <2> QED
    BY <2>1, <2>3 DEF Owns, Has, Engaged
<1>6. \A j \in Instances, u \in Tasks : Owns(j, u)' = Owns(j, u)
  BY <1>1, <1>2, <1>3, OnlyKeeps DEF Owns
<1>7. \A j \in Instances, u \in Tasks : j # i \/ u # t => MayCommit(j, u)' = MayCommit(j, u)
  BY <1>1, <1>2 DEF MayCommit, TaskOnly
<1>8. ASSUME NEW u \in Tasks PROVE FenceInv(u)'
  <2>1. CASE u # t
    BY <1>6, <1>7, <2>1 DEF Core, FenceInv
  <2>2. CASE u = t
    <3>1. ASSUME NEW j \in Instances, Owns(j, t) PROVE j = i
      BY <1>5, <3>1, Exclusive DEF Owns
    <3>2. ASSUME NEW j \in Instances, MayCommit(j, t)' PROVE j = i
      BY <1>5, <1>7, <3>2 DEF Core, FenceInv
    <3> QED
      BY <1>6, <2>2, <3>1, <3>2 DEF FenceInv
  <2> QED
    BY <2>1, <2>2
<1>9. StoredInv'
  BY <1>1, <1>2, OnlyKeeps, QuietStored
<1>10. LifeInv(i, t)'
  <2> USE DEF consumerVars
  <2>1. Stored(i, t)' = Stored(i, t) /\ Has(i, t)' = Has(i, t) /\ LifeInv(i, t)
    BY <1>1, <1>2, OnlyKeeps DEF Stored, Core
  <2> QED
    BY <1>1, <1>3, <1>4, <2>1 DEF LifeInv, Outside, Added, Restored, Started, Claimed, Stopping, Removed,
       NotKept, Unclaimed, Kept
<1>11. FlowInv(i, t)' /\ StoreInv(i, t)'
  <2>1. FlowInv(i, t) /\ StoreInv(i, t)
    BY DEF Core
  <2>2. Claimed(i, t)' => Claimed(i, t)
    BY <1>1, <1>3, <1>4 DEF Claimed, Kept, Stored
  <2>3. Restored(i, t)' => Restored(i, t)
    BY <1>1, <1>3, <1>4 DEF Restored, Unclaimed, Stored
  <2>4. InSend(i, t)' = InSend(i, t)
    BY <1>3 DEF InSend
  <2>5. FlowInv(i, t)'
    BY <1>1, <1>3, <1>4, <1>5, <2>1, <2>2, <2>4 DEF FlowInv, From
  <2> QED
    BY <1>1, <1>4, <1>6, <2>1, <2>3, <2>5 DEF StoreInv
<1> QED
  BY <1>1, <1>2, <1>7, <1>8, <1>9, <1>10, <1>11, TaskCore DEF CoreAt

\* A batch that continues the output extends it.
LEMMA ExtendOutput ==
  ASSUME NEW c \in Nat, NEW b \in Seq(Nat), b # <<>>, From(b, c)
  PROVE  /\ b[Len(b)] = c + Len(b) /\ Len(b) \in Nat \ {0}
         /\ [n \in 1 .. c |-> n] \o b = [n \in 1 .. c + Len(b) |-> n]
         /\ 1 .. c + Len(b) = (1 .. c) \cup Offsets(b)
<1>1. Len(b) \in Nat \ {0} /\ DOMAIN b = 1 .. Len(b)
  OBVIOUS
<1>2. b[Len(b)] = c + Len(b)
  BY <1>1 DEF From
<1>3. [n \in 1 .. c |-> n] \o b = [n \in 1 .. c + Len(b) |-> n]
  <2> DEFINE s == [n \in 1 .. c |-> n]
  <2>1. s \in Seq(Nat) /\ Len(s) = c /\ \A n \in 1 .. c : s[n] = n
    OBVIOUS
  <2> HIDE DEF s
  <2>2. /\ s \o b \in Seq(Nat) /\ Len(s \o b) = c + Len(b)
        /\ \A n \in 1 .. c + Len(b) : (s \o b)[n] = IF n <= c THEN s[n] ELSE b[n - c]
    BY <2>1
  <2>3. ASSUME NEW n \in 1 .. c + Len(b) PROVE (s \o b)[n] = n
    <3>1. CASE n <= c
      BY <2>1, <2>2, <3>1
    <3>2. CASE n > c
      <4>1. n - c \in 1 .. Len(b)
        BY <1>1, <3>2
      <4> QED
        BY <2>2, <3>2, <4>1 DEF From
    <3>3. n <= c \/ n > c
      <4>1. n \in Int /\ c \in Int
        BY <1>1
      <4> QED
        BY ONLY <4>1
    <3> QED
      BY <3>1, <3>2, <3>3
  <2>4. s \o b = [n \in 1 .. c + Len(b) |-> n]
    <3> DEFINE r == [n \in 1 .. c + Len(b) |-> n]
    <3>1. r \in Seq(Nat) /\ Len(r) = c + Len(b) /\ \A n \in 1 .. c + Len(b) : r[n] = n
      BY <1>1
    <3> HIDE DEF r
    <3> QED
      BY <2>2, <2>3, <3>1, SeqEqual DEF r
  <2> QED
    BY <2>4 DEF s
<1>4. 1 .. c + Len(b) = (1 .. c) \cup Offsets(b)
  <2>1. ASSUME NEW n \in 1 .. c + Len(b), n \notin 1 .. c PROVE n \in Offsets(b)
    <3>1. n - c \in 1 .. Len(b)
      BY <1>1, <2>1
    <3>2. b[n - c] = n
      BY <3>1 DEF From
    <3> QED
      BY <1>1, <3>1, <3>2 DEF Offsets
  <2>2. ASSUME NEW n \in Offsets(b) PROVE n \in 1 .. c + Len(b)
    BY <1>1 DEF Offsets, From
  <2> QED
    BY <1>1, <2>1, <2>2
<1> QED
  BY <1>1, <1>2, <1>3, <1>4

\* A task that keeps or drops its batch stays where it was in its life.
LEMMA BatchLife ==
  ASSUME NEW i \in Instances, NEW t \in Tasks, TaskOnly(i, t), LifeInv(i, t),
         work'[i][t] = work[i][t], victim'[i][t] = victim[i][t], Stored(i, t)' = Stored(i, t),
         task'[i][t].st = task[i][t].st, task'[i][t].closing = task[i][t].closing,
         task'[i][t].batch \in {<<>>, task[i][t].batch}
  PROVE  /\ LifeInv(i, t)' /\ Claimed(i, t)' = Claimed(i, t) /\ Restored(i, t)' = Restored(i, t)
         /\ \A j \in Instances, u \in Tasks : Owns(j, u)' = Owns(j, u)
         /\ InSend(i, t)' = InSend(i, t) /\ chan'[i][t] = chan[i][t] /\ pos'[i][t] = pos[i][t]
<1>1. UNCHANGED <<members, pc, current, held, claim, chan, pos, sending>>
  BY DEF TaskOnly, coordVars, consumerVars
<1>2. Has(i, t)' = Has(i, t)
  BY OnlyKeeps
<1>3. Claimed(i, t)' = Claimed(i, t) /\ Restored(i, t)' = Restored(i, t)
  BY <1>1 DEF Claimed, Kept, Restored, Unclaimed
<1>4. LifeInv(i, t)'
  <2>1. (Outside(i, t) => Outside(i, t)') /\ (Added(i, t) => Added(i, t)')
    BY <1>1, <1>2 DEF Outside, Added, NotKept, Unclaimed
  <2>2. Started(i, t) => Started(i, t)'
    BY <1>1 DEF Started, Kept, Unclaimed
  <2>3. (Stopping(i, t) => Stopping(i, t)') /\ (Removed(i, t) => Removed(i, t)')
    BY <1>1 DEF Stopping, Removed, NotKept
  <2> QED
    BY <1>3, <2>1, <2>2, <2>3 DEF LifeInv
<1>5. \A j \in Instances, u \in Tasks : Owns(j, u)' = Owns(j, u)
  <2>1. \A j \in Instances, u \in Tasks : work'[j][u] = work[j][u]
    BY DEF TaskOnly
  <2> QED
    BY <1>1, <2>1, OnlyKeeps DEF Owns
<1> QED
  BY <1>1, <1>3, <1>4, <1>5 DEF InSend

\* Who may commit is the owner, or there is no owner; its batch is the next part
\* of the output, and nobody else's store or batch is out of date afterwards.
LEMMA CommitTransactionCore ==
  ASSUME Types, Types', Regular, Core, NEW i \in Instances, NEW t \in Tasks, CommitTransaction(i, t),
         UNCHANGED consumerVars
  PROVE  Core'
<1> DEFINE k == task[i][t]
           l == task'[i][t]
           b == k.batch
           c == committed[t]
<1>1. /\ UNCHANGED <<coordVars, process, manager, epoch, work, victim, consumerVars>>
      /\ outputs' = [outputs EXCEPT ![t] = @ \o b] /\ committed' = [committed EXCEPT ![t] = b[Len(b)]]
      /\ slipped' = slipped \cup {<<j, t>> : j \in {n \in Instances : task[n][t].st = "restored"}}
      /\ TaskTo(i, t, l) /\ Fields(l, k.st, k.epoch, k.store \cup Offsets(k.batch), <<>>, FALSE, k.closing)
      /\ MayCommit(i, t)
  BY TaskFields DEF CommitTransaction, MayCommit
<1>2. TaskOnly(i, t) /\ Stored(i, t)' = Stored(i, t) /\ work'[i][t] = work[i][t]
      /\ victim'[i][t] = victim[i][t]
  BY <1>1 DEF TaskOnly, TaskTo, Stored
<1>3. /\ l.st = k.st /\ l.epoch = k.epoch /\ l.store = k.store \cup Offsets(b) /\ l.batch = <<>>
      /\ ~l.sent /\ l.closing = k.closing
  BY <1>1 DEF Fields
<1>4. /\ c \in Nat /\ b \in Seq(Nat) /\ b # <<>> /\ From(b, c) /\ outputs[t] = [n \in 1 .. c |-> n]
      /\ k.st = "running" /\ k.epoch # 0
  <2>1. Types /\ k \in TaskType
    BY DEF Types, ManagerTypes
  <2>2. b \in Seq(Nat) /\ b # <<>> /\ k.st = "running"
    BY <1>1, <2>1 DEF MayCommit, Types, BatchInv, TaskType
  <2>3. k.epoch # 0 /\ c \in Nat
    BY <2>2 DEF Types, EpochInv, BrokerTypes
  <2>4. From(b, c) /\ outputs[t] = [n \in 1 .. c |-> n]
    BY <1>1 DEF Core, FlowInv, OutputInv
  <2> QED
    BY <2>2, <2>3, <2>4
<1>5. /\ committed'[t] = c + Len(b) /\ Len(b) \in Nat \ {0}
      /\ outputs'[t] = [n \in 1 .. committed'[t] |-> n]
      /\ 1 .. committed'[t] = (1 .. c) \cup Offsets(b)
      /\ \A u \in Tasks : u # t => committed'[u] = committed[u] /\ outputs'[u] = outputs[u]
  <2>1. /\ b[Len(b)] = c + Len(b) /\ Len(b) \in Nat \ {0}
        /\ [n \in 1 .. c |-> n] \o b = [n \in 1 .. c + Len(b) |-> n]
        /\ 1 .. c + Len(b) = (1 .. c) \cup Offsets(b)
    <3> HIDE DEF b, c
    <3> QED
      BY <1>4, ExtendOutput
  <2>2. /\ outputs'[t] = outputs[t] \o b /\ committed'[t] = b[Len(b)]
        /\ \A u \in Tasks : u # t => committed'[u] = committed[u] /\ outputs'[u] = outputs[u]
    <3> HIDE DEF b
    <3> QED
      BY <1>1 DEF Types, BrokerTypes
  <2> HIDE DEF b, c
  <2> QED
    BY <1>4, <2>1, <2>2
<1>6. /\ LifeInv(i, t)' /\ Claimed(i, t)' = Claimed(i, t) /\ Restored(i, t)' = Restored(i, t)
      /\ \A j \in Instances, u \in Tasks : Owns(j, u)' = Owns(j, u)
      /\ InSend(i, t)' = InSend(i, t) /\ chan'[i][t] = chan[i][t] /\ pos'[i][t] = pos[i][t]
  <2>1. LifeInv(i, t)
    BY DEF Core
  <2> QED
    BY <1>2, <1>3, <2>1, BatchLife
<1>7. \A j \in Instances, u \in Tasks : MayCommit(j, u)' => MayCommit(j, u)
  BY <1>1, <1>2, <1>3 DEF MayCommit, TaskOnly
<1>8. ASSUME NEW j \in Instances, j # i
      PROVE  ~Owns(j, t) /\ ~MayCommit(j, t)
  <2>1. ~Owns(j, t)
    BY <1>1, <1>8 DEF Core, FenceInv
  <2>2. ~MayCommit(j, t)
    BY <1>1, <1>4, <1>8 DEF MayCommit, Types, EpochInv
  <2> QED
    BY <2>1, <2>2
<1>9. \A u \in Tasks : FenceInv(u)' /\ OutputInv(u)'
  <2>1. \A u \in Tasks : FenceInv(u)'
    BY <1>6, <1>7 DEF Core, FenceInv
  <2>2. \A u \in Tasks : OutputInv(u)'
    <3> HIDE DEF b, c
    <3> QED
      BY <1>5 DEF Core, OutputInv
  <2> QED
    BY <2>1, <2>2
<1>10. StoredInv'
  BY <1>1, <1>2, OnlyKeeps, QuietStored
<1>11. CoreAt(i, t)'
  <2>1. FlowInv(i, t) /\ StoreInv(i, t) /\ MemberInv /\ UNCHANGED members
    BY <1>1 DEF Core, Types, coordVars
  <2>2. FlowInv(i, t)'
    <3> DEFINE n == c + Len(b)
    <3>1. From(l.batch, committed'[t])
      BY <1>3 DEF From
    <3>2. ASSUME Claimed(i, t)', i \in members'
          PROVE  From(chan'[i][t], n) /\ pos'[i][t] = n + Len(chan'[i][t]) + InSend(i, t)'
      BY <1>6, <2>1, <3>2 DEF FlowInv, From
    <3>3. committed'[t] + Len(l.batch) = n
      <4>1. Len(l.batch) = 0
        BY <1>3
      <4> HIDE DEF b, c, l
      <4> QED
        BY <1>4, <1>5, <4>1 DEF n
    <3> HIDE DEF n
    <3> QED
      BY <3>1, <3>2, <3>3 DEF FlowInv
  <2>3. StoreInv(i, t)'
    <3>1. ~Restored(i, t)
      BY <1>4 DEF Restored
    <3>2. ASSUME Owns(i, t)' PROVE 1 .. c \subseteq k.store \/ <<i, t>> \in slipped
      BY <1>4, <1>6, <2>1, <3>2 DEF StoreInv
    <3> HIDE DEF b, c, k, l
    <3> QED
      BY <1>1, <1>3, <1>5, <1>6, <3>1, <3>2 DEF StoreInv, l
  <2> QED
    BY <1>6, <2>2, <2>3 DEF CoreAt
<1>12. ASSUME NEW j \in Instances, j # i PROVE CoreAt(j, t)'
  <2>1. Keeps(j, t) /\ CoreAt(j, t) /\ MemberInv /\ UNCHANGED members
    BY <1>1, <1>2, <1>12, OnlyKeeps DEF Core, CoreAt, Types, coordVars
  <2>2. /\ LifeInv(j, t)' /\ Restored(j, t)' = Restored(j, t) /\ Claimed(j, t)' = Claimed(j, t)
        /\ ~Owns(j, t)' /\ ~MayCommit(j, t)'
    BY <1>6, <1>7, <1>8, <1>12, <2>1, KeepsLife DEF CoreAt
  <2>3. ~(Claimed(j, t) /\ j \in members)
    BY <1>8, <1>12, <2>1 DEF Claimed, Owns, Has, Engaged, MemberInv, MemberOk
  <2>4. Restored(j, t) => <<j, t>> \in slipped'
    BY <1>1 DEF Restored
  <2>5. FlowInv(j, t)'
    BY <2>1, <2>2, <2>3 DEF FlowInv
  <2>6. StoreInv(j, t)'
    BY <2>2, <2>4 DEF StoreInv
  <2> QED
    BY <2>2, <2>5, <2>6 DEF CoreAt
<1>13. ASSUME NEW j \in Instances, NEW u \in Tasks, u # t PROVE CoreAt(j, u)'
  <2>1. Keeps(j, u) /\ CoreAt(j, u) /\ MemberInv /\ committed'[u] = committed[u]
    BY <1>2, <1>5, <1>13, OnlyKeeps DEF Core, CoreAt, Types
  <2>2. <<j, u>> \in slipped => <<j, u>> \in slipped'
    BY <1>1
  <2> QED
    BY <1>7, <2>1, <2>2, KeepsCore
<1> QED
  BY <1>9, <1>10, <1>11, <1>12, <1>13, CoreParts

\* A restarted producer fences all others; nothing is sent.
LEMMA RestartFencedCore ==
  ASSUME Types, Types', Regular, Core, NEW i \in Instances, NEW t \in Tasks, RestartFenced(i, t),
         UNCHANGED consumerVars
  PROVE  Core'
<1> DEFINE k == task[i][t]
           l == task'[i][t]
<1>1. /\ UNCHANGED <<coordVars, process, manager, outputs, committed, work, victim, slipped, consumerVars>>
      /\ epoch' = [epoch EXCEPT ![t] = @ + 1]
      /\ TaskTo(i, t, l) /\ Fields(l, k.st, epoch[t] + 1, k.store, k.batch, FALSE, k.closing)
  BY TaskFields DEF RestartFenced
<1>2. TaskOnly(i, t) /\ Stored(i, t)' = Stored(i, t) /\ work'[i][t] = work[i][t]
      /\ victim'[i][t] = victim[i][t]
  BY <1>1 DEF TaskOnly, TaskTo, Stored
<1>3. l.st = k.st /\ l.store = k.store /\ l.batch = k.batch /\ ~l.sent /\ l.closing = k.closing
  BY <1>1 DEF Fields
<1>4. /\ LifeInv(i, t)' /\ Claimed(i, t)' = Claimed(i, t) /\ Restored(i, t)' = Restored(i, t)
      /\ \A j \in Instances, u \in Tasks : Owns(j, u)' = Owns(j, u)
      /\ InSend(i, t)' = InSend(i, t) /\ chan'[i][t] = chan[i][t] /\ pos'[i][t] = pos[i][t]
      /\ FlowInv(i, t) /\ StoreInv(i, t)
  <2>1. LifeInv(i, t) /\ FlowInv(i, t) /\ StoreInv(i, t)
    BY DEF Core
  <2> QED
    BY <1>2, <1>3, <2>1, BatchLife
<1>5. /\ \A j \in Instances : j # i => task'[j][t].epoch < epoch'[t]
      /\ \A u \in Tasks : u # t => epoch'[u] = epoch[u]
  <2>1. EpochInv /\ epoch \in [Tasks -> Nat] /\ task \in [Instances -> [Tasks -> TaskType]]
    BY DEF Types, BrokerTypes, ManagerTypes
  <2>2. l \in TaskType /\ l.epoch = epoch[t] + 1
    BY <1>1 DEF Fields
  <2> HIDE DEF l
  <2> QED
    BY <1>1, <2>1, <2>2, EpochNew
<1>6. /\ \A j \in Instances : ~MayCommit(j, t)'
      /\ \A j \in Instances, u \in Tasks : j # i \/ u # t => (MayCommit(j, u)' => MayCommit(j, u))
      /\ \A u \in Tasks : FenceInv(u)'
  BY <1>2, <1>3, <1>4, <1>5, Fenced
<1>7. StoredInv'
  BY <1>1, <1>2, OnlyKeeps, QuietStored
<1>8. FlowInv(i, t)'
  <2>1. UNCHANGED <<members, committed>>
    BY <1>1 DEF coordVars
  <2> QED
    BY <1>3, <1>4, <1>6, <2>1 DEF FlowInv, From
<1>9. StoreInv(i, t)'
  BY <1>1, <1>3, <1>4 DEF StoreInv
<1> QED
  BY <1>1, <1>2, <1>4, <1>6, <1>7, <1>8, <1>9, TaskCore DEF CoreAt

\* A task that closes gives its batch up.
LEMMA GiveUpCore ==
  ASSUME Types, Types', Regular, Core, NEW i \in Instances, NEW t \in Tasks, GiveUp(i, t),
         UNCHANGED consumerVars
  PROVE  Core'
<1> DEFINE k == task[i][t]
           l == task'[i][t]
<1>1. /\ UNCHANGED <<coordVars, process, manager, epoch, outputs, committed, work, victim, slipped,
                     consumerVars>>
      /\ TaskTo(i, t, l) /\ Fields(l, k.st, k.epoch, k.store, <<>>, FALSE, k.closing)
      /\ k.closing
  BY TaskFields DEF GiveUp, brokerVars
<1>2. TaskOnly(i, t) /\ Stored(i, t)' = Stored(i, t) /\ work'[i][t] = work[i][t]
      /\ victim'[i][t] = victim[i][t]
  BY <1>1 DEF TaskOnly, TaskTo, Stored
<1>3. l.st = k.st /\ l.store = k.store /\ l.batch = <<>> /\ ~l.sent /\ l.closing = k.closing
  BY <1>1 DEF Fields
<1>4. /\ LifeInv(i, t)' /\ Claimed(i, t)' = Claimed(i, t) /\ Restored(i, t)' = Restored(i, t)
      /\ \A j \in Instances, u \in Tasks : Owns(j, u)' = Owns(j, u)
      /\ FlowInv(i, t) /\ StoreInv(i, t)
  <2>1. LifeInv(i, t) /\ FlowInv(i, t) /\ StoreInv(i, t)
    BY DEF Core
  <2> QED
    BY <1>2, <1>3, <2>1, BatchLife
<1>5. \A j \in Instances, u \in Tasks : MayCommit(j, u)' => MayCommit(j, u)
  BY <1>1, <1>2, <1>3 DEF MayCommit, TaskOnly
<1>6. StoredInv'
  BY <1>1, <1>2, OnlyKeeps, QuietStored
<1>7. FlowInv(i, t)'
  <2>1. ~Claimed(i, t)
    BY <1>1 DEF Claimed, Kept
  <2> QED
    BY <1>3, <1>4, <2>1 DEF FlowInv, From
<1>8. StoreInv(i, t)'
  BY <1>1, <1>3, <1>4 DEF StoreInv
<1> QED
  BY <1>1, <1>2, <1>4, <1>5, <1>6, <1>7, <1>8, QuietFence, TaskCore DEF CoreAt

\* A task that closes without a batch stops.
LEMMA TaskStopsCore ==
  ASSUME Types, Types', Regular, Core, NEW i \in Instances, NEW t \in Tasks, TaskStops(i, t),
         UNCHANGED consumerVars
  PROVE  Core'
<1> DEFINE k == task[i][t]
           l == task'[i][t]
<1>1. /\ UNCHANGED <<coordVars, process, manager, epoch, outputs, committed, work, victim, slipped,
                     consumerVars>>
      /\ TaskTo(i, t, l) /\ Fields(l, "stopped", 0, {}, <<>>, FALSE, TRUE)
      /\ k.st = "running" /\ k.closing
  BY TaskFields DEF TaskStops, brokerVars
<1>2. TaskOnly(i, t) /\ Stored(i, t)' = Stored(i, t) /\ work'[i][t] = work[i][t]
      /\ victim'[i][t] = victim[i][t]
  BY <1>1 DEF TaskOnly, TaskTo, Stored
<1>3. l.st = "stopped" /\ ~l.sent /\ l.closing
  BY <1>1 DEF Fields
<1>4. UNCHANGED <<members, pc, current, held, claim, chan>>
  BY <1>1 DEF coordVars, consumerVars
<1>5. LifeInv(i, t)'
  <2>1. Stopping(i, t)
    BY <1>1 DEF Core, LifeInv, Outside, Added, Restored, Started, Claimed, Removed, NotKept, Kept
  <2>2. Stopping(i, t)'
    BY <1>2, <1>3, <1>4, <2>1 DEF Stopping
  <2> QED
    BY <2>2 DEF LifeInv
<1>6. /\ \A j \in Instances, u \in Tasks : Owns(j, u)' => Owns(j, u)
      /\ \A j \in Instances, u \in Tasks : MayCommit(j, u)' => MayCommit(j, u)
  <2>1. \A j \in Instances, u \in Tasks : work'[j][u] = work[j][u]
    BY <1>1
  <2>2. \A j \in Instances, u \in Tasks : Owns(j, u)' => Owns(j, u)
    BY <1>2, <1>4, <2>1, OnlyKeeps DEF Owns
  <2> QED
    BY <1>1, <1>2, <1>3, <2>2 DEF MayCommit, TaskOnly
<1>7. StoredInv'
  BY <1>1, <1>2, OnlyKeeps, QuietStored
<1>8. FlowInv(i, t)' /\ StoreInv(i, t)'
  <2>1. StoreInv(i, t)'
    BY <1>3 DEF StoreInv, Restored
  <2> QED
    BY <1>3, <2>1, NoFlow DEF Types
<1> QED
  BY <1>1, <1>2, <1>5, <1>6, <1>7, <1>8, QuietFence, TaskCore DEF CoreAt

\* Every step of the task manager.
LEMMA TaskStepCore ==
  ASSUME Types, Types', Regular, Core, NEW i \in Instances, NEW t \in Tasks, TaskStep(i, t),
         UNCHANGED consumerVars
  PROVE  Core'
<1>1. ~AddWait(i, t)
  BY WorkLife DEF AddWait, Core
<1> QED
  BY <1>1, RemoveLoadCore, RemoveDeleteCore, AddLoadCore, AddRestoredCore, InitTaskCore,
     SendOffsetsCore, CommitTransactionCore, RestartFencedCore, GiveUpCore, TaskStopsCore DEF TaskStep

-----------------------------------------------------------------------------
(* The consumers.                                                          *)

\* What is left to show of a step that concerns instance i only and no task.
LEMMA InstanceCore ==
  ASSUME Types, Core, NEW i \in Instances,
         UNCHANGED <<epoch, outputs, committed, process, task, manager, slipped>>,
         \A j \in Instances, u \in Tasks : j # i => Keeps(j, u),
         \A u \in Tasks : /\ Owns(i, u)' => Owns(i, u)
                          /\ Has(i, u) /\ Stored(i, u) = i => Has(i, u)'
                          /\ CoreAt(i, u)'
  PROVE  Core'
<1>1. \A j \in Instances, u \in Tasks : MayCommit(j, u)' = MayCommit(j, u)
  BY DEF MayCommit
<1>2. \A j \in Instances, u \in Tasks : Owns(j, u)' => Owns(j, u)
  BY KeepsLife
<1>3. ASSUME NEW j \in Instances, NEW u \in Tasks PROVE CoreAt(j, u)'
  <2>1. CASE j # i
    <3>1. Keeps(j, u) /\ CoreAt(j, u) /\ MemberInv
      BY <2>1 DEF Core, CoreAt, Types
    <3> QED
      BY <1>1, <3>1, KeepsCore
  <2> QED
    BY <2>1
<1>4. StoredInv'
  <2>1. \A j \in Instances, u \in Tasks : Has(j, u) /\ Stored(j, u) = j => Has(j, u)'
    BY KeepsLife
  <2> QED
    BY <2>1, QuietStored
<1> QED
  BY <1>1, <1>2, <1>3, <1>4, QuietFence, CoreParts

\* Consume finds the instance's own task, or none of a revoked partition.
LEMMA ConsumeCore ==
  ASSUME Types, Types', Regular, Core, NEW i \in Instances, NEW t \in Tasks,
         Consume(i, t) \/ ClaimEnds(i, t)
  PROVE  Core'
<1>1. /\ UNCHANGED <<coordVars, epoch, outputs, committed, process, task, manager, victim, slipped,
                     work, pc, current, held, pos, chan, sending>>
      /\ \A j \in Instances, u \in Tasks : j # i \/ u # t => claim'[j][u] = claim[j][u]
  BY DEF Consume, ClaimEnds, managerIdle, brokerVars, Types, ConsumerTypes
<1>2. \A j \in Instances, u \in Tasks : j # i \/ u # t => Keeps(j, u)
  BY <1>1 DEF Keeps, Stored, coordVars
<1>3. \A u \in Tasks : (Owns(i, u)' => Owns(i, u)) /\ (Has(i, u) => Has(i, u)')
  BY <1>1 DEF Owns, Has, Engaged, coordVars
<1>4. LifeInv(i, t) /\ FlowInv(i, t) /\ StoreInv(i, t) /\ claim[i][t] \in {0, i, NoClaim}
  BY WorkLife DEF Core
<1>5. claim[i][t] # NoClaim /\ (Claimed(i, t) \/ Stopping(i, t) \/ Removed(i, t)) /\ Has(i, t)
  <2>1. claim[i][t] # NoClaim
    BY Names DEF Consume, ClaimEnds
  <2>2. Claimed(i, t) \/ Stopping(i, t) \/ Removed(i, t)
    BY <1>4, <2>1 DEF LifeInv, Outside, Added, Restored, Started, Unclaimed
  <2>3. t \in held[i] /\ held[i] = current[i]
    BY <2>2 DEF Claimed, Stopping, Removed, Types, MemberInv, MemberOk
  <2> QED
    BY <2>1, <2>2, <2>3 DEF Has, Engaged
<1>6. Stored(i, t) \in {0, i}
  BY <1>5, StoredOwn
<1>7. claim'[i][t] \in {0, i, NoClaim} /\ (claim'[i][t] = NoClaim => ~Claimed(i, t))
  <2>1. CASE Consume(i, t)
    <3>1. claim'[i][t] = IF Stored(i, t) = 0 THEN NoClaim ELSE Stored(i, t)
      BY <2>1 DEF Consume, Types, ConsumerTypes
    <3>2. Claimed(i, t) => Stored(i, t) = i /\ i # 0 /\ i # NoClaim
      BY Names DEF Claimed, Kept
    <3> QED
      BY <1>6, <3>1, <3>2, Names
  <2>2. CASE ClaimEnds(i, t)
    <3>1. claim[i][t] = i /\ task[i][t].closing /\ claim'[i][t] = NoClaim
      BY <1>4, <2>2, Names DEF ClaimEnds, Types, ConsumerTypes
    <3> QED
      BY <3>1 DEF Claimed, Kept
  <2> QED
    BY <2>1, <2>2
<1>8. (Claimed(i, t)' <=> Claimed(i, t)) /\ LifeInv(i, t)' /\ ~Restored(i, t)'
  <2>1. /\ Claimed(i, t) => Claimed(i, t)'
        /\ Stopping(i, t) => Stopping(i, t)'
        /\ Removed(i, t) => Removed(i, t)'
    BY <1>1, <1>7 DEF Claimed, Kept, Stopping, Removed, NotKept, Stored
  <2>2. Claimed(i, t)' => Claimed(i, t)
    BY <1>1, <1>5, <1>4, Names DEF Claimed, Kept, Stored
  <2>3. ~Restored(i, t)'
    BY <1>1, <1>5 DEF Claimed, Stopping, Removed, Restored, Types, MemberInv, MemberOk
  <2> QED
    BY <1>5, <2>1, <2>2, <2>3 DEF LifeInv
<1>9. FlowInv(i, t)' /\ StoreInv(i, t)'
  <2>1. /\ Owns(i, t)' = Owns(i, t) /\ MayCommit(i, t)' = MayCommit(i, t)
        /\ InSend(i, t)' = InSend(i, t) /\ members' = members
    BY <1>1 DEF Owns, Has, Engaged, MayCommit, InSend, coordVars
  <2> QED
    BY <1>1, <1>4, <1>8, <2>1 DEF FlowInv, From, StoreInv
<1>10. ASSUME NEW u \in Tasks PROVE CoreAt(i, u)'
  <2>1. CASE u = t
    BY <1>8, <1>9, <2>1 DEF CoreAt
  <2>2. CASE u # t
    <3>1. Keeps(i, u) /\ CoreAt(i, u) /\ MemberInv /\ MayCommit(i, u)' = MayCommit(i, u)
      BY <1>1, <1>2, <2>2 DEF Core, CoreAt, Types, MayCommit
    <3> QED
      BY <1>1, <3>1, KeepsCore
  <2> QED
    BY <2>1, <2>2
<1> QED
  BY <1>1, <1>2, <1>3, <1>10, InstanceCore

\* A record moves from the channel to the batch.
LEMMA ProcessCore ==
  ASSUME Types, Types', Regular, Core, NEW i \in Instances, NEW t \in Tasks, Process(i, t)
  PROVE  Core'
<1> DEFINE k == task[i][t]
           l == task'[i][t]
           c == chan[i][t]
           b == k.batch
<1>1. claim[i][t] = i /\ LifeInv(i, t) /\ FlowInv(i, t) /\ StoreInv(i, t)
  BY WorkLife, Names DEF Process, Core
<1>2. /\ c \in Seq(Nat \ {0}) /\ c # <<>>
      /\ k.st = "running" /\ ~k.closing /\ ~k.sent /\ k \in TaskType
      /\ TaskTo(i, t, l)
      /\ Fields(l, "running", k.epoch, k.store, Append(b, Head(c)), FALSE, FALSE)
      /\ chan'[i][t] = Tail(c)
      /\ \A j \in Instances, u \in Tasks : j # i \/ u # t => chan'[j][u] = chan[j][u]
  <2> DEFINE o == claim[i][t]
  <2>1. /\ c \in Seq(Nat \ {0}) /\ c # <<>>
        /\ task[o][t].st = "running" /\ ~task[o][t].closing /\ ~task[o][t].sent
        /\ task[o][t] \in TaskType /\ TaskTo(o, t, task'[o][t])
        /\ Fields(task'[o][t], "running", task[o][t].epoch, task[o][t].store,
                  Append(task[o][t].batch, Head(c)), FALSE, FALSE)
        /\ chan'[i][t] = Tail(c)
        /\ \A j \in Instances, u \in Tasks : j # i \/ u # t => chan'[j][u] = chan[j][u]
    BY ProcessEffect
  <2>2. o = i
    BY <1>1
  <2> HIDE DEF o
  <2> QED
    BY <2>1, <2>2
<1>3. /\ UNCHANGED <<coordVars, epoch, outputs, committed, process, manager, victim, slipped,
                     work, pc, current, held, pos, claim, sending>>
  BY DEF Process, brokerVars
<1>4. /\ l.st = "running" /\ l.epoch = k.epoch /\ l.store = k.store /\ l.batch = Append(b, Head(c))
      /\ ~l.sent /\ ~l.closing
  BY <1>2 DEF Fields
<1>5. \A j \in Instances, u \in Tasks : j # i \/ u # t => Keeps(j, u)
  BY <1>2, <1>3 DEF Keeps, Stored, coordVars, TaskTo
<1>6. /\ \A j \in Instances, u \in Tasks : Has(j, u)' = Has(j, u)
      /\ \A j \in Instances, u \in Tasks : Owns(j, u)' = Owns(j, u)
      /\ \A j \in Instances, u \in Tasks : MayCommit(j, u)' => MayCommit(j, u)
      /\ members' = members
  BY <1>2, <1>3, <1>4 DEF Owns, Has, Engaged, coordVars, MayCommit, TaskTo
<1>7. Claimed(i, t)
  BY <1>1, <1>2, Names DEF LifeInv, Outside, Added, Restored, Started, Stopping, Removed, NotKept, Unclaimed
<1>8. Claimed(i, t)'
  <2>1. chan'[i][t] # NoChan
    <3>1. Tail(c) \in Seq(Nat \ {0})
      BY <1>2, Channels
    <3> QED
      BY <1>2, <3>1, Channels
  <2> QED
    BY <1>3, <1>4, <1>7, <2>1 DEF Claimed, Kept, Stored
<1>9. FlowInv(i, t)'
  <2>1. ~MayCommit(i, t)' /\ InSend(i, t)' = InSend(i, t) /\ InSend(i, t) \in Nat
    BY <1>3, <1>4 DEF MayCommit, InSend
  <2>2. CASE ~Owns(i, t)
    <3>1. ~(Claimed(i, t)' /\ i \in members')
      BY <1>6, <1>7, <2>2 DEF Claimed, Owns, Has, Engaged, Types, MemberInv, MemberOk
    <3> QED
      BY <1>6, <2>1, <2>2, <3>1 DEF FlowInv
  <2>3. CASE Owns(i, t)
    <3> DEFINE n == committed[t]
    <3>1. /\ n \in Nat /\ b \in Seq(Nat) /\ From(b, n) /\ From(c, n + Len(b))
          /\ pos[i][t] = n + Len(b) + Len(c) + InSend(i, t)
      <4>1. b \in Seq(Nat) /\ n \in Nat
        BY <1>2 DEF TaskType, Types, BrokerTypes
      <4>2. i \in members
        BY <2>3 DEF Owns
      <4>3. From(b, n) /\ From(c, n + Len(b)) /\ pos[i][t] = n + Len(b) + Len(c) + InSend(i, t)
        BY <1>1, <1>7, <2>3, <4>2 DEF FlowInv
      <4> QED
        BY <4>1, <4>3
    <3>2. /\ From(Append(b, Head(c)), n) /\ From(Tail(c), n + Len(Append(b, Head(c))))
          /\ Len(b) + Len(c) = Len(Append(b, Head(c))) + Len(Tail(c))
      <4> HIDE DEF b, c, n
      <4>1. /\ Len(Append(b, Head(c))) = Len(b) + 1 /\ Len(b) \in Nat
            /\ Len(c) \in Nat \ {0} /\ Len(Tail(c)) = Len(c) - 1
            /\ \A x \in 1 .. Len(b) : Append(b, Head(c))[x] = b[x]
            /\ Append(b, Head(c))[Len(b) + 1] = Head(c)
            /\ \A x \in 1 .. Len(c) - 1 : Tail(c)[x] = c[x + 1]
            /\ Head(c) = c[1]
        BY <1>2, <3>1
      <4>2. Head(c) = n + Len(b) + 1
        BY <3>1, <4>1 DEF From
      <4>3. ASSUME NEW x \in 1 .. Len(b) + 1 PROVE Append(b, Head(c))[x] = n + x
        <5>1. CASE x = Len(b) + 1
          BY <3>1, <4>1, <4>2, <5>1
        <5>2. CASE x # Len(b) + 1
          BY <3>1, <4>1, <5>2 DEF From
        <5> QED
          BY <5>1, <5>2
      <4>4. ASSUME NEW x \in 1 .. Len(c) - 1 PROVE Tail(c)[x] = n + (Len(b) + 1) + x
        <5>1. x + 1 \in 1 .. Len(c) /\ Tail(c)[x] = c[x + 1]
          BY <4>1
        <5>2. c[x + 1] = n + Len(b) + (x + 1)
          BY <3>1, <5>1 DEF From
        <5> QED
          BY <3>1, <4>1, <5>1, <5>2
      <4> QED
        BY <3>1, <4>1, <4>3, <4>4 DEF From
    <3>3. pos'[i][t] = n + Len(l.batch) + Len(chan'[i][t]) + InSend(i, t)'
      <4>1. Len(b) \in Nat /\ Len(c) \in Nat /\ Len(Append(b, Head(c))) \in Nat /\ Len(Tail(c)) \in Nat
        BY <1>2, <3>1
      <4>2. pos'[i][t] = pos[i][t] /\ l.batch = Append(b, Head(c)) /\ chan'[i][t] = Tail(c)
        BY <1>2, <1>3, <1>4
      <4>3. InSend(i, t)' = InSend(i, t) /\ InSend(i, t) \in Nat
        BY <2>1
      <4>4. pos[i][t] = n + Len(b) + Len(c) + InSend(i, t) /\ n \in Nat
        BY <3>1
      <4>5. Len(b) + Len(c) = Len(Append(b, Head(c))) + Len(Tail(c))
        BY <3>2
      <4> DEFINE lb == Len(b)
                 lc == Len(c)
                 la == Len(Append(b, Head(c)))
                 lt == Len(Tail(c))
                 x == InSend(i, t)
      <4>6. /\ lb \in Nat /\ lc \in Nat /\ la \in Nat /\ lt \in Nat /\ x \in Nat /\ n \in Nat
            /\ pos[i][t] = n + lb + lc + x /\ lb + lc = la + lt
        BY <4>1, <4>3, <4>4, <4>5
      <4> HIDE DEF lb, lc, la, lt, x, n
      <4>7. pos[i][t] = n + la + lt + x
        BY ONLY <4>6
      <4> QED
        BY <4>2, <4>3, <4>7 DEF la, lt, x
    <3>4. committed'[t] = n
      BY <1>3
    <3> HIDE DEF n
    <3> QED
      BY <1>2, <1>4, <3>2, <3>3, <3>4 DEF FlowInv
  <2> QED
    BY <2>2, <2>3
<1>10. StoreInv(i, t)'
  BY <1>1, <1>2, <1>3, <1>4, <1>6 DEF StoreInv, Restored
<1>11. ASSUME NEW j \in Instances, NEW u \in Tasks PROVE CoreAt(j, u)'
  <2>1. CASE j = i /\ u = t
    BY <1>8, <1>9, <1>10, <2>1 DEF CoreAt, LifeInv
  <2>2. CASE j # i \/ u # t
    <3>1. Keeps(j, u) /\ CoreAt(j, u) /\ MemberInv
      BY <1>5, <2>2 DEF Core, CoreAt, Types
    <3> QED
      BY <1>3, <1>6, <3>1, KeepsCore
  <2> QED
    BY <2>1, <2>2
<1>12. StoredInv'
  BY <1>3, <1>6, QuietStored
<1> QED
  BY <1>3, <1>6, <1>11, <1>12, QuietFence, CoreParts

\* Without an assignment an instance has nothing.
LEMMA NotEngaged ==
  ASSUME Types, Core, NEW i \in Instances, ~Engaged(i), NEW u \in Tasks
  PROVE  Outside(i, u)
BY DEF Core, LifeInv, Added, Restored, Started, Claimed, Stopping, Removed, Engaged

\* Where an instance has nothing, there is nothing to show.
LEMMA NothingThere ==
  ASSUME Types', NEW i \in Instances, NEW u \in Tasks, Outside(i, u)' \/ Added(i, u)' \/ Removed(i, u)'
  PROVE  CoreAt(i, u)'
<1>1. task'[i][u].st \in {"none", "stopped"}
  BY DEF Outside, Added, Removed, NotKept
<1>2. FlowInv(i, u)'
  BY <1>1, NoFlow DEF Types
<1>3. StoreInv(i, u)'
  BY <1>1 DEF StoreInv, Restored
<1> QED
  BY <1>2, <1>3 DEF CoreAt, LifeInv

\* The loop of one instance does not concern the others.
LEMMA PollKeeps ==
  ASSUME Types, NEW i \in Instances, PollLoop(i)
  PROVE  /\ UNCHANGED <<epoch, outputs, committed, process, task, manager, victim, slipped>>
         /\ \A j \in Instances, u \in Tasks : j # i => Keeps(j, u)
         /\ \A u \in Tasks : task'[i][u] = task[i][u] /\ victim'[i][u] = victim[i][u]
                             /\ Stored(i, u)' = Stored(i, u)
<1>1. /\ UNCHANGED <<epoch, outputs, committed, process, task, manager, victim, slipped>>
      /\ \A j \in Instances : j # i => Same(j)
  BY PollFrame DEF managerIdle
<1>2. members' \subseteq members \cup {i}
  <2>1. CASE Subscribe(i)
    BY <2>1, CoordEffect DEF Subscribe, Types
  <2>2. CASE Revoked(i)
    <3>1. (Leave({i}) /\ {i} \in SUBSET Instances) \/ Rejoin(i)
      BY <2>2 DEF Revoked
    <3>2. Leave({i}) => members' = members \ {i}
      BY <3>1, CoordEffect DEF Types
    <3> QED
      BY <3>1, <3>2 DEF Rejoin
  <2>3. CASE RejoinIdle(i)
    BY <2>3 DEF RejoinIdle, Rejoin
  <2>4. CASE AssignedPartitions(i) \/ Assign(i) \/ Send(i) \/ RevokedPartitions(i) \/ StopSeen(i)
             \/ \E t \in Tasks : Message(i, t)
    BY <2>4 DEF AssignedPartitions, Assign, Send, RevokedPartitions, StopSeen, Message, brokerVars, coordVars
  <2> QED
    BY <2>1, <2>2, <2>3, <2>4 DEF PollLoop
<1>3. ASSUME NEW j \in Instances, NEW u \in Tasks, j # i PROVE Keeps(j, u)
  BY <1>1, <1>2, <1>3 DEF Keeps, Same, Stored
<1> QED
  BY <1>1, <1>3 DEF Stored

\* A member joins without tasks.
LEMMA SubscribeCore ==
  ASSUME Types, Types', Regular, Core, NEW i \in Instances, Subscribe(i)
  PROVE  Core'
<1>1. ~Engaged(i) /\ PollLoop(i)
  BY DEF Subscribe, Engaged, PollLoop
<1>2. UNCHANGED <<work, current, held, chan, claim>> /\ pc'[i] = "poll"
  BY DEF Subscribe, PcTo, Types, ConsumerTypes
<1>3. held[i] = {}
  BY <1>1 DEF Engaged
<1>4. ASSUME NEW u \in Tasks PROVE Outside(i, u) /\ Outside(i, u)' /\ ~Has(i, u)' /\ ~Has(i, u)
  <2>1. Outside(i, u)
    BY <1>1, NotEngaged
  <2>2. ~Has(i, u)'
    BY <1>2, <1>3 DEF Has, Engaged
  <2>3. task'[i][u] = task[i][u] /\ Stored(i, u)' = Stored(i, u)
    BY <1>1, PollKeeps
  <2> QED
    BY <1>2, <2>1, <2>2, <2>3 DEF Outside, NotKept, Unclaimed
<1> QED
  BY <1>1, <1>4, PollKeeps, NothingThere, InstanceCore DEF Owns

\* A member without tasks waits for the next generation.
LEMMA RejoinIdleCore ==
  ASSUME Types, Types', Regular, Core, NEW i \in Instances, RejoinIdle(i)
  PROVE  Core'
<1>1. PollLoop(i) /\ UNCHANGED <<members, work, consumerVars>>
  BY DEF RejoinIdle, PollLoop, Rejoin
<1>2. ASSUME NEW u \in Tasks PROVE Keeps(i, u)
  BY <1>1, PollKeeps DEF Keeps, consumerVars
<1>3. ASSUME NEW u \in Tasks
      PROVE  (Owns(i, u)' => Owns(i, u)) /\ (Has(i, u) => Has(i, u)') /\ CoreAt(i, u)'
  <2>1. CoreAt(i, u) /\ MemberInv /\ MayCommit(i, u)' = MayCommit(i, u)
    BY <1>1, PollKeeps DEF Core, CoreAt, Types, MayCommit
  <2> QED
    BY <1>1, <1>2, <2>1, PollKeeps, KeepsLife, KeepsCore
<1> QED
  BY <1>1, <1>3, PollKeeps, InstanceCore

\* An assignment is given to an instance that has nothing.
LEMMA AssignedPartitionsCore ==
  ASSUME Types, Types', Regular, Core, NEW i \in Instances, AssignedPartitions(i)
  PROVE  Core'
<1>1. ~Engaged(i) /\ PollLoop(i)
  BY DEF AssignedPartitions, Engaged, PollLoop
<1>2. /\ UNCHANGED <<held, chan, claim>> /\ pc'[i] = "assign" /\ current'[i] = target[i]
      /\ \A u \in Tasks : work'[i][u] = IF u \in target[i] THEN "add" ELSE "none"
  BY DEF AssignedPartitions, StartWork, PcTo, Types, ConsumerTypes, ManagerTypes
<1>3. ASSUME NEW u \in Tasks
      PROVE  ~Has(i, u) /\ ~Owns(i, u)' /\ (Outside(i, u)' \/ Added(i, u)')
  <2>1. Outside(i, u)
    BY <1>1, NotEngaged
  <2>2. task'[i][u] = task[i][u] /\ Stored(i, u)' = Stored(i, u)
    BY <1>1, PollKeeps
  <2>3. Has(i, u)' => u \in target[i]
    BY <1>2 DEF Has
  <2>4. ~Owns(i, u)'
    BY <1>2, <2>3 DEF Owns
  <2> QED
    BY <1>2, <2>1, <2>2, <2>3, <2>4 DEF Outside, Added, NotKept, Unclaimed
<1> QED
  BY <1>1, <1>3, PollKeeps, NothingThere, InstanceCore

\* The partitions are consumed from the committed offsets, by tasks that have
\* started and nothing else yet.
LEMMA AssignCore ==
  ASSUME Types, Types', Regular, Core, NEW i \in Instances, Assign(i)
  PROVE  Core'
<1>1. PollLoop(i) /\ pc[i] = "assign" /\ held[i] = {} /\ Engaged(i)
  BY DEF Assign, PollLoop, Engaged, Types, MemberInv, MemberOk
<1>2. /\ UNCHANGED <<members, work, current, sending>> /\ pc'[i] = "poll" /\ held'[i] = current[i]
      /\ pos'[i] = committed
      /\ \A u \in Tasks :
           /\ chan'[i][u] = IF u \in current[i] THEN <<>> ELSE chan[i][u]
           /\ claim'[i][u] = IF u \in current[i] THEN 0 ELSE claim[i][u]
  BY DEF Assign, PcTo, Types, ConsumerTypes, brokerVars, coordVars
<1>3. ASSUME NEW u \in Tasks
      PROVE  /\ Owns(i, u)' => Owns(i, u)
             /\ Has(i, u) => Has(i, u)'
             /\ CoreAt(i, u)'
  <2>1. task'[i][u] = task[i][u] /\ Stored(i, u)' = Stored(i, u) /\ committed' = committed
        /\ epoch' = epoch /\ slipped' = slipped
    BY <1>1, PollKeeps
  <2>2. LifeInv(i, u) /\ FlowInv(i, u) /\ StoreInv(i, u) /\ work[i][u] \in {"none", "done"}
    BY DEF Core, Assign, WorkDone
  <2>3. CASE u \in current[i]
    <3>1. Started(i, u)
      BY <1>1, <2>2, <2>3 DEF LifeInv, Outside, Has, Added, Restored, Claimed, Stopping, Removed
    <3>2. Owns(i, u)' => Owns(i, u)
      BY <1>1, <1>2, <2>3, <3>1 DEF Owns, Has, Started
    <3>3. Claimed(i, u)'
      <4>1. <<>> # NoChan
        BY DEF NoChan
      <4> QED
        BY <1>2, <2>1, <2>3, <3>1, <4>1 DEF Claimed, Started, Kept
    <3>4. FlowInv(i, u)'
      <4>1. task'[i][u].batch = <<>> /\ chan'[i][u] = <<>> /\ pos'[i][u] = committed'[u]
            /\ InSend(i, u)' = 0 /\ committed'[u] \in Nat
        BY <1>2, <2>1, <2>3, <3>1 DEF Started, InSend, Types, BrokerTypes
      <4> QED
        BY <4>1 DEF FlowInv, From
    <3>5. StoreInv(i, u)'
      BY <2>1, <2>2, <3>2, <3>3 DEF StoreInv, Restored, Claimed
    <3>6. Has(i, u)'
      BY <1>2, <2>3 DEF Has, Engaged
    <3> QED
      BY <3>2, <3>3, <3>4, <3>5, <3>6 DEF CoreAt, LifeInv
  <2>4. CASE u \notin current[i]
    <3>1. ~Has(i, u)' /\ ~Has(i, u)
      BY <1>2, <2>4 DEF Has
    <3>2. Outside(i, u)
      BY <1>1, <2>2, <2>4 DEF LifeInv, Added, Restored, Started, Claimed, Stopping, Removed
    <3>3. Outside(i, u)'
      BY <1>2, <2>1, <2>4, <3>1, <3>2 DEF Outside, NotKept, Unclaimed
    <3> QED
      BY <3>1, <3>3, NothingThere DEF Owns
  <2> QED
    BY <2>3, <2>4
<1> QED
  BY <1>1, <1>3, PollKeeps, InstanceCore

\* A record more in a channel continues it.
LEMMA FromAppend ==
  ASSUME NEW c \in Seq(Nat), NEW n \in Nat, From(c, n)
  PROVE  From(Append(c, n + Len(c) + 1), n) /\ Len(Append(c, n + Len(c) + 1)) = Len(c) + 1
<1> DEFINE a == Append(c, n + Len(c) + 1)
<1>1. /\ Len(c) \in Nat /\ Len(a) = Len(c) + 1 /\ a[Len(c) + 1] = n + (Len(c) + 1)
      /\ \A x \in 1 .. Len(c) : a[x] = c[x]
  OBVIOUS
<1> HIDE DEF a
<1>2. ASSUME NEW x \in 1 .. Len(c) + 1 PROVE a[x] = n + x
  <2>1. CASE x = Len(c) + 1
    BY <1>1, <2>1
  <2>2. CASE x # Len(c) + 1
    BY <1>1, <2>2 DEF From
  <2> QED
    BY <2>1, <2>2
<1>3. From(a, n) /\ Len(a) = Len(c) + 1
  BY <1>1, <1>2 DEF From
<1> QED
  BY <1>3 DEF a

\* A loop that polls or sends has claims for what it has, and nothing else.
LEMMA Polling ==
  ASSUME Types, Core, NEW i \in Instances, pc[i] \in {"poll", "send"}, NEW u \in Tasks
  PROVE  /\ Outside(i, u) \/ Claimed(i, u)
         /\ Claimed(i, u) <=> u \in held[i]
         /\ Claimed(i, u) => Has(i, u) /\ work[i][u] = "done"
         /\ u \notin held[i] => ~Has(i, u)
<1>1. LifeInv(i, u)
  BY DEF Core
<1>2. Outside(i, u) \/ Claimed(i, u)
  BY <1>1 DEF LifeInv, Added, Restored, Started, Stopping, Removed
<1>3. held[i] # {} => held[i] = current[i]
  BY DEF Types, MemberInv, MemberOk
<1>4. Has(i, u) <=> u \in held[i]
  BY <1>3 DEF Has, Engaged
<1> QED
  BY <1>2, <1>4 DEF Outside, Claimed

\* The loop hands records over in the order of their offsets; one that finds the
\* channel full is the next to go in.
LEMMA HandOver ==
  ASSUME Types, Types', Regular, Core, NEW i \in Instances, NEW t \in Tasks, PollLoop(i), t \in held[i],
         pc[i] \in {"poll", "send"}, pc'[i] \in {"poll", "send"},
         UNCHANGED <<members, work, current, held, claim>>,
         \A u \in Tasks : u # t => chan'[i][u] = chan[i][u] /\ pos'[i][u] = pos[i][u]
                                   /\ InSend(i, u)' = InSend(i, u),
         \/ /\ chan'[i][t] = Append(chan[i][t], pos[i][t] + 1 - InSend(i, t))
            /\ pos'[i][t] = pos[i][t] + 1 - InSend(i, t) /\ InSend(i, t)' = 0
         \/ chan'[i][t] = chan[i][t] /\ pos'[i][t] = pos[i][t] + 1 /\ InSend(i, t)' = 1 /\ InSend(i, t) = 0,
         chan'[i][t] # NoChan
  PROVE  Core'
<1>1. ASSUME NEW u \in Tasks
      PROVE  /\ Owns(i, u)' = Owns(i, u) /\ Has(i, u)' = Has(i, u) /\ MayCommit(i, u)' = MayCommit(i, u)
             /\ task'[i][u] = task[i][u] /\ Stored(i, u)' = Stored(i, u) /\ committed'[u] = committed[u]
             /\ UNCHANGED <<slipped, members>>
  BY PollKeeps DEF Owns, Has, Engaged, MayCommit
<1>2. ASSUME NEW u \in Tasks PROVE CoreAt(i, u)'
  <2>1. CASE u \notin held[i]
    <3>1. Outside(i, u) /\ u # t
      BY <2>1, Polling
    <3>2. Outside(i, u)'
      BY <1>1, <3>1 DEF Outside, NotKept, Unclaimed
    <3> QED
      BY <3>2, NothingThere
  <2>2. CASE u \in held[i]
    <3>1. Claimed(i, u) /\ work[i][u] = "done" /\ FlowInv(i, u) /\ StoreInv(i, u)
      BY <2>2, Polling DEF Core
    <3>2. Claimed(i, u)'
      BY <1>1, <3>1 DEF Claimed, Kept
    <3>3. StoreInv(i, u)'
      BY <1>1, <3>1, <3>2 DEF StoreInv, Restored, Claimed
    <3>4. FlowInv(i, u)'
      <4>1. CASE u # t
        BY <1>1, <3>1, <4>1 DEF FlowInv, From
      <4>2. CASE u = t /\ i \notin members
        BY <1>1, <3>1, <4>2 DEF FlowInv, From
      <4>3. CASE u = t /\ i \in members
        <5> DEFINE n == committed[t] + Len(task[i][t].batch)
                   c == chan[i][t]
        <5>1. /\ From(c, n) /\ pos[i][t] = n + Len(c) + InSend(i, t)
              /\ (Owns(i, t) \/ MayCommit(i, t) => From(task[i][t].batch, committed[t]))
          BY <3>1, <4>3 DEF FlowInv
        <5>2. n \in Nat /\ c \in Seq(Nat) /\ InSend(i, t) \in {0, 1}
          <6>1. task[i][t].batch \in Seq(Nat) /\ committed[t] \in Nat
            BY DEF Types, ManagerTypes, BrokerTypes, TaskType
          <6>2. Len(task[i][t].batch) \in Nat
            BY <6>1
          <6>3. c \in Seq(Nat \ {0})
            BY <3>1, <4>3 DEF Claimed, Types, ConsumerTypes
          <6>4. n \in Nat
            BY <6>1, <6>2
          <6>5. InSend(i, t) \in {0, 1}
            BY DEF InSend
          <6> HIDE DEF c, n
          <6>6. c \in Seq(Nat)
            BY ONLY <6>3
          <6> QED
            BY <6>4, <6>5, <6>6
        <5>3. From(chan'[i][t], n) /\ pos'[i][t] = n + Len(chan'[i][t]) + InSend(i, t)'
          <6> DEFINE x == InSend(i, t)
                     y == InSend(i, t)'
          <6>1. \/ /\ chan'[i][t] = Append(c, pos[i][t] + 1 - x)
                   /\ pos'[i][t] = pos[i][t] + 1 - x /\ y = 0
                \/ chan'[i][t] = c /\ pos'[i][t] = pos[i][t] + 1 /\ y = 1 /\ x = 0
            OBVIOUS
          <6>2. Len(c) \in Nat /\ pos[i][t] = n + Len(c) + x /\ x \in {0, 1} /\ From(c, n)
            BY <5>1, <5>2
          <6> HIDE DEF n, c, x, y
          <6>3. pos[i][t] + 1 - x = n + Len(c) + 1
            BY <5>2, <6>2
          <6>4. CASE chan'[i][t] = Append(c, pos[i][t] + 1 - x) /\ pos'[i][t] = pos[i][t] + 1 - x /\ y = 0
            <7>1. From(chan'[i][t], n) /\ Len(chan'[i][t]) = Len(c) + 1
              BY <5>2, <6>2, <6>3, <6>4, FromAppend
            <7> QED
              BY <5>2, <6>2, <6>3, <6>4, <7>1 DEF y
          <6>5. CASE chan'[i][t] = c /\ pos'[i][t] = pos[i][t] + 1 /\ y = 1 /\ x = 0
            BY <5>2, <6>2, <6>5 DEF y
          <6> QED
            BY <6>1, <6>4, <6>5
        <5>4. committed'[t] + Len(task'[i][t].batch) = n
          BY <1>1
        <5> HIDE DEF n
        <5> QED
          BY <1>1, <4>3, <5>1, <5>3, <5>4 DEF FlowInv, From
      <4> QED
        BY <4>1, <4>2, <4>3
    <3> QED
      BY <3>2, <3>3, <3>4 DEF CoreAt, LifeInv
  <2> QED
    BY <2>1, <2>2
<1> QED
  BY <1>1, <1>2, PollKeeps, InstanceCore

\* A record that was fetched.
LEMMA MessageCore ==
  ASSUME Types, Types', Regular, Core, NEW i \in Instances, NEW t \in Tasks, Message(i, t)
  PROVE  Core'
<1>1. /\ PollLoop(i) /\ t \in held[i] /\ pc[i] = "poll" /\ pc'[i] \in {"poll", "send"}
      /\ UNCHANGED <<members, work, current, held, claim>>
      /\ \A u \in Tasks : InSend(i, u) = 0 /\ (u # t => InSend(i, u)' = 0)
      /\ chan[i][t] \in Seq(Nat \ {0}) /\ pos[i][t] \in Nat
  <2>1. pc[i] = "poll" /\ t \in held[i] /\ UNCHANGED <<members, work, current, held, claim>>
    BY DEF Message, brokerVars, coordVars
  <2>2. PollLoop(i)
    BY DEF PollLoop
  <2>3. pc \in [Instances -> Up \cup {"new", "stopped", "dead"}] /\ i \in Instances
        /\ sending \in [Instances -> Tasks \cup {0}]
    BY DEF Types, ConsumerTypes
  <2>4. \/ sending' = [sending EXCEPT ![i] = t] /\ pc' = [pc EXCEPT ![i] = "send"]
        \/ UNCHANGED <<sending, pc>>
    BY DEF Message, PcTo
  <2>5. pc'[i] \in {"poll", "send"} /\ (pc'[i] = "send" => sending'[i] = t)
    BY ONLY <2>1, <2>3, <2>4
  <2>6. \A u \in Tasks : InSend(i, u) = 0 /\ (u # t => InSend(i, u)' = 0)
    BY ONLY <2>1, <2>5 DEF InSend
  <2>7. chan[i][t] \in Seq(Nat \ {0}) /\ pos[i][t] \in Nat
    BY DEF Message, Types, ConsumerTypes
  <2> QED
    BY <2>1, <2>2, <2>5, <2>6, <2>7
<1>2. /\ pos'[i][t] = pos[i][t] + 1
      /\ \A u \in Tasks : u # t => chan'[i][u] = chan[i][u] /\ pos'[i][u] = pos[i][u]
      /\ \/ chan'[i][t] = Append(chan[i][t], pos[i][t] + 1) /\ InSend(i, t)' = 0
         \/ chan'[i][t] = chan[i][t] /\ InSend(i, t)' = 1
  <2>1. \/ chan' = [chan EXCEPT ![i][t] = Append(chan[i][t], pos[i][t] + 1)] /\ UNCHANGED <<sending, pc>>
        \/ sending' = [sending EXCEPT ![i] = t] /\ pc' = [pc EXCEPT ![i] = "send"] /\ UNCHANGED chan
    BY DEF Message, PcTo, Types, ConsumerTypes
  <2>2. pos' = [pos EXCEPT ![i][t] = pos[i][t] + 1]
    BY DEF Message, Types, ConsumerTypes
  <2> QED
    BY <1>1, <2>1, <2>2 DEF Types, ConsumerTypes, InSend
<1>3. chan'[i][t] # NoChan
  <2>1. Append(chan[i][t], pos[i][t] + 1) \in Seq(Nat \ {0})
    BY <1>1, Channels
  <2> QED
    BY <1>1, <1>2, <2>1, Channels
<1>4. pos[i][t] + 1 - InSend(i, t) = pos[i][t] + 1
  BY <1>1
<1> QED
  BY <1>1, <1>2, <1>3, <1>4, HandOver

\* The record that waited.
LEMMA SendCore ==
  ASSUME Types, Types', Regular, Core, NEW i \in Instances, Send(i)
  PROVE  Core'
<1> DEFINE t == sending[i]
<1>1. /\ PollLoop(i) /\ t \in held[i] /\ t \in Tasks /\ pc[i] = "send" /\ pc'[i] = "poll"
      /\ UNCHANGED <<members, work, current, held, claim, pos>>
      /\ \A u \in Tasks : InSend(i, u)' = 0 /\ InSend(i, u) = IF u = t THEN 1 ELSE 0
      /\ chan[i][t] \in Seq(Nat \ {0}) /\ pos[i][t] \in Nat \ {0}
  BY DEF Send, PollLoop, PcTo, Types, ConsumerTypes, InSend, brokerVars, coordVars, MemberInv, MemberOk
<1>2. /\ chan'[i][t] = Append(chan[i][t], pos[i][t])
      /\ \A u \in Tasks : u # t => chan'[i][u] = chan[i][u]
  <2>1. chan' = [chan EXCEPT ![i][t] = Append(chan[i][t], pos[i][t])]
    BY DEF Send
  <2> HIDE DEF t
  <2> QED
    BY <1>1, <2>1 DEF Types, ConsumerTypes
<1>3. chan'[i][t] # NoChan
  <2>1. Append(chan[i][t], pos[i][t]) \in Seq(Nat \ {0})
    BY <1>1, Channels
  <2> QED
    BY <1>2, <2>1, Channels
<1>4. pos[i][t] + 1 - InSend(i, t) = pos[i][t]
  BY <1>1
<1> HIDE DEF t
<1> QED
  BY <1>1, <1>2, <1>3, <1>4, HandOver

\* The callback of a revocation, or of Close, starts: every task that the
\* instance has is to be removed.
LEMMA RevokeCore ==
  ASSUME Types, Types', Regular, Core, NEW i \in Instances, PollLoop(i),
         pc[i] = "poll", pc'[i] \in {"revoke", "close"},
         UNCHANGED <<members, current, held, chan, claim, pos>>,
         \A u \in Tasks : work'[i][u] = IF u \in held[i] THEN "remove" ELSE "none"
  PROVE  Core'
<1>1. ASSUME NEW u \in Tasks
      PROVE  /\ Owns(i, u)' = Owns(i, u) /\ Has(i, u)' = Has(i, u) /\ MayCommit(i, u)' = MayCommit(i, u)
             /\ InSend(i, u)' = InSend(i, u)
             /\ task'[i][u] = task[i][u] /\ Stored(i, u)' = Stored(i, u) /\ committed'[u] = committed[u]
             /\ UNCHANGED <<slipped, members>>
  BY PollKeeps DEF Owns, Has, Engaged, MayCommit, InSend
<1>2. ASSUME NEW u \in Tasks PROVE CoreAt(i, u)'
  <2>1. CASE u \notin held[i]
    <3>1. Outside(i, u)
      BY <2>1, Polling
    <3>2. Outside(i, u)'
      BY <1>1, <2>1, <3>1 DEF Outside, NotKept, Unclaimed
    <3> QED
      BY <3>2, NothingThere
  <2>2. CASE u \in held[i]
    <3>1. Claimed(i, u) /\ FlowInv(i, u) /\ StoreInv(i, u)
      BY <2>2, Polling DEF Core
    <3>2. Claimed(i, u)'
      BY <1>1, <2>2, <3>1 DEF Claimed, Kept
    <3>3. StoreInv(i, u)'
      BY <1>1, <3>1, <3>2 DEF StoreInv, Restored, Claimed
    <3>4. FlowInv(i, u)'
      BY <1>1, <3>1, <3>2 DEF FlowInv, From
    <3> QED
      BY <3>2, <3>3, <3>4 DEF CoreAt, LifeInv
  <2> QED
    BY <2>1, <2>2
<1> QED
  BY <1>1, <1>2, PollKeeps, InstanceCore

LEMMA RevokedPartitionsCore ==
  ASSUME Types, Types', Regular, Core, NEW i \in Instances, RevokedPartitions(i) \/ StopSeen(i)
  PROVE  Core'
<1>1. pc[i] = "poll" /\ (held[i] # {} => held[i] = current[i])
  BY DEF RevokedPartitions, StopSeen, Types, MemberInv, MemberOk
<1>2. PollLoop(i) /\ UNCHANGED <<members, current, held, chan, claim, pos>>
  BY DEF PollLoop, RevokedPartitions, StopSeen, brokerVars, coordVars
<1>3. pc'[i] \in {"revoke", "close"}
  BY DEF RevokedPartitions, StopSeen, PcTo, Types, ConsumerTypes
<1>4. StartWork(i, held[i], "remove")
  BY <1>1 DEF RevokedPartitions, StopSeen
<1>5. \A u \in Tasks : work'[i][u] = IF u \in held[i] THEN "remove" ELSE "none"
  BY <1>4 DEF StartWork, Types, ManagerTypes
<1> QED
  BY <1>1, <1>2, <1>3, <1>5, RevokeCore

\* The callback is done: every task has stopped, and the map no longer names it.
LEMMA RevokedCore ==
  ASSUME Types, Types', Regular, Core, NEW i \in Instances, Revoked(i)
  PROVE  Core'
<1>1. /\ PollLoop(i) /\ pc[i] \in {"revoke", "close"}
      /\ \A u \in Tasks : work[i][u] \in {"none", "done"}
  BY DEF PollLoop, Revoked, WorkDone
<1>2. /\ UNCHANGED work /\ held'[i] = {} /\ pc'[i] \in {"poll", "stopped"}
      /\ \A u \in Tasks : /\ chan'[i][u] = IF u \in held[i] THEN NoChan ELSE chan[i][u]
                          /\ claim'[i][u] = IF u \in held[i] THEN NoClaim ELSE claim[i][u]
  BY DEF Revoked, PcTo, Types, ConsumerTypes
<1>3. ASSUME NEW u \in Tasks
      PROVE  NotKept(i, u) /\ (u \notin held[i] => Unclaimed(i, u))
  <2>1. LifeInv(i, u)
    BY DEF Core
  <2>2. Outside(i, u) \/ Removed(i, u)
    BY <1>1, <2>1 DEF LifeInv, Added, Restored, Started, Claimed, Stopping
  <2> QED
    BY <2>2 DEF Outside, Removed
<1>4. ASSUME NEW u \in Tasks PROVE ~Has(i, u)' /\ Outside(i, u)'
  <2>1. ~Has(i, u)'
    BY <1>2 DEF Has, Engaged
  <2>2. task'[i][u] = task[i][u] /\ Stored(i, u)' = Stored(i, u)
    BY <1>1, PollKeeps
  <2> QED
    BY <1>1, <1>2, <1>3, <2>1, <2>2 DEF Outside, NotKept, Unclaimed
<1>5. \A u \in Tasks : Stored(i, u) # i
  BY <1>3 DEF NotKept
<1> QED
  BY <1>1, <1>4, <1>5, PollKeeps, NothingThere, InstanceCore DEF Owns

\* All that the poll loop does.
LEMMA PollLoopCore ==
  ASSUME Types, Types', Regular, Core, NEW i \in Instances, PollLoop(i)
  PROVE  Core'
BY SubscribeCore, AssignedPartitionsCore, AssignCore, SendCore, RevokedPartitionsCore, RejoinIdleCore,
   RevokedCore, MessageCore DEF PollLoop

-----------------------------------------------------------------------------
(* The processes and the coordinator.                                      *)

\* A step that concerns no task.
LEMMA NobodyCore ==
  ASSUME Types, Core, UNCHANGED <<epoch, outputs, committed, process, task, manager, slipped>>,
         \A j \in Instances, u \in Tasks : Keeps(j, u)
  PROVE  Core'
<1>1. 1 \in Instances
  BY Names DEF Instances
<1>2. ASSUME NEW u \in Tasks
      PROVE  (Owns(1, u)' => Owns(1, u)) /\ (Has(1, u) => Has(1, u)') /\ CoreAt(1, u)'
  <2>1. CoreAt(1, u) /\ MemberInv /\ MayCommit(1, u)' = MayCommit(1, u)
    BY <1>1 DEF Core, CoreAt, Types, MayCommit
  <2> QED
    BY <1>1, <2>1, KeepsLife, KeepsCore
<1> QED
  BY <1>1, <1>2, InstanceCore

\* Evictions, rebalances and a stop signal concern no task at once.
LEMMA CoordinatorCore ==
  ASSUME Types, Core, NEW i \in Instances,
         Evict(i) \/ Sync \/ Unsubscribe(i) \/ UNCHANGED vars
  PROVE  Core'
<1>1. UNCHANGED <<epoch, outputs, committed, process, task, manager, victim, slipped, work, pc, current,
                  held, pos, chan, claim, sending>>
  BY DEF Evict, Sync, Unsubscribe, managerIdle, consumerVars, vars, brokerVars, managerVars
<1>2. members' \subseteq members
  <2>1. CASE Evict(i)
    <3>1. CoordTypes /\ MemberInv /\ EvictMember(i)
      BY <2>1 DEF Evict, Types
    <3> QED
      BY <3>1, CoordEffect, Names
  <2>2. CASE Sync
    BY <2>2 DEF Sync, SyncGroup
  <2>3. CASE Unsubscribe(i) \/ UNCHANGED vars
    BY <2>3 DEF Unsubscribe, vars, brokerVars, coordVars
  <2> QED
    BY <2>1, <2>2, <2>3
<1>3. \A j \in Instances, u \in Tasks : Keeps(j, u)
  BY <1>1, <1>2 DEF Keeps, Stored
<1> QED
  BY <1>1, <1>3, NobodyCore

\* A process that ends takes its tasks and its claims with it.
LEMMA GoneCore ==
  ASSUME Types, Types', Core, NEW p \in Instances, NEW s \in {"new", "dead"}, Gone(p, s)
  PROVE  Core'
<1>1. UNCHANGED <<epoch, outputs, committed, process, slipped>> /\ members' \subseteq members
  BY GoneEffect
<1>2. ASSUME NEW j \in Instances, NEW u \in Tasks, process[j] # p PROVE Keeps(j, u)
  <2>1. Same(j) /\ task'[j] = task[j] /\ victim'[j] = victim[j]
    BY <1>2, GoneEffect
  <2>2. process[j] \in Instances
    BY Names DEF Types, ManagerTypes, Instances
  <2>3. Stored(j, u)' = Stored(j, u)
    BY <1>1, <1>2, <2>2, GoneEffect DEF Stored
  <2> QED
    BY <1>1, <2>1, <2>3 DEF Keeps, Same
<1>3. ASSUME NEW j \in Instances, NEW u \in Tasks, process[j] = p PROVE Outside(j, u)' /\ ~Has(j, u)'
  <2>1. /\ pc'[j] \notin Up /\ held'[j] = {} /\ task'[j][u] = NoTask /\ work'[j][u] = "none"
        /\ chan'[j][u] = NoChan /\ claim'[j][u] = NoClaim
    BY <1>3, GoneEffect
  <2>2. Stored(j, u)' = 0 /\ j # 0
    BY <1>1, <1>3, GoneEffect, Names DEF Stored
  <2>3. ~Has(j, u)'
    BY <2>1 DEF Has, Engaged, Up
  <2> QED
    BY <2>1, <2>2, <2>3 DEF Outside, NotKept, Unclaimed, NoTask
<1>4. ASSUME NEW j \in Instances, NEW u \in Tasks
      PROVE  /\ Owns(j, u)' => Owns(j, u)
             /\ MayCommit(j, u)' => MayCommit(j, u)
             /\ CoreAt(j, u)'
  <2>1. CASE process[j] = p
    <3>1. task'[j][u] = NoTask
      BY <2>1, GoneEffect
    <3>2. ~MayCommit(j, u)'
      BY <3>1 DEF MayCommit, NoTask
    <3> QED
      BY <1>3, <2>1, <3>2, NothingThere DEF Owns
  <2>2. CASE process[j] # p
    <3>1. Keeps(j, u) /\ CoreAt(j, u) /\ MemberInv
      BY <1>2, <2>2 DEF Core, CoreAt, Types
    <3>2. MayCommit(j, u)' = MayCommit(j, u)
      BY <1>1, <3>1 DEF Keeps, MayCommit
    <3> QED
      BY <1>1, <3>1, <3>2, KeepsLife, KeepsCore
  <2> QED
    BY <2>1, <2>2
<1>5. StoredInv'
  <2> SUFFICES ASSUME NEW q \in Instances, NEW u \in Tasks, NEW o, o = manager'[q][u], o # 0
               PROVE  process[o] = q /\ Has(o, u)'
    BY <1>1 DEF StoredInv
  <2>1. q # p /\ manager[q][u] = o
    BY GoneEffect
  <2>2. o \in Instances /\ process[o] = q /\ Has(o, u)
    <3>1. manager[q][u] \in Instances \cup {0}
      BY DEF Types, ManagerTypes
    <3> QED
      BY <2>1, <3>1 DEF Core, StoredInv
  <2> QED
    BY <1>2, <2>1, <2>2, KeepsLife
<1> QED
  BY <1>1, <1>4, <1>5, QuietFence, CoreParts

-----------------------------------------------------------------------------
(* The invariant, and what it says.                                        *)

\* At first nobody has anything.
LEMMA InitCore == Init => Core
<1> SUFFICES ASSUME Init PROVE Core
  OBVIOUS
<1>1. /\ process \in {[i \in Instances |-> 1], [i \in Instances |-> i]} /\ members = {} /\ slipped = {}
      /\ \A i \in Instances :
           /\ pc[i] = "new" /\ held[i] = {} /\ current[i] = {}
           /\ \A t \in Tasks : /\ work[i][t] = "none" /\ task[i][t] = NoTask /\ manager[i][t] = 0
                               /\ chan[i][t] = NoChan /\ claim[i][t] = NoClaim
      /\ \A t \in Tasks : outputs[t] = <<>> /\ committed[t] = 0
  BY DEF Init, BrokerInit, ManagerInit
<1>2. ASSUME NEW i \in Instances, NEW t \in Tasks
      PROVE  Outside(i, t) /\ ~Owns(i, t) /\ ~MayCommit(i, t) /\ FlowInv(i, t) /\ StoreInv(i, t)
  <2>1. process[i] \in Instances
    BY <1>1, Names DEF Instances
  <2>2. Stored(i, t) = 0 /\ i # 0
    BY <1>1, <2>1, Names DEF Stored
  <2>3. ~Has(i, t) /\ ~Owns(i, t) /\ ~MayCommit(i, t) /\ ~Restored(i, t) /\ ~Claimed(i, t)
    BY <1>1 DEF Has, Engaged, Owns, MayCommit, Restored, Claimed, NoTask
  <2>4. Outside(i, t)
    BY <1>1, <2>2, <2>3 DEF Outside, NotKept, Unclaimed, NoTask
  <2> QED
    BY <2>3, <2>4 DEF FlowInv, StoreInv
<1>3. ASSUME NEW t \in Tasks PROVE FenceInv(t) /\ OutputInv(t)
  <2>1. FenceInv(t)
    BY <1>2 DEF FenceInv
  <2>2. outputs[t] = <<>> /\ committed[t] = 0
    BY <1>1
  <2>3. <<>> = [k \in 1 .. 0 |-> k]
    OBVIOUS
  <2> QED
    BY <2>1, <2>2, <2>3 DEF OutputInv
<1>4. StoredInv
  BY <1>1 DEF StoredInv
<1> QED
  BY <1>2, <1>3, <1>4 DEF Core, LifeInv

\* Only evictions make a run irregular.
LEMMA RegularStep ==
  ASSUME Types, [Next]_vars, Regular'
  PROVE  Regular
<1>1. UNCHANGED process /\ evictions' \in {evictions, evictions + 1}
  <2>1. CASE Sync \/ UNCHANGED vars
    BY <2>1 DEF Sync, SyncGroup, managerIdle, vars, brokerVars, coordVars
  <2>2. ASSUME NEW i \in Instances, Evict(i) \/ Unsubscribe(i)
        PROVE  UNCHANGED process /\ evictions' \in {evictions, evictions + 1}
    BY <2>2 DEF Evict, EvictMember, Unsubscribe, managerIdle, brokerVars, coordVars
  <2>3. ASSUME NEW p \in Instances, NEW s \in {"new", "dead"}, Gone(p, s)
        PROVE  UNCHANGED process /\ evictions' \in {evictions, evictions + 1}
    BY <2>3, GoneEffect
  <2>4. ASSUME NEW i \in Instances, PollLoop(i)
        PROVE  UNCHANGED process /\ evictions' \in {evictions, evictions + 1}
    BY <2>4 DEF PollLoop, Subscribe, AssignedPartitions, Assign, Send, RevokedPartitions, RejoinIdle,
                StopSeen, Revoked, Message, Join, Leave, Rejoin, managerIdle, brokerVars, coordVars
  <2>5. ASSUME NEW i \in Instances, NEW t \in Tasks, Consume(i, t) \/ Process(i, t) \/ ClaimEnds(i, t)
        PROVE  UNCHANGED process /\ evictions' \in {evictions, evictions + 1}
    BY <2>5 DEF Consume, Process, ClaimEnds, managerIdle, brokerVars, coordVars
  <2>6. ASSUME NEW i \in Instances, NEW t \in Tasks, TaskStep(i, t)
        PROVE  UNCHANGED process /\ evictions' \in {evictions, evictions + 1}
    BY <2>6 DEF TaskStep, RemoveLoad, AddLoad, StopStored, RemoveDelete, AddWait, AddRestored, InitTask,
                SendOffsets, CommitTransaction, RestartFenced, GiveUp, TaskStops, brokerVars, coordVars
  <2>7. ASSUME NEW i \in Instances PROVE process[i] \in Instances
    BY Names DEF Types, ManagerTypes, Instances
  <2> QED
    <3> DEFINE Small == UNCHANGED process /\ evictions' \in {evictions, evictions + 1}
    <3> HIDE DEF Small
    <3>1. ASSUME NEW i \in Instances, Crash(i) PROVE Small
      BY <2>3, <3>1 DEF Crash, Small
    <3>2. ASSUME NEW i \in Instances, NEW t \in Tasks, InitPanics(i, t) PROVE Small
      BY <2>3, <2>7, <3>2 DEF InitPanics, Small
    <3>3. ASSUME NEW i \in Instances, NEW t \in Tasks, Claims(i, t) \/ Manager(i, t) PROVE Small
      BY <2>5, <2>6, <3>2, <3>3 DEF Claims, Manager, Small
    <3>4. ASSUME NEW i \in Instances, Instance(i) PROVE Small
      BY <2>4, <3>3, <3>4 DEF Instance, Small
    <3>5. ASSUME NEW i \in Instances, Unsubscribe(i) \/ Evict(i) PROVE Small
      BY <2>2, <3>5 DEF Small
    <3>6. Sync \/ UNCHANGED vars => Small
      BY <2>1 DEF Small
    <3>7. Small
      BY <3>1, <3>4, <3>5, <3>6 DEF Next
    <3> QED
      BY <3>7 DEF Small
<1> QED
  BY <1>1, RegularBack DEF Types

\* No task that was added is missing when the callback starts it.
LEMMA NoPanic ==
  ASSUME Core, NEW i \in Instances, NEW t \in Tasks
  PROVE  ~InitPanics(i, t)
<1>1. work[i][t] = "init" => Stored(i, t) = i /\ i # 0
  BY WorkLife, Names DEF Core, Restored
<1> QED
  BY <1>1 DEF InitPanics

\* Every step keeps the invariant.
LEMMA NextIInv == IInv /\ [Next]_vars => IInv'
<1> SUFFICES ASSUME Types, Regular => Core, [Next]_vars, Regular' PROVE Core'
  BY NextTypes DEF IInv
<1>1. Types' /\ Regular /\ Core
  BY NextTypes, RegularStep
<1>2. CASE Sync \/ UNCHANGED vars
  <2>1. 1 \in Instances
    BY Names DEF Instances
  <2> QED
    BY <1>1, <1>2, <2>1, CoordinatorCore
<1>3. ASSUME NEW i \in Instances, Unsubscribe(i) \/ Evict(i) PROVE Core'
  BY <1>1, <1>3, CoordinatorCore
<1>4. ASSUME NEW i \in Instances, Crash(i) PROVE Core'
  BY <1>1, <1>4, GoneCore DEF Crash
<1>5. ASSUME NEW i \in Instances, PollLoop(i) PROVE Core'
  BY <1>1, <1>5, PollLoopCore
<1>6. ASSUME NEW i \in Instances, NEW t \in Tasks, Claims(i, t) \/ Manager(i, t) PROVE Core'
  BY <1>1, <1>6, ConsumeCore, ProcessCore, TaskStepCore, NoPanic DEF Claims, Manager
<1> QED
  BY <1>2, <1>3, <1>4, <1>5, <1>6 DEF Next, Instance

\* What is reachable: the membership and, while no member of a process that
\* runs several was evicted, whose task is whose, who may commit it, and how
\* its records and its output continue each other.
THEOREM GroupInvariant == Spec => []IInv
<1>1. Init => IInv
  BY InitTypes, InitCore DEF IInv
<1> QED
  BY <1>1, NextIInv, PTL DEF Spec

\* Where the exception of the properties does not apply, the invariant does.
LEMMA UnlessShared ==
  ASSUME IInv, NEW i \in Instances, ~(Evicted /\ Shared(i))
  PROVE  Regular /\ Core
<1>1. process \in {[k \in Instances |-> 1], [k \in Instances |-> k]} /\ evictions \in Nat
  BY DEF IInv, Types, ManagerTypes, CoordTypes
<1>2. CASE evictions = 0
  BY <1>2 DEF IInv, Regular
<1>3. CASE evictions # 0
  <2>1. \A j \in Instances : j # i => process[j] # process[i]
    BY <1>1, <1>3 DEF Evicted, Shared
  <2>2. Regular
    BY <1>1, <2>1 DEF Regular
  <2> QED
    BY <2>2 DEF IInv
<1> QED
  BY <1>2, <1>3

\* Whatever crashes, stops or is evicted, a task is fenced by the Init of its
\* new owner (OnPartitionAssigned) before that one fetches the committed offset
\* (assign), so the output of every record is committed once and in order.
THEOREM GroupExactlyOnce == Spec => []ExactlyOnceOutput
<1>1. IInv => ExactlyOnceOutput
  <2> SUFFICES ASSUME IInv, NEW t \in Tasks, ~ \E i \in Instances : Evicted /\ Shared(i)
               PROVE  outputs[t] = [k \in 1 .. committed[t] |-> k]
    BY DEF ExactlyOnceOutput
  <2>1. 1 \in Instances
    BY Names DEF Instances
  <2> QED
    BY <2>1, UnlessShared DEF Core, OutputInv
<1> QED
  BY <1>1, GroupInvariant, PTL

\* The store that addTask restored and the commits since filled holds every
\* committed change of a task whose instance may commit for it.
THEOREM GroupStoreComplete == Spec => []OwnerStoreComplete
<1>1. IInv => OwnerStoreComplete
  <2> SUFFICES ASSUME IInv, NEW i \in Instances, NEW t \in held[i] \cap Tasks, Owner(i),
                      ~(Evicted /\ Shared(i)), task[i][t].st = "running"
               PROVE  1 .. committed[t] \subseteq task[i][t].store \/ <<i, t>> \in slipped
    BY DEF OwnerStoreComplete
  <2>1. t \in Tasks /\ Core /\ pc[i] = "poll" /\ i \in members
    BY UnlessShared DEF Owner, ValidMember
  <2>2. held[i] = current[i]
    BY DEF IInv, Types, MemberInv, MemberOk
  <2>3. Owns(i, t)
    BY <2>1, <2>2 DEF Owns, Has, Engaged
  <2> QED
    BY <2>1, <2>3 DEF Core, StoreInv
<1> QED
  BY <1>1, GroupInvariant, PTL

\* The claims of a member feed its own task (Consume finds it in the map), which
\* runs: no record of an assigned partition is taken by the task of another
\* instance, or by one that stops.
THEOREM GroupClaims == Spec => []ClaimsHaveTheirTask
<1>1. IInv => ClaimsHaveTheirTask
  <2> SUFFICES ASSUME IInv, NEW i \in Instances, NEW t \in held[i], Owner(i), ~(Evicted /\ Shared(i))
               PROVE  /\ claim[i][t] \in {0, i}
                      /\ Stored(i, t) = i /\ task[i][t].st = "running" /\ ~task[i][t].closing
    BY DEF ClaimsHaveTheirTask
  <2>1. Types /\ Core /\ pc[i] = "poll"
    BY UnlessShared DEF Owner, IInv
  <2>2. t \in Tasks
    BY <2>1 DEF Types, ConsumerTypes
  <2>3. Claimed(i, t)
    BY <2>1, <2>2, Polling
  <2> QED
    BY <2>3 DEF Claimed, Kept
<1> QED
  BY <1>1, GroupInvariant, PTL
=============================================================================
