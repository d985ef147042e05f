---------------------------- MODULE GroupBroker ----------------------------
(***************************************************************************)
(* External: what the brokers do for the consumer group and for the        *)
(* transactions of its tasks, as kafka/adaptors/librd uses them.           *)
(*                                                                         *)
(* A task reads one partition, whose records have the offsets              *)
(* 1 .. NumRecords, and writes one changelog; task, partition and changelog *)
(* share a number.  The group is rebalanced eagerly: nobody is given a     *)
(* partition before every member has revoked what it held.                 *)
(***************************************************************************)
EXTENDS Naturals, Sequences, FiniteSets

CONSTANTS
  NumInstances,  \* group consumers
  NumTasks,      \* tasks of the topology
  NumRecords,    \* records of a partition
  MaxGen,        \* bound: rebalances
  MaxEpoch       \* bound: a fenced producer starts again below this epoch

ASSUME GroupBrokerAssumption ==
  {NumInstances, NumTasks, NumRecords, MaxGen, MaxEpoch} \subseteq Nat \ {0}

Instances == 1 .. NumInstances
Tasks == 1 .. NumTasks

VARIABLES
  members,    \* members of the group
  rejoined,   \* members that wait for the next generation
  phase,      \* "stable" or "preparing" a rebalance
  gen,        \* generation of the group
  target,     \* the assignment of this generation
  evictions,  \* history: how many members were evicted
  epoch,      \* per transactional id: the newest producer
  outputs,    \* per task: the offsets of the records whose output and
              \* changelog entry are committed, in commit order
  committed   \* per partition: the group's committed offset

coordVars == <<members, rejoined, phase, gen, target, evictions>>
brokerVars == <<coordVars, epoch, outputs, committed>>

BrokerInit ==
  /\ members = {} /\ rejoined = {}
  /\ phase = "stable"
  /\ gen = 0 /\ evictions = 0
  /\ target = [i \in Instances |-> {}]
  /\ epoch = [t \in Tasks |-> 0]
  /\ outputs = [t \in Tasks |-> <<>>]
  /\ committed = [t \in Tasks |-> 0]

\* the members in their order share the partitions out
Share(m) ==
  [i \in Instances |->
     IF i \in m
     THEN {t \in Tasks : t % Cardinality(m) = Cardinality({j \in m : j < i})}
     ELSE {}]

\* the members are now m, of which some already wait
Rebalance(m, waiting) ==
  /\ members' = m
  /\ rejoined' = waiting
  /\ phase' = IF m = {} THEN "stable" ELSE "preparing"

Waiting == IF phase = "preparing" THEN rejoined ELSE {}

Join(i) ==
  /\ gen < MaxGen
  /\ Rebalance(members \cup {i}, Waiting \cup {i})
  /\ UNCHANGED <<gen, target, evictions>>

Leave(I) ==
  /\ IF I \cap members = {}
     THEN UNCHANGED <<members, rejoined, phase>>
     ELSE Rebalance(members \ I, Waiting \ I)
  /\ UNCHANGED <<gen, target, evictions>>

Rejoin(i) ==
  /\ rejoined' = IF i \in members THEN rejoined \cup {i} ELSE rejoined
  /\ UNCHANGED <<members, phase, gen, target, evictions>>

\* max.poll.interval or the session timeout passes
EvictMember(i) ==
  /\ i \in members /\ gen < MaxGen
  /\ evictions' = evictions + 1
  /\ Rebalance(members \ {i}, Waiting \ {i})
  /\ UNCHANGED <<gen, target>>

SyncGroup ==
  /\ phase = "preparing" /\ members \subseteq rejoined
  /\ phase' = "stable"
  /\ gen' = gen + 1
  /\ target' = Share(members)
  /\ rejoined' = {}
  /\ UNCHANGED <<members, evictions>>

\* the coordinator accepts offsets from a member of the current generation
ValidMember(i, g) == i \in members /\ g = gen
=============================================================================
