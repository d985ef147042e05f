------------------------------ MODULE GroupInv ------------------------------
(***************************************************************************)
(* The inductive invariant of GroupConsumer: who is a member, what each    *)
(* instance has of a task, who may still commit for it, and what is on its *)
(* way from the broker into it.                                            *)
(***************************************************************************)
EXTENDS GroupConsumer

\* Where a goroutine of a callback can be, and what a task can be.
Places == {"none", "remove", "removing", "add", "adding", "restore", "init", "done"}
TaskType ==
  [st : {"none", "restored", "running", "stopped"}, epoch : Nat, store : SUBSET Nat,
   batch : Seq(Nat), sent : BOOLEAN, closing : BOOLEAN]

CoordTypes ==
  /\ members \subseteq Instances /\ rejoined \subseteq Instances
  /\ phase \in {"stable", "preparing"}
  /\ gen \in Nat /\ evictions \in Nat
  /\ target \in [Instances -> SUBSET Tasks]
BrokerTypes ==
  /\ epoch \in [Tasks -> Nat]
  /\ outputs \in [Tasks -> Seq(Nat)]
  /\ committed \in [Tasks -> Nat]
ManagerTypes ==
  /\ process \in {[i \in Instances |-> 1], [i \in Instances |-> i]}
  /\ memberGen \in [Instances -> Nat]
  /\ task \in [Instances -> [Tasks -> TaskType]]
  /\ manager \in [Instances -> [Tasks -> Instances \cup {0}]]
  /\ work \in [Instances -> [Tasks -> Places]]
  /\ victim \in [Instances -> [Tasks -> Instances \cup {0}]]
  /\ slipped \subseteq Instances \X Tasks
ConsumerTypes ==
  /\ pc \in [Instances -> Up \cup {"new", "stopped", "dead"}]
  /\ stopping \in [Instances -> {"no", "sent", "seen"}]
  /\ current \in [Instances -> SUBSET Tasks] /\ held \in [Instances -> SUBSET Tasks]
  /\ pos \in [Instances -> [Tasks -> Nat]]
  /\ chan \in [Instances -> [Tasks -> Seq(Nat \ {0}) \cup {NoChan}]]
  /\ claim \in [Instances -> [Tasks -> Instances \cup {0, NoClaim}]]
  /\ sending \in [Instances -> Tasks \cup {0}]

\* Only a task that runs has a batch, and only a batch is sent.
BatchInv ==
  \A i \in Instances, t \in Tasks :
    /\ task[i][t].sent => task[i][t].batch # <<>>
    /\ task[i][t].batch # <<>> => task[i][t].st = "running"

\* Every Init and restart makes a newer producer.
EpochInv ==
  /\ \A i \in Instances, t \in Tasks :
       /\ task[i][t].epoch <= epoch[t]
       /\ task[i][t].st = "running" => task[i][t].epoch # 0
  /\ \A i, j \in Instances, t \in Tasks :
       task[i][t].epoch = task[j][t].epoch /\ task[i][t].epoch # 0 => i = j

-----------------------------------------------------------------------------
\* The instance has an assignment: its callback adds the tasks, or is done.
Engaged(i) == pc[i] = "assign" \/ held[i] # {}
Has(i, t) == Engaged(i) /\ t \in current[i]

\* Who is engaged was assigned in this generation and has not rejoined, unless
\* it was evicted.
MemberOk(i) ==
  /\ memberGen[i] <= gen
  /\ i \in members => pc[i] \in Up
  /\ held[i] # {} => held[i] = current[i] /\ pc[i] \in {"poll", "send", "revoke", "close"}
  /\ pc[i] \in {"send", "revoke"} => held[i] # {}
  /\ pc[i] = "revoke" /\ i \in members => phase = "preparing"
  /\ pc[i] = "send" => /\ sending[i] \in held[i] /\ pos[i][sending[i]] # 0
                       /\ chan[i][sending[i]] # NoChan
  /\ Engaged(i) /\ i \in members =>
       i \notin rejoined /\ memberGen[i] = gen /\ current[i] = target[i]
  /\ Engaged(i) /\ evictions = 0 => i \in members
MemberInv ==
  /\ rejoined \subseteq members /\ (phase = "stable" => rejoined = {})
  /\ \A i \in Instances : MemberOk(i)
  /\ \A i, j \in Instances : i # j => target[i] \cap target[j] = {}

\* What the properties hold for: one instance per process, or no eviction.
Regular == evictions = 0 \/ \A i, j \in Instances : process[i] = process[j] => i = j

-----------------------------------------------------------------------------
\* The life of a task at an instance, from assignment to revocation.
NotKept(i, t) ==
  /\ task[i][t].st \in {"none", "stopped"} /\ Stored(i, t) # i
Unclaimed(i, t) == claim[i][t] = NoClaim /\ chan[i][t] = NoChan

Outside(i, t) ==
  ~Has(i, t) /\ work[i][t] \in {"none", "done"} /\ NotKept(i, t) /\ Unclaimed(i, t)
Added(i, t) ==
  /\ t \in current[i] /\ pc[i] = "assign" /\ work[i][t] \in {"add", "restore"}
  /\ NotKept(i, t) /\ Unclaimed(i, t)
Restored(i, t) ==
  /\ t \in current[i] /\ pc[i] = "assign" /\ work[i][t] = "init"
  /\ task[i][t].st = "restored" /\ ~task[i][t].closing /\ Stored(i, t) = i
  /\ Unclaimed(i, t)
Kept(i, t) == task[i][t].st = "running" /\ ~task[i][t].closing /\ Stored(i, t) = i
Started(i, t) ==
  /\ t \in current[i] /\ pc[i] = "assign" /\ work[i][t] = "done"
  /\ Kept(i, t) /\ Unclaimed(i, t) /\ task[i][t].batch = <<>>
Claimed(i, t) ==
  /\ t \in held[i]
  /\ \/ pc[i] \in {"poll", "send"} /\ work[i][t] = "done"
     \/ pc[i] \in {"revoke", "close"} /\ work[i][t] = "remove"
  /\ Kept(i, t) /\ claim[i][t] \in {0, i} /\ chan[i][t] # NoChan
Stopping(i, t) ==
  /\ t \in held[i] /\ pc[i] \in {"revoke", "close"} /\ work[i][t] = "removing"
  /\ task[i][t].st \in {"running", "stopped"} /\ task[i][t].closing
  /\ Stored(i, t) = i /\ victim[i][t] = i /\ claim[i][t] \in {0, i, NoClaim}
Removed(i, t) ==
  /\ t \in held[i] /\ pc[i] \in {"revoke", "close"} /\ work[i][t] = "done"
  /\ NotKept(i, t) /\ claim[i][t] \in {0, i, NoClaim}

LifeInv(i, t) ==
  \/ Outside(i, t) \/ Added(i, t) \/ Restored(i, t) \/ Started(i, t) \/ Claimed(i, t)
  \/ Stopping(i, t) \/ Removed(i, t)

\* The map names tasks of its own process, and tasks an instance has.
StoredInv ==
  \A p \in Instances, t \in Tasks :
    LET o == manager[p][t] IN o # 0 => process[o] = p /\ Has(o, t)

-----------------------------------------------------------------------------
\* The task may be the one that commits next; its instance is the owner.
MayCommit(i, t) == task[i][t].sent /\ task[i][t].epoch = epoch[t]
Owns(i, t) == Has(i, t) /\ i \in members /\ (pc[i] = "assign" => work[i][t] = "done")

\* Once the owner has fenced the others, nobody else can commit.
FenceInv(t) == \A i, j \in Instances : Owns(i, t) /\ MayCommit(j, t) => i = j

\* The sequence continues after n.
From(s, n) == \A k \in 1 .. Len(s) : s[k] = n + k
InSend(i, t) == IF pc[i] = "send" /\ sending[i] = t THEN 1 ELSE 0

\* What can be committed continues what is, and what comes next continues that.
FlowInv(i, t) ==
  /\ (Owns(i, t) \/ MayCommit(i, t)) => From(task[i][t].batch, committed[t])
  /\ (Claimed(i, t) /\ i \in members) =>
       LET n == committed[t] + Len(task[i][t].batch) IN
       /\ From(chan[i][t], n)
       /\ pos[i][t] = n + Len(chan[i][t]) + InSend(i, t)

\* The output so far, and the stores.
OutputInv(t) == outputs[t] = [k \in 1 .. committed[t] |-> k]
StoreInv(i, t) ==
  Restored(i, t) \/ (Owns(i, t) /\ task[i][t].st = "running")
  => 1 .. committed[t] \subseteq task[i][t].store \/ <<i, t>> \in slipped

Types ==
  /\ CoordTypes /\ BrokerTypes /\ ManagerTypes /\ ConsumerTypes
  /\ BatchInv /\ EpochInv /\ MemberInv
Core ==
  /\ StoredInv
  /\ \A t \in Tasks :
       /\ FenceInv(t) /\ OutputInv(t)
       /\ \A i \in Instances : LifeInv(i, t) /\ FlowInv(i, t) /\ StoreInv(i, t)

IInv == Types /\ (Regular => Core)
=============================================================================
