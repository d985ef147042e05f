---------------------------- MODULE TaskManager ----------------------------
(***************************************************************************)
(* The task manager (streams/tasks/task_manager.go) and the life of the    *)
(* tasks it holds (streams/tasks/ktask.go, whose processing loop is        *)
(* StreamTask and is here reduced to its transactions).                    *)
(*                                                                         *)
(* The group consumers of one process share one manager, and the manager   *)
(* one map from task ids to tasks; their rebalance callbacks call it       *)
(* concurrently.  task[i][t] is the task built by instance i, manager[p]   *)
(* says whose task process p has stored under id t (0 for none), work[i][t] *)
(* where the goroutine of instance i's callback for t is.                  *)
(***************************************************************************)
EXTENDS GroupBroker

VARIABLES
  process,  \* which instances run in one process
  memberGen,\* generation in the consumer's group metadata
  task, manager, work,
  victim,   \* the task that the goroutine waits for while it stops
  slipped   \* history: <<i, t>> if a commit of another instance fell between the
            \* restore of task[i][t] and its fence

managerVars == <<task, manager, work, victim>>

NoTask == [st |-> "none", epoch |-> 0, store |-> {}, batch |-> <<>>,
           sent |-> FALSE, closing |-> FALSE]

ManagerInit ==
  /\ process \in {[i \in Instances |-> 1], [i \in Instances |-> i]}
  /\ memberGen = [i \in Instances |-> 0]
  /\ task = [i \in Instances |-> [t \in Tasks |-> NoTask]]
  /\ manager = [p \in Instances |-> [t \in Tasks |-> 0]]
  /\ work = [i \in Instances |-> [t \in Tasks |-> "none"]]
  /\ victim = [i \in Instances |-> [t \in Tasks |-> 0]]
  /\ slipped = {}

Stored(i, t) == manager[process[i]][t]
Store(i, t, o) == manager' = [manager EXCEPT ![process[i]][t] = o]
WorkTo(i, t, w) == work' = [work EXCEPT ![i][t] = w]
Offsets(s) == {s[k] : k \in DOMAIN s}

\* both callbacks first stop the task that the map holds; the task finishes
\* its batch, and only a task whose loop was started can finish
StopStored(i, t, from, waits, next) ==
  /\ work[i][t] = from
  /\ IF Stored(i, t) = 0
     THEN WorkTo(i, t, next) /\ UNCHANGED <<task, victim>>
     ELSE /\ WorkTo(i, t, waits)
          /\ victim' = [victim EXCEPT ![i][t] = Stored(i, t)]
          /\ task' = [task EXCEPT ![Stored(i, t)][t].closing = TRUE]
  /\ UNCHANGED <<brokerVars, process, memberGen, manager, slipped>>

Stopped(i, t) == task[victim[i][t]][t].st \in {"none", "stopped"}

\* taskManager.RemoveTask: a missing task is ignored; the id is deleted,
\* whatever it names by then
RemoveLoad(i, t) == StopStored(i, t, "remove", "removing", "done")
RemoveDelete(i, t) ==
  /\ work[i][t] = "removing" /\ Stopped(i, t)
  /\ Store(i, t, 0) /\ WorkTo(i, t, "done")
  /\ victim' = [victim EXCEPT ![i][t] = 0]
  /\ UNCHANGED <<brokerVars, process, memberGen, task, slipped>>

\* taskManager.addTask: stop the task that exists, build a new one, restore
\* it from the changelog, store it
\* Mutant (of AddRestored): the store is stored under its id before the replay.
AddBeforeReplay(i, t) ==
  /\ work[i][t] = "restore"
  /\ task' = [task EXCEPT ![i][t] = [NoTask EXCEPT !.st = "restored"]]
  /\ Store(i, t, i) /\ WorkTo(i, t, "init")
  /\ UNCHANGED <<brokerVars, process, memberGen, victim, slipped>>
AddLoad(i, t) == StopStored(i, t, "add", "adding", "restore")
AddWait(i, t) ==
  /\ work[i][t] = "adding" /\ Stopped(i, t)
  /\ WorkTo(i, t, "restore")
  /\ victim' = [victim EXCEPT ![i][t] = 0]
  /\ UNCHANGED <<brokerVars, process, memberGen, task, manager, slipped>>
AddRestored(i, t) ==
  /\ work[i][t] = "restore"
  /\ task' = [task EXCEPT ![i][t] =
                [NoTask EXCEPT !.st = "restored", !.store = Offsets(outputs[t])]]
  /\ Store(i, t, i) /\ WorkTo(i, t, "init")
  /\ slipped' = slipped \ {<<i, t>>}
  /\ UNCHANGED <<brokerVars, process, memberGen, victim>>

\* Mutant: the transactional id of a task is another one on every instance.
InitTaskOwnId(i, t) ==
  LET o == Stored(i, t) IN
  /\ work[i][t] = "init" /\ o # 0
  /\ task' = [task EXCEPT ![o][t].st = "running", ![o][t].epoch = epoch[t]]
  /\ WorkTo(i, t, "done")
  /\ UNCHANGED <<brokerVars, process, memberGen, manager, victim, slipped>>

\* task.Init of the task found under the id: the transactional id of the task
\* is the same on every instance, so older producers are fenced
InitTask(i, t) ==
  LET o == Stored(i, t) IN
  /\ work[i][t] = "init" /\ o # 0
  /\ \A u \in Tasks : work[i][u] \in {"none", "init", "done"}
  /\ IF task[o][t].st = "stopped"
     THEN UNCHANGED <<epoch, task>>
     ELSE /\ epoch' = [epoch EXCEPT ![t] = @ + 1]
          /\ task' = [task EXCEPT ![o][t].st = "running", ![o][t].epoch = epoch[t] + 1]
  /\ WorkTo(i, t, "done")
  /\ UNCHANGED <<coordVars, outputs, committed, process, memberGen, manager, victim, slipped>>

\* commitBuffer.commit: the offsets are sent with the group metadata of the
\* consumer, then the transaction is committed
SendOffsets(i, t) ==
  /\ task[i][t].batch # <<>> /\ ~task[i][t].sent
  /\ task[i][t].epoch = epoch[t] /\ ValidMember(i, memberGen[i])
  /\ task' = [task EXCEPT ![i][t].sent = TRUE]
  /\ UNCHANGED <<brokerVars, process, memberGen, manager, work, victim, slipped>>

CommitTransaction(i, t) ==
  LET b == task[i][t].batch IN
  /\ task[i][t].sent /\ task[i][t].epoch = epoch[t]
  /\ outputs' = [outputs EXCEPT ![t] = @ \o b]
  /\ committed' = [committed EXCEPT ![t] = b[Len(b)]]
  /\ task' = [task EXCEPT ![i][t].batch = <<>>, ![i][t].sent = FALSE,
                          ![i][t].store = @ \cup Offsets(b)]
  /\ slipped' = slipped \cup {<<j, t>> : j \in {k \in Instances : task[k][t].st = "restored"}}
  /\ UNCHANGED <<coordVars, epoch, process, memberGen, manager, work, victim>>

\* commitBuffer.Reset, handleTxError: a fenced producer is restarted, which
\* fences whoever fenced it, and the batch is processed again
RestartFenced(i, t) ==
  LET k == task[i][t] IN
  /\ k.st = "running" /\ ~k.closing /\ k.batch # <<>>
  /\ k.epoch # epoch[t] /\ epoch[t] < MaxEpoch
  /\ epoch' = [epoch EXCEPT ![t] = @ + 1]
  /\ task' = [task EXCEPT ![i][t].epoch = epoch[t] + 1, ![i][t].sent = FALSE]
  /\ UNCHANGED <<coordVars, outputs, committed, process, memberGen, manager,
                 work, victim, slipped>>

\* Mutant: a task that closes keeps the batch it cannot commit.
KeepBatch(i, t) ==
  /\ task[i][t].closing /\ task[i][t].batch # <<>> /\ task[i][t].sent
  /\ task[i][t].epoch # epoch[t]
  /\ task' = [task EXCEPT ![i][t].sent = FALSE]
  /\ UNCHANGED <<brokerVars, process, memberGen, manager, work, victim, slipped>>
\* a batch that cannot be committed when the task closes is given up
GiveUp(i, t) ==
  LET k == task[i][t] IN
  /\ k.closing /\ k.batch # <<>>
  /\ k.epoch # epoch[t] \/ (~k.sent /\ ~ValidMember(i, memberGen[i]))
  /\ task' = [task EXCEPT ![i][t].batch = <<>>, ![i][t].sent = FALSE]
  /\ UNCHANGED <<brokerVars, process, memberGen, manager, work, victim, slipped>>

\* task.shutdown ends, after the loop that Init started
TaskStops(i, t) ==
  /\ task[i][t].st = "running" /\ task[i][t].closing /\ task[i][t].batch = <<>>
  /\ task' = [task EXCEPT ![i][t] = [NoTask EXCEPT !.st = "stopped", !.closing = TRUE]]
  /\ UNCHANGED <<brokerVars, process, memberGen, manager, work, victim, slipped>>

TaskStep(i, t) ==
  \/ RemoveLoad(i, t) \/ RemoveDelete(i, t)
  \/ AddLoad(i, t) \/ AddWait(i, t) \/ AddRestored(i, t) \/ InitTask(i, t)
  \/ SendOffsets(i, t) \/ CommitTransaction(i, t) \/ RestartFenced(i, t)
  \/ GiveUp(i, t) \/ TaskStops(i, t)
=============================================================================
