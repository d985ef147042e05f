------------------------------- MODULE Runner -------------------------------
(***************************************************************************)
(* The stream runner (streams/runner.go) with the two consumers it starts  *)
(* and stops: the global table consumer (streams/global_table_consumer.go  *)
(* over streams/tasks/global_task.go), whose RunGroup is the one extended  *)
(* here, and the stream consumer (streams/stream_consumer.go).             *)
(*                                                                         *)
(* Goroutines: the caller of runner.Run (rpc), the two that run the        *)
(* consumers (gpc, spc), one per global table and one per group-consumer   *)
(* instance, and whoever is inside runner.shutdown (sd).  The fields they  *)
(* share are read and written without a lock.                              *)
(***************************************************************************)
EXTENDS RunGroup

CONSTANTS
  NumConsumers,  \* consumerCount
  RunnerFaults   \* which failures may happen

FaultKinds == {"setup", "init", "table", "fetch", "build", "session", "subscribe"}

ASSUME RunnerAssumption == NumConsumers \in Nat \ {0} /\ RunnerFaults \subseteq FaultKinds

Instances == 1 .. NumConsumers

VARIABLES
  parts,        \* the kinds of sub-topologies that the topology has
  rpc,          \* runner.Run; "ok" and "error" when it returned
  consumers,    \* the fields of r.consumers that are set
  storesReady,  \* globalStateStoresReady is closed
  gpc,          \* the goroutine of globalConsumer.Run
  table,        \* per global table: state of its task
  restored,     \* the tables whose changelog was read to its end
  spc,          \* the goroutine of streamConsumer.Run
  instance,     \* per group-consumer instance: "none", "up", "down"
  unsub,        \* instances told to unsubscribe
  running,      \* streamConsumer.running is closed
  stop,         \* streamConsumer.stop: "nil", "open", "closed"
  done,         \* streamConsumer.done: "nil", "open", "closed"
  sd,           \* runner.shutdown, inside shutDownOnce
  user          \* the caller of runner.Stop

tableVars == <<table, restored>>
streamVars == <<spc, instance, unsub, running, stop, done>>
stopVars == <<sd, user>>
runnerVars == <<parts, rpc, consumers, storesReady, gpc, tableVars, streamVars, stopVars>>
vars == <<groupVars, runnerVars>>

TypeOK ==
  /\ GroupTypeOK
  /\ parts \subseteq {"global", "stream"}
  /\ rpc \in {"start", "init", "ready", "stream", "register", "wait", "ok", "error", "dead"}
  /\ consumers \subseteq {"global", "stream"}
  /\ storesReady \in BOOLEAN
  /\ gpc \in {"none", "run", "shutdown", "done"}
  /\ table \in [Fns -> {"restoring", "restored", "failed", "stopped"}]
  /\ restored \subseteq Fns
  /\ spc \in {"none", "fetch", "spawn", "join", "makeStop", "makeDone", "block", "shutdown", "done"}
  /\ instance \in [Instances -> {"none", "up", "down"}]
  /\ unsub \subseteq Instances
  /\ running \in BOOLEAN
  /\ stop \in {"nil", "open", "closed"}
  /\ done \in {"nil", "open", "closed"}
  /\ sd \in {"free", "stream", "awaitRunning", "stop", "readDone", "awaitDone",
             "global", "awaitGlobal", "done"}
  /\ user \in {"no", "called", "returned"}

Init ==
  /\ GroupInit
  /\ parts \in SUBSET {"global", "stream"}
  /\ rpc = "start"
  /\ consumers = {}
  /\ storesReady = FALSE
  /\ gpc = "none"
  /\ table = [f \in Fns |-> "restoring"]
  /\ restored = {}
  /\ spc = "none"
  /\ instance = [i \in Instances |-> "none"]
  /\ unsub = {}
  /\ running = FALSE
  /\ stop = "nil"
  /\ done = "nil"
  /\ sd = "free"
  /\ user = "no"

-----------------------------------------------------------------------------
(* runner.Run.                                                             *)

\* An error return: nothing that was started is stopped or waited for.
RunFails ==
  /\ rpc' = "error"
  /\ UNCHANGED <<groupVars, parts, consumers, storesReady, gpc, tableVars, streamVars, stopVars>>

\* Building the partition consumer or the task manager fails.
SetupFails ==
  /\ "setup" \in RunnerFaults
  /\ \/ rpc = "start" /\ "global" \in parts
     \/ rpc = "stream" /\ "stream" \in parts
     \/ rpc = "register"
  /\ RunFails

\* The global consumer is visible to shutdown before it is initialised.
StartGlobal ==
  /\ rpc = "start"
  /\ "global" \in parts
  /\ rpc' = "init"
  /\ consumers' = consumers \cup {"global"}
  /\ UNCHANGED <<groupVars, parts, storesReady, gpc, tableVars, streamVars, stopVars>>

\* GlobalTableConsumer.Init adds one function per partition of a table ...
InitAdd(f) ==
  /\ rpc = "init"
  /\ Add(f)
  /\ UNCHANGED runnerVars

\* ... or fails on the way.
InitFails ==
  /\ "init" \in RunnerFaults
  /\ rpc = "init"
  /\ RunFails

\* The consumer is run on a goroutine of its own; Run waits for Ready.
AwaitReady ==
  /\ rpc = "init"
  /\ fns = Fns
  /\ ReadyCall
  /\ rpc' = "ready"
  /\ gpc' = "run"
  /\ UNCHANGED <<parts, consumers, storesReady, tableVars, streamVars, stopVars>>

\* Mutant of GlobalReady: the stores are announced without waiting for Ready.
GlobalReadyEarly ==
  /\ rpc = "ready"
  /\ storesReady' = TRUE
  /\ rpc' = IF rd = "err" THEN "error" ELSE "stream"
  /\ UNCHANGED <<groupVars, parts, consumers, gpc, tableVars, streamVars, stopVars>>

\* Ready returned: the indexes are rebuilt and the stores are announced whatever
\* it said; only an error other than ErrInterrupted ends Run.
GlobalReady ==
  /\ rpc = "ready"
  /\ rd \in {"nil", "interrupted", "err"}
  /\ storesReady' = TRUE
  /\ rpc' = IF rd = "err" THEN "error" ELSE "stream"
  /\ UNCHANGED <<groupVars, parts, consumers, gpc, tableVars, streamVars, stopVars>>

SkipGlobal ==
  /\ rpc = "start"
  /\ "global" \notin parts
  /\ rpc' = "stream"
  /\ UNCHANGED <<groupVars, parts, consumers, storesReady, gpc, tableVars, streamVars, stopVars>>

StartStream ==
  /\ rpc = "stream"
  /\ "stream" \in parts
  /\ rpc' = "register"
  /\ consumers' = consumers \cup {"stream"}
  /\ UNCHANGED <<groupVars, parts, storesReady, gpc, tableVars, streamVars, stopVars>>

\* The stores are registered and the stream consumer is run.
RunStream ==
  /\ rpc = "register"
  /\ rpc' = "wait"
  /\ spc' = "fetch"
  /\ UNCHANGED <<groupVars, parts, consumers, storesReady, gpc, tableVars,
                 instance, unsub, running, stop, done, stopVars>>

SkipStream ==
  /\ rpc = "stream"
  /\ "stream" \notin parts
  /\ rpc' = "wait"
  /\ UNCHANGED <<groupVars, parts, consumers, storesReady, gpc, tableVars, streamVars, stopVars>>

\* wg.Wait.
RunEnds ==
  /\ rpc = "wait"
  /\ gpc \in {"none", "done"}
  /\ spc \in {"none", "done"}
  /\ rpc' = "ok"
  /\ UNCHANGED <<groupVars, parts, consumers, storesReady, gpc, tableVars, streamVars, stopVars>>

-----------------------------------------------------------------------------
(* The global consumer's goroutine and its tables.                         *)

GlobalRun ==
  /\ gpc = "run"
  /\ Run
  /\ UNCHANGED runnerVars

GlobalRunReturns ==
  /\ gpc = "run"
  /\ runState = "stopped"
  /\ gpc' = IF err = NoErr THEN "done" ELSE "shutdown"
  /\ UNCHANGED <<groupVars, parts, rpc, consumers, storesReady, tableVars, streamVars, stopVars>>

\* The changelog of a table is read to its end ...
TableRestored(f) ==
  /\ fpc[f] = "body"
  /\ table[f] = "restoring"
  /\ table' = [table EXCEPT ![f] = "restored"]
  /\ restored' = restored \cup {f}
  /\ UNCHANGED <<groupVars, parts, rpc, consumers, storesReady, gpc, streamVars, stopVars>>

\* ... or cannot be read.
TableFails(f) ==
  /\ "table" \in RunnerFaults
  /\ fpc[f] = "body"
  /\ table[f] = "restoring"
  /\ table' = [table EXCEPT ![f] = "failed"]
  /\ UNCHANGED <<groupVars, parts, rpc, consumers, storesReady, gpc, restored, streamVars, stopVars>>

\* The goroutine that waits for Stopping stops the task.
TableStops(f) ==
  /\ fpc[f] = "body"
  /\ stopping
  /\ table[f] \in {"restoring", "restored"}
  /\ table' = [table EXCEPT ![f] = "stopped"]
  /\ UNCHANGED <<groupVars, parts, rpc, consumers, storesReady, gpc, restored, streamVars, stopVars>>

\* The goroutine that waits for task.Ready marks the function as ready, also
\* when the task failed or was interrupted.
TableReady(f) ==
  /\ table[f] # "restoring"
  /\ SignalReady(f)
  /\ UNCHANGED runnerVars

\* globalTask.Sync returns.
TableReturns(f) ==
  /\ \/ table[f] = "failed" /\ BodyReturns(f, "err")
     \/ table[f] = "stopped" /\ BodyReturns(f, "nil")
  /\ UNCHANGED runnerVars

-----------------------------------------------------------------------------
(* streamConsumer.Run and its instances.                                   *)

StreamFetch ==
  /\ spc = "fetch"
  /\ \/ spc' = "spawn"
     \/ "fetch" \in RunnerFaults /\ spc' = "shutdown"
  /\ UNCHANGED <<groupVars, parts, rpc, consumers, storesReady, gpc, tableVars,
                 instance, unsub, running, stop, done, stopVars>>

\* The loop over the instances: each is appended to r.consumers and subscribes
\* on a goroutine of its own.
StreamSpawn(i) ==
  /\ spc = "spawn"
  /\ instance[i] = "none"
  /\ \A j \in 1 .. i - 1 : instance[j] # "none"
  /\ instance' = [instance EXCEPT ![i] = "up"]
  /\ spc' = IF i = NumConsumers THEN "join" ELSE "spawn"
  /\ UNCHANGED <<groupVars, parts, rpc, consumers, storesReady, gpc, tableVars,
                 unsub, running, stop, done, stopVars>>

\* A group consumer cannot be built: those already built go on.
StreamBuildFails ==
  /\ "build" \in RunnerFaults
  /\ spc = "spawn"
  /\ spc' = "shutdown"
  /\ UNCHANGED <<groupVars, parts, rpc, consumers, storesReady, gpc, tableVars,
                 instance, unsub, running, stop, done, stopVars>>

\* Subscribe returns when the instance was told to, or shut itself down.
InstanceStops(i) ==
  /\ instance[i] = "up"
  /\ i \in unsub \/ "session" \in RunnerFaults
  /\ instance' = [instance EXCEPT ![i] = "down"]
  /\ UNCHANGED <<groupVars, parts, rpc, consumers, storesReady, gpc, tableVars,
                 spc, unsub, running, stop, done, stopVars>>

\* Subscribe fails: the goroutine panics and the process is gone.
InstancePanics(i) ==
  /\ "subscribe" \in RunnerFaults
  /\ instance[i] = "up"
  /\ rpc' = "dead"
  /\ UNCHANGED <<groupVars, parts, consumers, storesReady, gpc, tableVars, streamVars, stopVars>>

\* Mutant of StreamJoin: the last instance is not waited for.
StreamJoinEarly ==
  /\ spc = "join"
  /\ \A i \in Instances : i < NumConsumers => instance[i] = "down"
  /\ running' = TRUE
  /\ spc' = "makeStop"
  /\ UNCHANGED <<groupVars, parts, rpc, consumers, storesReady, gpc, tableVars,
                 instance, unsub, stop, done, stopVars>>

\* wg.Wait: Subscribe blocks as long as the instance consumes, so running is
\* closed when all of them are over.
StreamJoin ==
  /\ spc = "join"
  /\ \A i \in Instances : instance[i] = "down"
  /\ running' = TRUE
  /\ spc' = "makeStop"
  /\ UNCHANGED <<groupVars, parts, rpc, consumers, storesReady, gpc, tableVars,
                 instance, unsub, stop, done, stopVars>>

MakeStop ==
  /\ spc = "makeStop"
  /\ stop' = "open"
  /\ spc' = "makeDone"
  /\ UNCHANGED <<groupVars, parts, rpc, consumers, storesReady, gpc, tableVars,
                 instance, unsub, running, done, stopVars>>

MakeDone ==
  /\ spc = "makeDone"
  /\ done' = "open"
  /\ spc' = "block"
  /\ UNCHANGED <<groupVars, parts, rpc, consumers, storesReady, gpc, tableVars,
                 instance, unsub, running, stop, stopVars>>

StreamReturns ==
  /\ spc = "block"
  /\ stop = "closed"
  /\ done' = "closed"
  /\ spc' = "done"
  /\ UNCHANGED <<groupVars, parts, rpc, consumers, storesReady, gpc, tableVars,
                 instance, unsub, running, stop, stopVars>>

-----------------------------------------------------------------------------
(* runner.Stop and runner.shutdown.                                        *)

UserStop ==
  /\ user = "no"
  /\ user' = "called"
  /\ UNCHANGED <<groupVars, parts, rpc, consumers, storesReady, gpc, tableVars, streamVars, sd>>

\* shutDownOnce: the first of Stop and the two consumers' goroutines gets in.
ShutdownEnter ==
  /\ sd = "free"
  /\ user = "called" \/ gpc = "shutdown" \/ spc = "shutdown"
  /\ sd' = "stream"
  /\ UNCHANGED <<groupVars, parts, rpc, consumers, storesReady, gpc, tableVars, streamVars, user>>

\* streamConsumer.Stop, if there is one by now, unsubscribes the instances it
\* finds.
StopStream ==
  /\ sd = "stream"
  /\ IF "stream" \in consumers
       THEN /\ sd' = "awaitRunning"
            /\ unsub' = unsub \cup {i \in Instances : instance[i] # "none"}
       ELSE /\ sd' = "global"
            /\ UNCHANGED unsub
  /\ UNCHANGED <<groupVars, parts, rpc, consumers, storesReady, gpc, tableVars,
                 spc, instance, running, stop, done, user>>

\* Mutant of StopAwaitRunning: Stop does not wait for the subscriptions.
StopSkipsRunning ==
  /\ sd = "awaitRunning"
  /\ sd' = "stop"
  /\ UNCHANGED <<groupVars, parts, rpc, consumers, storesReady, gpc, tableVars, streamVars, user>>

StopAwaitRunning ==
  /\ sd = "awaitRunning"
  /\ running
  /\ sd' = "stop"
  /\ UNCHANGED <<groupVars, parts, rpc, consumers, storesReady, gpc, tableVars, streamVars, user>>

\* The channel is closed only if Run has made it.
StopSignal ==
  /\ sd = "stop"
  /\ sd' = "readDone"
  /\ stop' = IF stop = "nil" THEN "nil" ELSE "closed"
  /\ UNCHANGED <<groupVars, parts, rpc, consumers, storesReady, gpc, tableVars,
                 spc, instance, unsub, running, done, user>>

StopReadDone ==
  /\ sd = "readDone"
  /\ sd' = IF done = "nil" THEN "global" ELSE "awaitDone"
  /\ UNCHANGED <<groupVars, parts, rpc, consumers, storesReady, gpc, tableVars, streamVars, user>>

StopAwaitDone ==
  /\ sd = "awaitDone"
  /\ done = "closed"
  /\ sd' = "global"
  /\ UNCHANGED <<groupVars, parts, rpc, consumers, storesReady, gpc, tableVars, streamVars, user>>

StopGlobal ==
  /\ sd = "global"
  /\ "global" \in consumers
  /\ StopCall
  /\ sd' = "awaitGlobal"
  /\ UNCHANGED <<parts, rpc, consumers, storesReady, gpc, tableVars, streamVars, user>>

ShutdownReturns ==
  /\ \/ sd = "global" /\ "global" \notin consumers
     \/ sd = "awaitGlobal" /\ st = "done"
  /\ sd' = "done"
  /\ UNCHANGED <<groupVars, parts, rpc, consumers, storesReady, gpc, tableVars, streamVars, user>>

\* The callers of shutdown go on.
UserReturns ==
  /\ user = "called"
  /\ sd = "done"
  /\ user' = "returned"
  /\ UNCHANGED <<groupVars, parts, rpc, consumers, storesReady, gpc, tableVars, streamVars, sd>>

GlobalDone ==
  /\ gpc = "shutdown"
  /\ sd = "done"
  /\ gpc' = "done"
  /\ UNCHANGED <<groupVars, parts, rpc, consumers, storesReady, tableVars, streamVars, stopVars>>

StreamDone ==
  /\ spc = "shutdown"
  /\ sd = "done"
  /\ spc' = "done"
  /\ UNCHANGED <<groupVars, parts, rpc, consumers, storesReady, gpc, tableVars,
                 instance, unsub, running, stop, done, stopVars>>

-----------------------------------------------------------------------------
GroupOnly == GroupStep /\ UNCHANGED runnerVars

RunnerStep ==
  \/ StartGlobal \/ AwaitReady \/ GlobalReady \/ SkipGlobal
  \/ StartStream \/ RunStream \/ SkipStream \/ RunEnds
  \/ \E f \in Fns : InitAdd(f)

GlobalStep ==
  \/ GlobalRun \/ GlobalRunReturns \/ GlobalDone
  \/ \E f \in Fns : TableRestored(f) \/ TableStops(f) \/ TableReady(f) \/ TableReturns(f)

StreamStep ==
  \/ StreamFetch \/ StreamJoin \/ MakeStop \/ MakeDone \/ StreamReturns \/ StreamDone
  \/ \E i \in Instances : StreamSpawn(i) \/ InstanceStops(i)

ShutdownStep ==
  \/ ShutdownEnter \/ StopStream \/ StopAwaitRunning \/ StopSignal \/ StopReadDone
  \/ StopAwaitDone \/ StopGlobal \/ ShutdownReturns \/ UserReturns

\* What happens to the program, or may never happen.
Environment ==
  \/ SetupFails \/ InitFails \/ StreamBuildFails \/ UserStop
  \/ \E f \in Fns : TableFails(f)
  \/ \E i \in Instances : InstancePanics(i)

Next ==
  /\ rpc # "dead"
  /\ GroupOnly \/ RunnerStep \/ GlobalStep \/ StreamStep \/ ShutdownStep \/ Environment

Spec == Init /\ [][Next]_vars

Alive(A) == rpc # "dead" /\ A

\* The goroutines of the group, of its tables and of the runner are scheduled, and
\* the changelog of a table is read to its end; failures and Stop may never come.
\* What is shown needs nothing of the stream consumer.
Fairness ==
  /\ WF_vars(Alive(RunnerStep))
  /\ WF_vars(Alive(ShutdownStep))
  /\ WF_vars(Alive(GlobalRun \/ GlobalRunReturns \/ GlobalDone))
  /\ WF_vars(Alive((RunReturns \/ ShutDownSet \/ ShutDownClose) /\ UNCHANGED runnerVars))
  /\ WF_vars(Alive((ReadErr \/ ReadShuttingDown \/ ReadyReturns) /\ UNCHANGED runnerVars))
  /\ WF_vars(Alive((StopNotified \/ StopReturns) /\ UNCHANGED runnerVars))
  /\ \A f \in Fns :
       /\ WF_vars(Alive(TableRestored(f) \/ TableReturns(f)))
       /\ WF_vars(Alive(TableStops(f)))
       /\ WF_vars(Alive(TableReady(f)))
       /\ WF_vars(Alive((NotifyErr(f) \/ Notified(f) \/ ReadyAnyway(f) \/ WgDone(f)) /\ UNCHANGED runnerVars))
       /\ WF_vars(Alive(ReadyWgDone(f) /\ UNCHANGED runnerVars))

FairSpec == Spec /\ Fairness

-----------------------------------------------------------------------------
(* Properties.                                                             *)

AllDown == \A i \in Instances : instance[i] # "up"

\* The stream consumer is not started, and the stores are not announced, while
\* a global table is still being restored (runner.go:118-153).
GlobalFirst ==
  storesReady \/ ("global" \in parts /\ "stream" \in consumers) =>
    \A f \in Fns : table[f] # "restoring"

\* When Run returns without an error, no function of the global consumer is left
\* running, and no instance of the stream consumer either, unless building one of
\* them failed after a shutdown that came too early (runner.go:169-171).
RunLeavesNothing ==
  rpc = "ok" =>
    /\ \A f \in fns : fpc[f] = "done"
    /\ AllDown \/ \E i \in Instances : instance[i] = "none"

\* A shutdown that found the stream consumer stops the global tables only when
\* no instance, whose tasks read them, is left (runner.go:191-202).
StreamStopsFirst == [](sd = "awaitRunning" => [](st # "no" => AllDown))

\* Once the global consumer runs, stopping it comes to an end, whatever its
\* tables are doing (run_group.go:137-142).
GlobalStopEnds ==
  (st = "notify" /\ gpc # "none") ~> (st = "done" \/ rpc = "dead")

\* One table's failure ends all of them, and Run of the group (run_group.go:95-113).
FailureEndsGlobal ==
  (err # NoErr) ~> (runState = "stopped" \/ rpc = "dead")

\* Stop closes the channel that Run waits on (stream_consumer.go:24).
StopSignalsRun ==
  [][sd = "stop" /\ sd' # sd => stop' = "closed"]_vars

\* A function of the global consumer is marked as ready when its table is
\* restored (global_table_consumer.go:72): the stream consumer starts on
\* restored tables unless somebody asked for a stop.
TablesRestored ==
  "global" \in parts /\ "stream" \in consumers /\ user = "no" => restored = Fns
=============================================================================
