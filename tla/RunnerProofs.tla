---------------------------- MODULE RunnerProofs ----------------------------
(***************************************************************************)
(* Proofs about run groups and the runner.  First RunGroup, for any set of *)
(* functions: what Ready and Run say of the functions is true, although    *)
(* their fields are read unlocked.  Then Runner, for any number of tables  *)
(* and instances: it uses its RunGroup as RunGroup allows, so what is      *)
(* proved of every group holds of it; on top of that, the order in which   *)
(* the consumers start and what Run leaves behind.                         *)
(***************************************************************************)
EXTENDS Runner, TLAPS

-----------------------------------------------------------------------------
(* The inductive invariant.                                                *)

\* Only functions that were added run, and only once Run was called.
StartedInv ==
  \A f \in Fns :
    /\ fpc[f] # "none" => f \in fns /\ runState # "new"
    /\ fpc[f] = "none" => ready[f] = "no"

\* A function's error is recorded before it is made ready on its return.
ErrorInv ==
  /\ \A f \in Fns :
       /\ fpc[f] \in {"none", "body"} => ret[f] = "none"
       /\ fpc[f] \in {"notifyErr", "notify"} => ret[f] = "err"
       /\ ret[f] = "err" /\ fpc[f] # "notifyErr" => err # NoErr
  /\ err # NoErr => err \in fns /\ ret[err] = "err"

\* Who was made ready, and who was counted.
ReadyInv ==
  /\ \A f \in Fns :
       /\ ready[f] = "return" => fpc[f] \in {"wgDone", "done"}
       /\ fpc[f] \in {"wgDone", "done"} => ready[f] # "no"
       /\ f \in counted => ready[f] # "no"
  /\ rd \notin {"no", "wait"} => fns \subseteq counted
  /\ rd \in {"flag", "ret", "nil", "interrupted"} =>
       \A f \in fns : ready[f] = "return" => ret[f] # "err"

\* Run has waited for all functions, Stop for Run.
JoinInv ==
  /\ runState = "stopped" => \A f \in fns : fpc[f] = "done"
  /\ st = "done" => runState = "stopped"

GroupInv == GroupTypeOK /\ StartedInv /\ ErrorInv /\ ReadyInv /\ JoinInv

-----------------------------------------------------------------------------
\* The group starts in a state of the invariant.
LEMMA GroupInitInv == GroupInit => GroupInv
  BY GroupAssumption DEF GroupInit, GroupInv, GroupTypeOK, StartedInv, ErrorInv, ReadyInv, JoinInv

\* Types are kept by what the functions' goroutines and their helpers do.
LEMMA GroupType ==
  ASSUME GroupTypeOK, [GroupNext]_groupVars
  PROVE  GroupTypeOK'
<1> USE DEF GroupTypeOK
<1>1. CASE GroupStep
  <2>1. ASSUME NEW f \in fns, NotifyErr(f) \/ Notified(f) \/ ReadyAnyway(f) \/ WgDone(f) \/ ReadyWgDone(f)
        PROVE  GroupTypeOK'
    BY <2>1 DEF NotifyErr, Notified, ReadyAnyway, WgDone, ReadyWgDone
  <2> QED
    BY <1>1, <2>1 DEF GroupStep, RunReturns, ShutDownSet, ShutDownClose, ReadErr,
       ReadShuttingDown, ReadyReturns, StopNotified, StopReturns
<1>2. CASE GroupInput
  <2>1. ASSUME NEW f \in Fns, Add(f) \/ SignalReady(f)
        PROVE  GroupTypeOK'
    BY <2>1 DEF Add, SignalReady
  <2>2. ASSUME NEW f \in Fns, NEW e \in {"nil", "err"}, BodyReturns(f, e)
        PROVE  GroupTypeOK'
    BY <2>2 DEF BodyReturns
  <2> QED
    BY <1>2, <2>1, <2>2 DEF GroupInput, Run, ReadyCall, StopCall
<1> QED
  BY <1>1, <1>2 DEF GroupNext, groupVars

\* The steps of one function's goroutine, and of its helper, keep the invariant.
LEMMA FunctionStep ==
  ASSUME GroupInv, GroupTypeOK', NEW f \in fns,
         NotifyErr(f) \/ Notified(f) \/ ReadyAnyway(f) \/ WgDone(f) \/ ReadyWgDone(f)
  PROVE  GroupInv'
<1> USE GroupAssumption DEF GroupInv, GroupTypeOK
<1>1. CASE NotifyErr(f)
  BY <1>1 DEF NotifyErr, StartedInv, ErrorInv, ReadyInv, JoinInv
<1>2. CASE Notified(f)
  BY <1>2 DEF Notified, StartedInv, ErrorInv, ReadyInv, JoinInv
<1>3. CASE ReadyAnyway(f)
  BY <1>3 DEF ReadyAnyway, StartedInv, ErrorInv, ReadyInv, JoinInv
<1>4. CASE WgDone(f)
  BY <1>4 DEF WgDone, StartedInv, ErrorInv, ReadyInv, JoinInv
<1>5. CASE ReadyWgDone(f)
  BY <1>5 DEF ReadyWgDone, StartedInv, ErrorInv, ReadyInv, JoinInv
<1> QED
  BY <1>1, <1>2, <1>3, <1>4, <1>5

\* The steps of Run, notifyShutDown, Ready and Stop keep the invariant.
LEMMA CallerStep ==
  ASSUME GroupInv, GroupTypeOK',
         \/ RunReturns \/ ShutDownSet \/ ShutDownClose \/ ReadErr \/ ReadShuttingDown
         \/ ReadyReturns \/ StopNotified \/ StopReturns \/ Run \/ ReadyCall \/ StopCall
  PROVE  GroupInv'
<1> USE GroupAssumption DEF GroupInv, GroupTypeOK
<1>1. CASE RunReturns \/ Run
  BY <1>1 DEF RunReturns, Run, StartedInv, ErrorInv, ReadyInv, JoinInv
<1>2. CASE ShutDownSet \/ ShutDownClose
  BY <1>2 DEF ShutDownSet, ShutDownClose, StartedInv, ErrorInv, ReadyInv, JoinInv
<1>3. CASE ReadErr
  BY <1>3 DEF ReadErr, StartedInv, ErrorInv, ReadyInv, JoinInv
<1>4. CASE ReadShuttingDown \/ ReadyReturns \/ ReadyCall
  BY <1>4 DEF ReadShuttingDown, ReadyReturns, ReadyCall, StartedInv, ErrorInv, ReadyInv, JoinInv
<1>5. CASE StopNotified \/ StopReturns \/ StopCall
  BY <1>5 DEF StopNotified, StopReturns, StopCall, StartedInv, ErrorInv, ReadyInv, JoinInv
<1> QED
  BY <1>1, <1>2, <1>3, <1>4, <1>5

\* What a function's body and the builder of the group do keeps the invariant.
LEMMA BodyStep ==
  ASSUME GroupInv, GroupTypeOK', NEW f \in Fns, NEW e \in {"nil", "err"},
         Add(f) \/ SignalReady(f) \/ BodyReturns(f, e)
  PROVE  GroupInv'
<1> USE GroupAssumption DEF GroupInv, GroupTypeOK
<1>1. CASE Add(f)
  BY <1>1 DEF Add, StartedInv, ErrorInv, ReadyInv, JoinInv
<1>2. CASE SignalReady(f)
  BY <1>2 DEF SignalReady, StartedInv, ErrorInv, ReadyInv, JoinInv
<1>3. CASE BodyReturns(f, e)
  BY <1>3 DEF BodyReturns, StartedInv, ErrorInv, ReadyInv, JoinInv
<1> QED
  BY <1>1, <1>2, <1>3

\* Every step of the group keeps the invariant.
LEMMA GroupInvStep ==
  ASSUME GroupInv, [GroupNext]_groupVars
  PROVE  GroupInv'
<1>1. GroupTypeOK'
  BY GroupType DEF GroupInv
<1>2. CASE GroupStep
  BY <1>1, <1>2, FunctionStep, CallerStep DEF GroupStep
<1>3. CASE GroupInput
  BY <1>1, <1>3, BodyStep, CallerStep DEF GroupInput
<1>4. CASE UNCHANGED groupVars
  BY <1>4 DEF groupVars, GroupInv, GroupTypeOK, StartedInv, ErrorInv, ReadyInv, JoinInv
<1> QED
  BY <1>2, <1>3, <1>4 DEF GroupNext

\* What Ready and Run report follows from the invariant.
LEMMA GroupInvImplies == GroupInv => ReadyHonest /\ RunReports
<1> SUFFICES ASSUME GroupInv PROVE ReadyHonest /\ RunReports
  OBVIOUS
<1> USE DEF GroupInv, GroupTypeOK
<1>1. ReadyHonest
  BY DEF ReadyHonest, ReadyInv
<1>2. RunReports
  BY DEF RunReports, JoinInv, ErrorInv
<1> QED
  BY <1>1, <1>2

\* For any functions, a Ready that returns nil or ErrInterrupted has missed no
\* function that failed before it was ready (run_group.go:95-135), and Run returns
\* after all of them, with an error exactly if one failed (run_group.go:109-113).
THEOREM GroupReports == GroupSpec => [](ReadyHonest /\ RunReports)
<1>1. GroupInit => GroupInv
  BY GroupInitInv
<1>2. GroupInv /\ [GroupNext]_groupVars => GroupInv'
  BY GroupInvStep
<1>3. GroupInv => ReadyHonest /\ RunReports
  BY GroupInvImplies
<1> QED
  BY <1>1, <1>2, <1>3, PTL DEF GroupSpec

-----------------------------------------------------------------------------
(* Every step of the runner is a step of its group or leaves it alone.     *)

\* The tables drive the functions of the group.
LEMMA TableGroupStep ==
  ASSUME NEW f \in Fns, \/ TableRestored(f) \/ TableFails(f) \/ TableStops(f)
                        \/ TableReady(f) \/ TableReturns(f) \/ InitAdd(f)
  PROVE  [GroupNext]_groupVars
<1>1. CASE TableReady(f) \/ InitAdd(f)
  BY <1>1 DEF TableReady, InitAdd, GroupNext, GroupInput
<1>2. CASE TableReturns(f)
  BY <1>2 DEF TableReturns, GroupNext, GroupInput
<1> QED
  BY <1>1, <1>2 DEF TableRestored, TableFails, TableStops

\* The instances of the stream consumer leave the group alone.
LEMMA InstanceGroupStep ==
  ASSUME NEW i \in Instances, StreamSpawn(i) \/ InstanceStops(i) \/ InstancePanics(i)
  PROVE  UNCHANGED groupVars
  BY DEF StreamSpawn, InstanceStops, InstancePanics

\* Every step of the runner is a step of the group or a stutter.
LEMMA RunnerGroupStep == [Next]_vars => [GroupNext]_groupVars
<1> SUFFICES ASSUME [Next]_vars PROVE [GroupNext]_groupVars
  OBVIOUS
<1>1. CASE GroupOnly
  BY <1>1 DEF GroupOnly, GroupNext
<1>2. CASE RunnerStep
  BY <1>2, TableGroupStep DEF RunnerStep, StartGlobal, AwaitReady, GlobalReady, SkipGlobal,
     StartStream, RunStream, SkipStream, RunEnds, GroupNext, GroupInput
<1>3. CASE GlobalStep
  BY <1>3, TableGroupStep DEF GlobalStep, GlobalRun, GlobalRunReturns, GlobalDone,
     GroupNext, GroupInput
<1>4. CASE StreamStep
  BY <1>4, InstanceGroupStep DEF StreamStep, StreamFetch, StreamJoin, MakeStop, MakeDone,
     StreamReturns, StreamDone
<1>5. CASE ShutdownStep
  BY <1>5 DEF ShutdownStep, ShutdownEnter, StopStream, StopAwaitRunning, StopSignal,
     StopReadDone, StopAwaitDone, StopGlobal, ShutdownReturns, UserReturns, GroupNext, GroupInput
<1>6. CASE Environment
  BY <1>6, TableGroupStep, InstanceGroupStep DEF Environment, SetupFails, InitFails, RunFails,
     StreamBuildFails, UserStop
<1>7. CASE UNCHANGED vars
  BY <1>7 DEF vars
<1> QED
  BY <1>1, <1>2, <1>3, <1>4, <1>5, <1>6, <1>7 DEF Next

\* The runner keeps to the protocol of its RunGroup (runner.go:95-118).
THEOREM RunnerUsesGroup == Spec => GroupSpec
<1>1. Init => GroupInit
  BY DEF Init
<1> QED
  BY <1>1, RunnerGroupStep, PTL DEF Spec, GroupSpec

\* What Ready and Run of the group tell the runner is true of its tables'
\* functions (runner.go:112-131, run_group.go:109-135).
THEOREM RunnerIsTold == Spec => [](ReadyHonest /\ RunReports)
  BY RunnerUsesGroup, GroupReports, PTL

-----------------------------------------------------------------------------
(* The inductive invariant of the runner.                                  *)

Told == rd \in {"nil", "interrupted", "err"}

\* How far Run is, and what the group and the consumers' goroutines know of it.
ProgressInv ==
  /\ "global" \notin parts => fns = {}
  /\ rpc = "start" => fns = {}
  /\ rpc \in {"start", "init"} => rd = "no" /\ gpc = "none" /\ ~storesReady /\ "stream" \notin consumers
  /\ rpc \in {"init", "ready"} => "global" \in parts
  /\ rpc = "ready" => fns = Fns
  /\ rpc \in {"start", "init", "ready", "stream", "register"} => spc = "none"
  /\ "global" \in parts /\ rpc \in {"stream", "register", "wait", "ok"} => fns = Fns /\ Told
  /\ "global" \in parts /\ rpc \in {"ready", "stream", "register", "wait", "ok"} => gpc # "none"
  /\ storesReady => fns = Fns /\ Told
  /\ "global" \in parts /\ "stream" \in consumers => fns = Fns /\ Told
  /\ gpc \in {"shutdown", "done"} => runState = "stopped"
  /\ rpc = "ok" => gpc \in {"none", "done"} /\ spc \in {"none", "done"}

\* A table that is still being restored has neither reported nor returned.
TableInv ==
  \A f \in Fns :
    table[f] = "restoring" => ready[f] # "self" /\ fpc[f] \in {"none", "body"}

\* The stream consumer either never built its last instance or saw all end.
InstanceInv ==
  /\ spc \in {"none", "fetch", "spawn", "shutdown"} => instance[NumConsumers] = "none"
  /\ spc \in {"makeStop", "makeDone", "block"} => \A i \in Instances : instance[i] = "down"
  /\ spc = "done" => \/ instance[NumConsumers] = "none"
                     \/ \A i \in Instances : instance[i] = "down"

RunnerInv == TypeOK /\ GroupInv /\ ProgressInv /\ TableInv /\ InstanceInv

\* The runner starts in a state of the invariant.
LEMMA RunnerInitInv == Init => RunnerInv
<1> SUFFICES ASSUME Init PROVE RunnerInv
  OBVIOUS
<1>1. GroupInv
  BY GroupInitInv DEF Init
<1>2. TypeOK
  BY <1>1 DEF Init, TypeOK, GroupInv
<1>3. ProgressInv /\ TableInv
  BY DEF Init, GroupInit, ProgressInv, TableInv
<1>4. InstanceInv
  BY RunnerAssumption DEF Init, InstanceInv, Instances
<1> QED
  BY <1>1, <1>2, <1>3, <1>4 DEF RunnerInv

\* What is known before every step: the invariant, and what the group promises.
Known == RunnerInv /\ GroupInv' /\ [GroupNext]_groupVars

\* The steps of the group itself.
LEMMA GroupOnlyStep ==
  ASSUME Known, GroupOnly
  PROVE  RunnerInv'
<1> USE DEF Known, RunnerInv
<1>1. UNCHANGED runnerVars /\ GroupStep
  BY DEF GroupOnly
<1>2. TypeOK'
  BY <1>1 DEF TypeOK, runnerVars, tableVars, streamVars, stopVars, GroupInv
<1>3. fns' = fns
  BY <1>1 DEF GroupStep, RunReturns, ShutDownSet, ShutDownClose, ReadErr, ReadShuttingDown,
     ReadyReturns, StopNotified, StopReturns, NotifyErr, Notified, ReadyAnyway, WgDone, ReadyWgDone
<1>4. (rd = "no" => rd' = "no") /\ (Told => Told') /\ (runState = "stopped" => runState' = "stopped")
  BY <1>1 DEF GroupStep, RunReturns, ShutDownSet, ShutDownClose, ReadErr, ReadShuttingDown, Told,
     ReadyReturns, StopNotified, StopReturns, NotifyErr, Notified, ReadyAnyway, WgDone, ReadyWgDone
<1>5. ProgressInv'
  BY <1>1, <1>3, <1>4 DEF ProgressInv, runnerVars, tableVars, streamVars, stopVars
<1>6. TableInv'
  <2>1. ASSUME NEW g \in fns, NotifyErr(g) \/ Notified(g) \/ ReadyAnyway(g) \/ WgDone(g) \/ ReadyWgDone(g)
        PROVE  TableInv'
    BY <1>1, <2>1 DEF TableInv, runnerVars, tableVars, NotifyErr, Notified, ReadyAnyway, WgDone,
       ReadyWgDone, GroupInv, GroupTypeOK
  <2> QED
    BY <1>1, <2>1 DEF GroupStep, RunReturns, ShutDownSet, ShutDownClose, ReadErr, ReadShuttingDown,
       ReadyReturns, StopNotified, StopReturns, TableInv, runnerVars, tableVars
<1>7. InstanceInv'
  BY <1>1 DEF InstanceInv, runnerVars, streamVars
<1> QED
  BY <1>2, <1>5, <1>6, <1>7

\* The steps of runner.Run.
LEMMA RunStep ==
  ASSUME Known, RunnerStep \/ SetupFails \/ InitFails
  PROVE  RunnerInv'
<1> USE DEF Known, RunnerInv
<1>0. CASE \E f \in Fns : InitAdd(f)
  <2>1. PICK f \in Fns : InitAdd(f)
    BY <1>0
  <2>2. /\ fns' = fns \cup {f} /\ rpc = "init" /\ UNCHANGED runnerVars
        /\ UNCHANGED <<runState, fpc, ready, rd>>
    BY <2>1 DEF InitAdd, Add
  <2>3. TypeOK'
    BY <2>2 DEF TypeOK, runnerVars, tableVars, streamVars, stopVars, GroupInv
  <2>4. "global" \in parts
    BY <2>2 DEF ProgressInv
  <2>5. ProgressInv'
    BY <2>2, <2>4 DEF ProgressInv, runnerVars, tableVars, streamVars, stopVars, Told
  <2>6. TableInv' /\ InstanceInv'
    BY <2>2 DEF TableInv, InstanceInv, runnerVars, tableVars, streamVars
  <2> QED
    BY <2>3, <2>5, <2>6
<1>1. CASE SetupFails \/ InitFails
  <2> USE <1>1 DEF SetupFails, InitFails, RunFails, groupVars, streamVars
  <2>1. TypeOK'
    <3>1. GroupTypeOK'
      BY DEF GroupInv
    <3>2. storesReady' \in BOOLEAN /\ running' \in BOOLEAN
      BY DEF TypeOK, streamVars
    <3>3. rpc' \in {"start", "init", "ready", "stream", "register", "wait", "ok", "error", "dead"}
      BY DEF TypeOK
    <3>4. parts' \subseteq {"global", "stream"} /\ consumers' \subseteq {"global", "stream"}
      BY DEF TypeOK
    <3> QED
      BY <3>1, <3>2, <3>3, <3>4 DEF TypeOK, tableVars, streamVars, stopVars
  <2>2. ProgressInv'
    BY DEF ProgressInv, Told
  <2>3. TableInv' /\ InstanceInv'
    BY DEF tableVars, streamVars, TableInv, InstanceInv, ProgressInv
  <2> QED
    BY <2>1, <2>2, <2>3
<1>2. CASE StartGlobal \/ SkipGlobal
  <2> USE <1>2 DEF StartGlobal, SkipGlobal, groupVars, streamVars
  <2>1. TypeOK'
    <3>1. GroupTypeOK'
      BY DEF GroupInv
    <3>2. storesReady' \in BOOLEAN /\ running' \in BOOLEAN
      BY DEF TypeOK, streamVars
    <3>3. rpc' \in {"start", "init", "ready", "stream", "register", "wait", "ok", "error", "dead"}
      BY DEF TypeOK
    <3>4. parts' \subseteq {"global", "stream"} /\ consumers' \subseteq {"global", "stream"}
      BY DEF TypeOK
    <3> QED
      BY <3>1, <3>2, <3>3, <3>4 DEF TypeOK, tableVars, streamVars, stopVars
  <2>2. ProgressInv'
    BY DEF ProgressInv, Told
  <2>3. TableInv' /\ InstanceInv'
    BY DEF tableVars, streamVars, TableInv, InstanceInv, ProgressInv
  <2> QED
    BY <2>1, <2>2, <2>3
<1>3. CASE AwaitReady
  BY <1>3 DEF AwaitReady, ReadyCall, tableVars, streamVars, stopVars,
     TypeOK, GroupInv, ProgressInv, TableInv, InstanceInv, Told
<1>4. CASE GlobalReady
  BY <1>4 DEF GlobalReady, groupVars, tableVars, streamVars, stopVars,
     TypeOK, GroupInv, ProgressInv, TableInv, InstanceInv, Told
<1>5. CASE StartStream \/ SkipStream
  <2> USE <1>5 DEF StartStream, SkipStream, groupVars, streamVars
  <2>1. TypeOK'
    <3>1. GroupTypeOK'
      BY DEF GroupInv
    <3>2. storesReady' \in BOOLEAN /\ running' \in BOOLEAN
      BY DEF TypeOK, streamVars
    <3>3. rpc' \in {"start", "init", "ready", "stream", "register", "wait", "ok", "error", "dead"}
      BY DEF TypeOK
    <3>4. parts' \subseteq {"global", "stream"} /\ consumers' \subseteq {"global", "stream"}
      BY DEF TypeOK
    <3> QED
      BY <3>1, <3>2, <3>3, <3>4 DEF TypeOK, tableVars, streamVars, stopVars
  <2>2. ProgressInv'
    BY DEF ProgressInv, Told
  <2>3. TableInv' /\ InstanceInv'
    BY DEF tableVars, streamVars, TableInv, InstanceInv, ProgressInv
  <2> QED
    BY <2>1, <2>2, <2>3
<1>6. CASE RunStream
  <2> USE <1>6 DEF RunStream, groupVars
  <2>1. TypeOK'
    <3>1. GroupTypeOK'
      BY DEF GroupInv
    <3>2. storesReady' \in BOOLEAN /\ running' \in BOOLEAN
      BY DEF TypeOK, streamVars
    <3>3. rpc' \in {"start", "init", "ready", "stream", "register", "wait", "ok", "error", "dead"}
      BY DEF TypeOK
    <3>4. parts' \subseteq {"global", "stream"} /\ consumers' \subseteq {"global", "stream"}
      BY DEF TypeOK
    <3> QED
      BY <3>1, <3>2, <3>3, <3>4 DEF TypeOK, tableVars, streamVars, stopVars
  <2>2. ProgressInv'
    BY DEF ProgressInv, Told
  <2>3. TableInv' /\ InstanceInv'
    BY DEF tableVars, streamVars, TableInv, InstanceInv, ProgressInv
  <2> QED
    BY <2>1, <2>2, <2>3
<1>7. CASE RunEnds
  BY <1>7 DEF RunEnds, groupVars, tableVars, streamVars, stopVars,
     TypeOK, GroupInv, ProgressInv, TableInv, InstanceInv, Told
<1> QED
  BY <1>0, <1>1, <1>2, <1>3, <1>4, <1>5, <1>6, <1>7 DEF RunnerStep

\* The steps of the global tables.
LEMMA TableStep ==
  ASSUME Known, NEW f \in Fns,
         TableRestored(f) \/ TableFails(f) \/ TableStops(f) \/ TableReady(f) \/ TableReturns(f)
  PROVE  RunnerInv'
<1> USE DEF Known, RunnerInv
<1>1. /\ UNCHANGED <<fns, runState, rd, parts, rpc, consumers, storesReady, gpc>>
      /\ UNCHANGED streamVars /\ UNCHANGED stopVars
  BY DEF TableRestored, TableFails, TableStops, TableReady, TableReturns, SignalReady,
     BodyReturns, runnerVars, groupVars
<1>2. /\ table' \in [Fns -> {"restoring", "restored", "failed", "stopped"}]
      /\ restored' \subseteq Fns
  BY DEF TableRestored, TableFails, TableStops, TableReady, TableReturns, runnerVars, tableVars, TypeOK
<1>3. TypeOK'
  <2>1. GroupTypeOK'
    BY DEF GroupInv
  <2>2. storesReady' \in BOOLEAN /\ running' \in BOOLEAN
    BY <1>1 DEF TypeOK, streamVars
  <2> QED
    BY <1>1, <1>2, <2>1, <2>2 DEF TypeOK, streamVars, stopVars
<1>4. ProgressInv' /\ InstanceInv'
  BY <1>1 DEF ProgressInv, InstanceInv, Told, streamVars
<1>5. TableInv'
  <2>1. CASE TableRestored(f) \/ TableFails(f) \/ TableStops(f)
    BY <2>1 DEF TableRestored, TableFails, TableStops, groupVars, TableInv, TypeOK
  <2>2. CASE TableReady(f)
    BY <2>2 DEF TableReady, SignalReady, runnerVars, tableVars, TableInv, GroupInv, GroupTypeOK
  <2>3. CASE TableReturns(f)
    BY <2>3 DEF TableReturns, BodyReturns, runnerVars, tableVars, TableInv, GroupInv, GroupTypeOK
  <2> QED
    BY <2>1, <2>2, <2>3
<1> QED
  BY <1>3, <1>4, <1>5

\* The steps of the goroutine that runs the global consumer.
LEMMA GlobalRunStep ==
  ASSUME Known, GlobalRun \/ GlobalRunReturns \/ GlobalDone
  PROVE  RunnerInv'
<1> USE DEF Known, RunnerInv
<1>1. /\ UNCHANGED <<fns, rd, ready, parts, rpc, consumers, storesReady>>
      /\ UNCHANGED tableVars /\ UNCHANGED streamVars /\ UNCHANGED stopVars
  BY DEF GlobalRun, Run, GlobalRunReturns, GlobalDone, runnerVars, groupVars
<1>2. /\ gpc' \in {"none", "run", "shutdown", "done"}
      /\ gpc' = "none" <=> gpc = "none"
      /\ gpc' \in {"shutdown", "done"} => runState' = "stopped"
      /\ gpc = "done" => gpc' = "done"
  BY DEF GlobalRun, Run, GlobalRunReturns, GlobalDone, runnerVars, groupVars, TypeOK, ProgressInv
<1>3. TypeOK'
  <2>1. GroupTypeOK'
    BY DEF GroupInv
  <2>2. storesReady' \in BOOLEAN /\ running' \in BOOLEAN
    BY <1>1 DEF TypeOK, streamVars
  <2> QED
    BY <1>1, <1>2, <2>1, <2>2 DEF TypeOK, tableVars, streamVars, stopVars
<1>4. ProgressInv' /\ InstanceInv'
  BY <1>1, <1>2 DEF ProgressInv, InstanceInv, Told, streamVars
<1>5. TableInv'
  <2>1. CASE GlobalRun
    BY <2>1 DEF GlobalRun, Run, runnerVars, tableVars, TableInv
  <2>2. CASE GlobalRunReturns \/ GlobalDone
    BY <2>2 DEF GlobalRunReturns, GlobalDone, groupVars, tableVars, TableInv
  <2> QED
    BY <2>1, <2>2
<1> QED
  BY <1>3, <1>4, <1>5

\* The steps of the stream consumer and of its instances.
LEMMA StreamRunStep ==
  ASSUME Known, StreamStep \/ StreamBuildFails \/ \E i \in Instances : InstancePanics(i)
  PROVE  RunnerInv'
<1> USE DEF Known, RunnerInv
<1>1. /\ UNCHANGED groupVars /\ UNCHANGED tableVars /\ UNCHANGED stopVars
      /\ UNCHANGED <<parts, consumers, storesReady, gpc>>
      /\ rpc' = rpc \/ rpc' = "dead"
  BY DEF StreamStep, StreamFetch, StreamJoin, MakeStop, MakeDone, StreamReturns, StreamDone,
     StreamSpawn, InstanceStops, StreamBuildFails, InstancePanics, stopVars
<1>2. /\ spc' \in {"none", "fetch", "spawn", "join", "makeStop", "makeDone", "block", "shutdown", "done"}
      /\ spc' = "none" <=> spc = "none"
      /\ spc = "done" => spc' = "done"
      /\ unsub' \subseteq Instances
      /\ stop' \in {"nil", "open", "closed"} /\ done' \in {"nil", "open", "closed"}
  BY DEF StreamStep, StreamFetch, StreamJoin, MakeStop, MakeDone, StreamReturns, StreamDone,
     StreamSpawn, InstanceStops, StreamBuildFails, InstancePanics, streamVars, TypeOK
<1>3. running' \in BOOLEAN
  BY DEF StreamStep, StreamFetch, StreamJoin, MakeStop, MakeDone, StreamReturns, StreamDone,
     StreamSpawn, InstanceStops, StreamBuildFails, InstancePanics, streamVars, TypeOK
<1>4. instance' \in [Instances -> {"none", "up", "down"}] /\ InstanceInv'
  <2>1. ASSUME NEW i \in Instances, StreamSpawn(i)
        PROVE  instance' \in [Instances -> {"none", "up", "down"}] /\ InstanceInv'
    BY <2>1, RunnerAssumption DEF StreamSpawn, TypeOK, InstanceInv, Instances
  <2>2. ASSUME NEW i \in Instances, InstanceStops(i)
        PROVE  instance' \in [Instances -> {"none", "up", "down"}] /\ InstanceInv'
    BY <2>2, RunnerAssumption DEF InstanceStops, TypeOK, InstanceInv, Instances
  <2>3. ASSUME NEW i \in Instances, InstancePanics(i)
        PROVE  instance' \in [Instances -> {"none", "up", "down"}] /\ InstanceInv'
    BY <2>3 DEF InstancePanics, streamVars, TypeOK, InstanceInv
  <2>4. CASE StreamJoin
    BY <2>4 DEF StreamJoin, TypeOK, InstanceInv
  <2>5. CASE StreamFetch \/ MakeStop \/ MakeDone \/ StreamReturns \/ StreamDone \/ StreamBuildFails
    BY <2>5 DEF StreamFetch, MakeStop, MakeDone, StreamReturns, StreamDone, StreamBuildFails,
       TypeOK, InstanceInv
  <2> QED
    BY <2>1, <2>2, <2>3, <2>4, <2>5 DEF StreamStep
<1>5. TypeOK'
  <2>1. GroupTypeOK'
    BY DEF GroupInv
  <2>2. storesReady' \in BOOLEAN
    BY <1>1 DEF TypeOK
  <2> QED
    BY <1>1, <1>2, <1>3, <1>4, <2>1, <2>2 DEF TypeOK, tableVars, stopVars
<1>6. ProgressInv' /\ TableInv'
  BY <1>1, <1>2 DEF ProgressInv, TableInv, Told, groupVars, tableVars
<1> QED
  BY <1>4, <1>5, <1>6

\* The steps of Stop and shutdown.
LEMMA StopStep ==
  ASSUME Known, ShutdownStep \/ UserStop
  PROVE  RunnerInv'
<1> USE DEF Known, RunnerInv
<1>1. /\ UNCHANGED <<fns, runState, fpc, ready, rd>>
      /\ UNCHANGED <<parts, rpc, consumers, storesReady, gpc, spc, instance, running, done>>
      /\ UNCHANGED tableVars
  BY DEF ShutdownStep, ShutdownEnter, StopStream, StopAwaitRunning, StopSignal, StopReadDone,
     StopAwaitDone, StopGlobal, StopCall, ShutdownReturns, UserReturns, UserStop, groupVars, streamVars
<1>2. /\ unsub' \subseteq Instances
      /\ stop' \in {"nil", "open", "closed"}
      /\ sd' \in {"free", "stream", "awaitRunning", "stop", "readDone", "awaitDone",
                  "global", "awaitGlobal", "done"}
      /\ user' \in {"no", "called", "returned"}
  BY DEF ShutdownStep, ShutdownEnter, StopStream, StopAwaitRunning, StopSignal, StopReadDone,
     StopAwaitDone, StopGlobal, ShutdownReturns, UserReturns, UserStop, streamVars, TypeOK
<1>3. TypeOK'
  <2>1. GroupTypeOK'
    BY DEF GroupInv
  <2>2. storesReady' \in BOOLEAN /\ running' \in BOOLEAN
    BY <1>1 DEF TypeOK
  <2> QED
    BY <1>1, <1>2, <2>1, <2>2 DEF TypeOK, tableVars
<1>4. ProgressInv' /\ TableInv' /\ InstanceInv'
  BY <1>1 DEF ProgressInv, TableInv, InstanceInv, Told, tableVars
<1> QED
  BY <1>3, <1>4

\* Every step of the runner keeps the invariant.
LEMMA RunnerInvStep == RunnerInv /\ [Next]_vars => RunnerInv'
<1> SUFFICES ASSUME RunnerInv, [Next]_vars PROVE RunnerInv'
  OBVIOUS
<1>1. [GroupNext]_groupVars
  BY RunnerGroupStep
<1>2. GroupInv'
  BY <1>1, GroupInvStep DEF RunnerInv
<1>3. Known
  BY <1>1, <1>2 DEF Known
<1>4. CASE GroupOnly
  BY <1>3, <1>4, GroupOnlyStep
<1>5. CASE RunnerStep
  BY <1>3, <1>5, RunStep
<1>6. CASE GlobalStep
  BY <1>3, <1>6, TableStep, GlobalRunStep DEF GlobalStep
<1>7. CASE StreamStep
  BY <1>3, <1>7, StreamRunStep
<1>8. CASE ShutdownStep
  BY <1>3, <1>8, StopStep
<1>9. CASE Environment
  BY <1>3, <1>9, RunStep, TableStep, StreamRunStep, StopStep DEF Environment
<1>10. CASE UNCHANGED vars
  <2>1. UNCHANGED groupVars /\ UNCHANGED runnerVars
    BY <1>10 DEF vars
  <2>2. ProgressInv' /\ TableInv' /\ InstanceInv'
    BY <2>1 DEF RunnerInv, ProgressInv, TableInv, InstanceInv, Told, groupVars, runnerVars,
       tableVars, streamVars
  <2>3. GroupTypeOK' /\ storesReady' \in BOOLEAN /\ running' \in BOOLEAN
    BY <1>2, <2>1 DEF RunnerInv, TypeOK, GroupInv, runnerVars, streamVars
  <2>4. TypeOK'
    BY <2>1, <2>3 DEF RunnerInv, TypeOK, runnerVars, tableVars, streamVars, stopVars
  <2> QED
    BY <1>2, <2>2, <2>4 DEF RunnerInv
<1> QED
  BY <1>4, <1>5, <1>6, <1>7, <1>8, <1>9, <1>10 DEF Next

\* For any tables, instances and failures: the variables have their types.
THEOREM RunnerTypes == Spec => []TypeOK
<1>1. RunnerInv => TypeOK
  BY DEF RunnerInv
<1> QED
  BY <1>1, RunnerInitInv, RunnerInvStep, PTL DEF Spec

\* For any tables, instances and failures: the stream consumer is not started and
\* the stores are not announced while a table is being restored (runner.go:118-153).
THEOREM GlobalFirstHolds == Spec => []GlobalFirst
<1>1. RunnerInv => GlobalFirst
  <2> SUFFICES ASSUME RunnerInv, storesReady \/ ("global" \in parts /\ "stream" \in consumers),
                      NEW f \in Fns
               PROVE  table[f] # "restoring"
    BY DEF GlobalFirst
  <2>1. fns = Fns /\ Told
    BY DEF RunnerInv, ProgressInv
  <2>2. ready[f] # "no"
    BY <2>1 DEF RunnerInv, GroupInv, ReadyInv, Told
  <2>3. ready[f] = "self" \/ fpc[f] \in {"wgDone", "done"}
    BY <2>2 DEF RunnerInv, GroupInv, GroupTypeOK, ReadyInv
  <2> QED
    BY <2>3 DEF RunnerInv, TableInv
<1> QED
  BY <1>1, RunnerInitInv, RunnerInvStep, PTL DEF Spec

\* For any tables, instances and failures: a Run that returns nil has waited for
\* every function of the global consumer, and for every instance unless building
\* one failed (runner.go:169-171).
THEOREM RunLeavesNothingHolds == Spec => []RunLeavesNothing
<1>1. RunnerInv => RunLeavesNothing
  <2> SUFFICES ASSUME RunnerInv, rpc = "ok"
               PROVE  /\ \A f \in fns : fpc[f] = "done"
                      /\ AllDown \/ \E i \in Instances : instance[i] = "none"
    BY DEF RunLeavesNothing
  <2>1. fns = {} \/ runState = "stopped"
    BY DEF RunnerInv, ProgressInv
  <2>2. \A f \in fns : fpc[f] = "done"
    BY <2>1 DEF RunnerInv, GroupInv, JoinInv
  <2>3. instance[NumConsumers] = "none" \/ \A i \in Instances : instance[i] = "down"
    BY DEF RunnerInv, ProgressInv, InstanceInv
  <2>4. NumConsumers \in Instances
    BY RunnerAssumption DEF Instances
  <2> QED
    BY <2>2, <2>3, <2>4 DEF AllDown
<1> QED
  BY <1>1, RunnerInitInv, RunnerInvStep, PTL DEF Spec

-----------------------------------------------------------------------------
(* The order of a shutdown: the stream consumer, then the global tables.   *)

\* running is closed when every instance is over, and nothing brings one back;
\* the global group is stopped by the end of shutdown, and by nobody else.
OrderInv ==
  /\ running => /\ spc \in {"makeStop", "makeDone", "block", "done"}
                /\ \A i \in Instances : instance[i] = "down"
  /\ st # "no" => sd \in {"awaitGlobal", "done"}

\* Where a shutdown that found the stream consumer can be.
FoundStream ==
  \/ sd = "awaitRunning"
  \/ running /\ sd \in {"stop", "readDone", "awaitDone", "global", "awaitGlobal", "done"}

LEMMA OrderInit == Init => OrderInv
  BY DEF Init, GroupInit, OrderInv

\* Every step keeps the order, and the place of such a shutdown.
LEMMA OrderStep ==
  ASSUME OrderInv, RunnerInv, [Next]_vars
  PROVE  OrderInv' /\ (FoundStream => FoundStream')
<1> DEFINE Goal == OrderInv' /\ (FoundStream => FoundStream')
<1>1. ASSUME UNCHANGED <<spc, instance, running, sd>>, st' = st \/ st # "no"
      PROVE  Goal
  BY <1>1 DEF OrderInv, FoundStream
<1>2. CASE GroupOnly
  <2>1. UNCHANGED <<spc, instance, running, sd>>
    BY <1>2 DEF GroupOnly, runnerVars, streamVars, stopVars
  <2>2. st' = st \/ st # "no"
    BY <1>2 DEF GroupOnly, GroupStep, RunReturns, ShutDownSet, ShutDownClose, ReadErr, ReadShuttingDown,
       ReadyReturns, StopNotified, StopReturns, NotifyErr, Notified, ReadyAnyway, WgDone, ReadyWgDone
  <2> QED
    BY <1>1, <2>1, <2>2
<1>3. CASE RunnerStep
  <2>1. CASE RunStream
    BY <2>1 DEF RunStream, OrderInv, FoundStream, groupVars, stopVars, RunnerInv, ProgressInv
  <2>2. CASE StartGlobal \/ GlobalReady \/ SkipGlobal \/ StartStream \/ SkipStream \/ RunEnds
    BY <1>1, <2>2 DEF StartGlobal, GlobalReady, SkipGlobal, StartStream, SkipStream, RunEnds,
       groupVars, streamVars, stopVars
  <2>3. CASE AwaitReady \/ \E f \in Fns : InitAdd(f)
    BY <1>1, <2>3 DEF AwaitReady, ReadyCall, InitAdd, Add, runnerVars, streamVars, stopVars
  <2> QED
    BY <1>3, <2>1, <2>2, <2>3 DEF RunnerStep
<1>4. CASE GlobalStep
  <2>1. UNCHANGED <<spc, instance, running, sd>> /\ st' = st
    BY <1>4 DEF GlobalStep, GlobalRun, Run, GlobalRunReturns, GlobalDone, TableRestored, TableStops,
       TableReady, SignalReady, TableReturns, BodyReturns, groupVars, runnerVars, streamVars, stopVars
  <2> QED
    BY <1>1, <2>1
<1>5. CASE StreamStep
  <2>1. UNCHANGED <<sd, st>> /\ (running => running')
    BY <1>5 DEF StreamStep, StreamFetch, StreamJoin, MakeStop, MakeDone, StreamReturns, StreamDone,
       StreamSpawn, InstanceStops, groupVars, stopVars
  <2>2. (running => /\ spc \in {"makeStop", "makeDone", "block", "done"}
                    /\ \A i \in Instances : instance[i] = "down")'
    BY <1>5 DEF StreamStep, StreamFetch, StreamJoin, MakeStop, MakeDone, StreamReturns, StreamDone,
       StreamSpawn, InstanceStops, OrderInv
  <2> QED
    BY <2>1, <2>2 DEF OrderInv, FoundStream
<1>6. CASE ShutdownStep
  <2>1. UNCHANGED <<spc, instance, running>>
    BY <1>6 DEF ShutdownStep, ShutdownEnter, StopStream, StopAwaitRunning, StopSignal, StopReadDone,
       StopAwaitDone, StopGlobal, ShutdownReturns, UserReturns, streamVars
  <2>2. CASE StopGlobal
    BY <2>1, <2>2 DEF StopGlobal, OrderInv, FoundStream
  <2>3. CASE ShutdownEnter \/ StopStream \/ StopAwaitRunning \/ StopSignal \/ StopReadDone
             \/ StopAwaitDone \/ ShutdownReturns \/ UserReturns
    BY <2>1, <2>3 DEF ShutdownEnter, StopStream, StopAwaitRunning, StopSignal, StopReadDone,
       StopAwaitDone, ShutdownReturns, UserReturns, OrderInv, FoundStream, groupVars
  <2> QED
    BY <1>6, <2>2, <2>3 DEF ShutdownStep
<1>7. CASE Environment
  <2>1. CASE StreamBuildFails
    BY <2>1 DEF StreamBuildFails, OrderInv, FoundStream, groupVars, stopVars
  <2>2. CASE SetupFails \/ InitFails \/ UserStop \/ (\E f \in Fns : TableFails(f))
             \/ \E i \in Instances : InstancePanics(i)
    BY <1>1, <2>2 DEF SetupFails, InitFails, RunFails, UserStop, TableFails, InstancePanics,
       groupVars, streamVars, stopVars
  <2> QED
    BY <1>7, <2>1, <2>2 DEF Environment
<1>8. CASE UNCHANGED vars
  BY <1>1, <1>8 DEF vars, groupVars, runnerVars, streamVars, stopVars
<1> QED
  BY <1>2, <1>3, <1>4, <1>5, <1>6, <1>7, <1>8 DEF Next

\* For any tables, instances and failures: once a shutdown has found the stream
\* consumer, the global tables are told to stop only when no instance is up
\* (runner.go:191-202, stream_consumer.go:129-139).
THEOREM StreamStopsFirstHolds == Spec => StreamStopsFirst
<1>1. OrderInv /\ RunnerInv /\ [Next]_vars => OrderInv' /\ (FoundStream => FoundStream')
  BY OrderStep
<1>2. sd = "awaitRunning" => FoundStream
  BY DEF FoundStream
<1>3. OrderInv /\ FoundStream => (st # "no" => AllDown)
  BY DEF OrderInv, FoundStream, AllDown
<1> QED
  BY <1>1, <1>2, <1>3, OrderInit, RunnerInitInv, RunnerInvStep, PTL
     DEF Spec, StreamStopsFirst
=============================================================================
