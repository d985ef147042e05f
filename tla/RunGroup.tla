------------------------------ MODULE RunGroup ------------------------------
(***************************************************************************)
(* async.RunGroup (pkg/async/run_group.go): functions that run as          *)
(* goroutines, are waited for until ready, and stop together on the first  *)
(* error or on Stop.                                                       *)
(*                                                                         *)
(* A function's body is left open here: it signals readiness or returns    *)
(* whenever a module that uses the group says so.  The shared fields err   *)
(* and shuttingDown are read without a lock, so every read of Ready is a   *)
(* step of its own.                                                        *)
(***************************************************************************)
EXTENDS Naturals, FiniteSets

CONSTANTS
  Fns,     \* the functions that may be added to the group
  NoErr    \* the nil error

ASSUME GroupAssumption == NoErr \notin Fns

VARIABLES
  fns,       \* functions added so far
  runState,  \* Run: "new", "running" or "stopped" (stopped is closed)
  fpc,       \* per function: where its goroutine is
  ret,       \* per function: what the body returned
  ready,     \* per function: who closed its ready channel, or "no"
  counted,   \* functions whose helper goroutine called readyWg.Done
  err,       \* the function whose error is kept, or NoErr
  once,      \* shutDownOnce: "free", "held" (shuttingDown set), "done"
             \* (stopping closed)
  rd,        \* the caller of Ready: where it is, then what it was told
  st         \* the caller of Stop

groupVars == <<fns, runState, fpc, ret, ready, counted, err, once, rd, st>>

shuttingDown == once # "free"
stopping == once = "done"

GroupTypeOK ==
  /\ fns \subseteq Fns
  /\ runState \in {"new", "running", "stopped"}
  /\ fpc \in [Fns -> {"none", "body", "notifyErr", "notify", "ready", "wgDone", "done"}]
  /\ ret \in [Fns -> {"none", "nil", "err"}]
  /\ ready \in [Fns -> {"no", "self", "return"}]
  /\ counted \subseteq Fns
  /\ err \in Fns \cup {NoErr}
  /\ once \in {"free", "held", "done"}
  /\ rd \in {"no", "wait", "flag", "ret", "nil", "interrupted", "err"}
  /\ st \in {"no", "notify", "wait", "done"}

GroupInit ==
  /\ fns = {}
  /\ runState = "new"
  /\ fpc = [f \in Fns |-> "none"]
  /\ ret = [f \in Fns |-> "none"]
  /\ ready = [f \in Fns |-> "no"]
  /\ counted = {}
  /\ err = NoErr
  /\ once = "free"
  /\ rd = "no"
  /\ st = "no"

-----------------------------------------------------------------------------
(* Add and Run.                                                            *)

Add(f) ==
  /\ runState = "new"
  /\ rd = "no"
  /\ f \notin fns
  /\ fns' = fns \cup {f}
  /\ UNCHANGED <<runState, fpc, ret, ready, counted, err, once, rd, st>>

\* Every function gets a goroutine, and one that waits for its ready channel.
Run ==
  /\ runState = "new"
  /\ runState' = "running"
  /\ fpc' = [f \in Fns |-> IF f \in fns THEN "body" ELSE "none"]
  /\ UNCHANGED <<fns, ret, ready, counted, err, once, rd, st>>

\* Mutant of RunReturns: wg counts one function too few.
RunReturnsEarly ==
  /\ runState = "running"
  /\ Cardinality({f \in fns : fpc[f] # "done"}) <= 1
  /\ runState' = "stopped"
  /\ UNCHANGED <<fns, fpc, ret, ready, counted, err, once, rd, st>>

RunReturns ==
  /\ runState = "running"
  /\ \A f \in fns : fpc[f] = "done"
  /\ runState' = "stopped"
  /\ UNCHANGED <<fns, fpc, ret, ready, counted, err, once, rd, st>>

-----------------------------------------------------------------------------
(* The goroutine of one function.                                          *)

\* opts.Ready, called by the body or by a goroutine it started.
SignalReady(f) ==
  /\ fpc[f] # "none"
  /\ ready[f] = "no"
  /\ ready' = [ready EXCEPT ![f] = "self"]
  /\ UNCHANGED <<fns, runState, fpc, ret, counted, err, once, rd, st>>

\* fn(opts) returns; what follows an error is skipped otherwise.
BodyReturns(f, e) ==
  /\ fpc[f] = "body"
  /\ ret' = [ret EXCEPT ![f] = e]
  /\ fpc' = [fpc EXCEPT ![f] = IF e = "err" THEN "notifyErr" ELSE "ready"]
  /\ UNCHANGED <<fns, runState, ready, counted, err, once, rd, st>>

\* notifyErrOnce: the first error is kept.
NotifyErr(f) ==
  /\ fpc[f] = "notifyErr"
  /\ err' = IF err = NoErr THEN f ELSE err
  /\ fpc' = [fpc EXCEPT ![f] = "notify"]
  /\ UNCHANGED <<fns, runState, ret, ready, counted, once, rd, st>>

\* notifyShutDown: the first caller sets shuttingDown, ...
ShutDownSet ==
  /\ once = "free"
  /\ st = "notify" \/ \E f \in fns : fpc[f] = "notify"
  /\ once' = "held"
  /\ UNCHANGED <<fns, runState, fpc, ret, ready, counted, err, rd, st>>

\* Mutant of ShutDownClose: stopping is closed on Stop only.
ShutDownCloseOnStop ==
  /\ once = "held"
  /\ st = "notify"
  /\ once' = "done"
  /\ UNCHANGED <<fns, runState, fpc, ret, ready, counted, err, rd, st>>

\* ... then closes stopping; the others wait for it in shutDownOnce.
ShutDownClose ==
  /\ once = "held"
  /\ once' = "done"
  /\ UNCHANGED <<fns, runState, fpc, ret, ready, counted, err, rd, st>>

Notified(f) ==
  /\ fpc[f] = "notify"
  /\ once = "done"
  /\ fpc' = [fpc EXCEPT ![f] = "ready"]
  /\ UNCHANGED <<fns, runState, ret, ready, counted, err, once, rd, st>>

\* The function is made ready anyway when it returned.
ReadyAnyway(f) ==
  /\ fpc[f] = "ready"
  /\ ready' = [ready EXCEPT ![f] = IF @ = "no" THEN "return" ELSE @]
  /\ fpc' = [fpc EXCEPT ![f] = "wgDone"]
  /\ UNCHANGED <<fns, runState, ret, counted, err, once, rd, st>>

\* Mutant of WgDone: the count of a failed function stays up.
WgDoneUnlessErr(f) ==
  /\ fpc[f] = "wgDone"
  /\ ret[f] # "err"
  /\ fpc' = [fpc EXCEPT ![f] = "done"]
  /\ UNCHANGED <<fns, runState, ret, ready, counted, err, once, rd, st>>

WgDone(f) ==
  /\ fpc[f] = "wgDone"
  /\ fpc' = [fpc EXCEPT ![f] = "done"]
  /\ UNCHANGED <<fns, runState, ret, ready, counted, err, once, rd, st>>

\* The helper goroutine: <-ready, readyWg.Done.
ReadyWgDone(f) ==
  /\ fpc[f] # "none"
  /\ ready[f] # "no"
  /\ f \notin counted
  /\ counted' = counted \cup {f}
  /\ UNCHANGED <<fns, runState, fpc, ret, ready, err, once, rd, st>>

-----------------------------------------------------------------------------
(* The callers of Ready and Stop.                                          *)

ReadyCall ==
  /\ rd = "no"
  /\ rd' = "wait"
  /\ UNCHANGED <<fns, runState, fpc, ret, ready, counted, err, once, st>>

\* Mutant of ReadErr: the wait ends when the first function is ready.
ReadErrEarly ==
  /\ rd = "wait"
  /\ fns = {} \/ fns \cap counted # {}
  /\ rd' = IF err = NoErr THEN "flag" ELSE "err"
  /\ UNCHANGED <<fns, runState, fpc, ret, ready, counted, err, once, st>>

\* readyWg.Wait returns, then tg.err is read.
ReadErr ==
  /\ rd = "wait"
  /\ fns \subseteq counted
  /\ rd' = IF err = NoErr THEN "flag" ELSE "err"
  /\ UNCHANGED <<fns, runState, fpc, ret, ready, counted, err, once, st>>

ReadShuttingDown ==
  /\ rd = "flag"
  /\ rd' = IF shuttingDown THEN "interrupted" ELSE "ret"
  /\ UNCHANGED <<fns, runState, fpc, ret, ready, counted, err, once, st>>

\* tg.err is read again to be returned.
ReadyReturns ==
  /\ rd = "ret"
  /\ rd' = IF err = NoErr THEN "nil" ELSE "err"
  /\ UNCHANGED <<fns, runState, fpc, ret, ready, counted, err, once, st>>

StopCall ==
  /\ st = "no"
  /\ st' = "notify"
  /\ UNCHANGED <<fns, runState, fpc, ret, ready, counted, err, once, rd>>

StopNotified ==
  /\ st = "notify"
  /\ once = "done"
  /\ st' = "wait"
  /\ UNCHANGED <<fns, runState, fpc, ret, ready, counted, err, once, rd>>

\* <-stopped: only Run closes it.
StopReturns ==
  /\ st = "wait"
  /\ runState = "stopped"
  /\ st' = "done"
  /\ UNCHANGED <<fns, runState, fpc, ret, ready, counted, err, once, rd>>

-----------------------------------------------------------------------------
\* What the group's own goroutines do by themselves.
GroupStep ==
  \/ RunReturns \/ ShutDownSet \/ ShutDownClose
  \/ ReadErr \/ ReadShuttingDown \/ ReadyReturns
  \/ StopNotified \/ StopReturns
  \/ \E f \in fns : NotifyErr(f) \/ Notified(f) \/ ReadyAnyway(f) \/ WgDone(f)
                     \/ ReadyWgDone(f)

\* What its user and its functions do.
GroupInput ==
  \/ Run \/ ReadyCall \/ StopCall
  \/ \E f \in Fns : Add(f) \/ SignalReady(f)
  \/ \E f \in Fns, e \in {"nil", "err"} : BodyReturns(f, e)

GroupNext == GroupStep \/ GroupInput

GroupSpec == GroupInit /\ [][GroupNext]_groupVars

-----------------------------------------------------------------------------
(* Properties.                                                             *)

\* When Ready returns without an error, or says it was interrupted, no function
\* failed before it was ready: an error is kept (notifyErrOnce) before the
\* function is made ready on its return (run_group.go:95-104).
ReadyHonest ==
  rd \in {"nil", "interrupted"} =>
    \A f \in fns : /\ ready[f] # "no"
                   /\ ready[f] = "return" => ret[f] # "err"

\* Run returns, and Stop with it, only when every function is over; it returns
\* an error if and only if one of them failed (run_group.go:109-113).
RunReports ==
  /\ st = "done" => runState = "stopped"
  /\ runState = "stopped" =>
       /\ \A f \in fns : fpc[f] = "done"
       /\ err # NoErr <=> \E f \in fns : ret[f] = "err"
=============================================================================
