---------------------------- MODULE StoreQueries ----------------------------
(***************************************************************************)
(* A request for state (streams/stores/http.go): for a key of a local      *)
(* store or for all of it, over the registry (streams/stores/registry.go)  *)
(* and the wrapper that asks the stores of the tasks that the manager      *)
(* holds (streams/queryble_store_wrapper.go), while tasks come and go; or  *)
(* for the records of an index of a global store, while it is updated.     *)
(* A backend's iterator reads the store as it was when it was opened.      *)
(***************************************************************************)
EXTENDS StoreRestore

CONSTANT IndexQueries  \* bound: the stores' partitions and index values asked for

ASSUME StoreQueriesAssumption == IndexQueries \subseteq Partitions \X Values

VARIABLES
  registered,  \* the wrapper is in the registry
  req          \* the request

vars == <<restoreVars, registered, req>>

\* kind and arg: what is asked for; ask: what is still to be read; rows: what was
\* read; sure (history): the rows that were there ever since the request listed
\* what to read; missed: those that the last answer lacks
NoRequest == [st |-> "idle", kind |-> "get", arg |-> 0, ask |-> {}, rows |-> {},
              sure |-> {}, missed |-> {}]
Answered(missed) == [NoRequest EXCEPT !.missed = missed]
Failed == NoRequest

Init == RestoreInit /\ registered = FALSE /\ req = NoRequest

\* streamRunner.registerStores, before the consumer starts
Register ==
  /\ kind = "local" /\ ~registered /\ registered' = TRUE
  /\ UNCHANGED <<restoreVars, req>>

\* taskManager.StoreInstances
Instances == {p \in Partitions : task[p] # "none"}

Row(p, k) == [of |-> p, key |-> k, val |-> store[p][k]]

\* The web server runs before the stores are registered: registry.Store knows
\* the name or answers with an error.
Known == kind = "local" /\ req.st = "idle" /\ registered
Unknown ==
  /\ kind = "local" /\ req.st = "idle" /\ ~registered
  /\ req' = Failed
  /\ UNCHANGED <<restoreVars, registered>>

\* A known store is the wrapper, which lists the instances first.
Reading(what, k, keys) ==
  req' = [st |-> "reading", kind |-> what, arg |-> k, rows |-> {}, missed |-> {},
          ask |-> {<<p, restores[p]>> : p \in Instances},
          sure |-> {Row(pk[1], pk[2]) : pk \in {q \in Instances \X keys :
                       task[q[1]] = "up" /\ store[q[1]][q[2]] # None}}]
Request(k) ==
  /\ Known /\ Reading("get", k, {k})
  /\ UNCHANGED <<restoreVars, registered>>

\* the iterator over no instance panics at its first seek
RequestAll ==
  /\ Known /\ IF Instances = {} THEN req' = Failed ELSE Reading("list", 0, Keys)
  /\ UNCHANGED <<restoreVars, registered>>

Open(h) == task[h[1]] = "up" /\ restores[h[1]] = h[2]

\* Mutant: the first instance answers for all.
GetFirst(h) ==
  /\ req.st = "reading" /\ req.kind = "get" /\ h \in req.ask /\ Open(h)
  /\ req' = Answered(IF store[h[1]][req.arg] = None THEN req.sure ELSE {})
  /\ UNCHANGED <<restoreVars, registered>>
\* the wrapper's Get asks one instance after the other
Get(h) ==
  /\ req.st = "reading" /\ req.kind = "get" /\ h \in req.ask /\ Open(h)
  /\ req' = IF store[h[1]][req.arg] = None THEN [req EXCEPT !.ask = @ \ {h}]
            ELSE Answered({})
  /\ UNCHANGED <<restoreVars, registered>>

\* the wrapper opens the iterators of all instances, one after the other
OpenIterator(h) ==
  /\ req.st = "reading" /\ req.kind = "list" /\ h \in req.ask /\ Open(h)
  /\ req' = [req EXCEPT !.ask = @ \ {h},
                        !.rows = @ \cup {Row(h[1], k) : k \in Held(store[h[1]])}]
  /\ UNCHANGED <<restoreVars, registered>>

\* the store was closed under the reader: the handler panics
GetClosed(h) ==
  /\ req.st = "reading" /\ req.kind # "index" /\ h \in req.ask /\ ~Open(h)
  /\ req' = Failed
  /\ UNCHANGED <<restoreVars, registered>>

\* GetIndexedRecords: the entries of i, as they are now.  Bound: no request comes
\* before the rebuild has ended, while the index promises nothing; after it, the
\* index is right for the keys that are not being updated.
RequestIndex(p, i) ==
  LET right(k) == updating[p] = 0 \/ Changelog[updating[p]].key # k IN
  /\ rebuild = "done" /\ req.st = "idle"
  /\ req' = [st |-> "reading", kind |-> "index", arg |-> i, rows |-> {}, missed |-> {},
             ask |-> {<<p, k>> : k \in IndexRead(index[p], i)},
             sure |-> IF raced \/ p \in failed THEN {}
                      ELSE {Row(p, k) : k \in {l \in Keys : store[p][l] = i /\ right(l)}}]
  /\ UNCHANGED <<restoreVars, registered>>

\* the index's iterator fetches the value of each entry from the store, which may
\* have changed since
FetchIndexed(h) ==
  /\ req.st = "reading" /\ req.kind = "index" /\ h \in req.ask
  /\ req' = [req EXCEPT !.ask = @ \ {h}, !.rows = @ \cup {Row(h[1], h[2])}]
  /\ UNCHANGED <<restoreVars, registered>>

\* the iterator over several stores ends when the last of them has ended
Exhausted == req.st = "reading" /\ req.ask = {}
Complete ==
  /\ Exhausted
  /\ req' = Answered(req.sure \ req.rows)
  /\ UNCHANGED <<restoreVars, registered>>

Query ==
  \/ Unknown \/ RequestAll \/ Complete
  \/ \E k \in Keys : Request(k)
  \/ \E q \in IndexQueries : RequestIndex(q[1], q[2])
  \/ \E h \in req.ask : Get(h) \/ OpenIterator(h) \/ GetClosed(h) \/ FetchIndexed(h)

\* what a step of the restores does to a request: a row that changes or whose
\* store is closed is no longer sure
Meanwhile ==
  /\ req' = [req EXCEPT !.sure = {r \in @ :
                store'[r.of][r.key] = r.val /\ (kind = "local" => task'[r.of] = "up")}]
  /\ UNCHANGED registered

Next ==
  \/ (kind = "global" \/ registered) /\ RestoreStep /\ Meanwhile
  \/ Query \/ Register

\* the poll loop, the runner and the syncers are scheduled; restores, stops,
\* writes, failures and requests may never come
Spec ==
  /\ Init /\ [][Next]_vars
  /\ WF_vars(PollLoop /\ Meanwhile) /\ WF_vars(Rebuild /\ Meanwhile)
  /\ \A p \in Partitions : WF_vars(Syncer(p) /\ Meanwhile)

-----------------------------------------------------------------------------
\* An answer misses no row that was there from the moment the request listed
\* what to read: Get finds a value, a listing and an index query every one.
FoundIfHeld == req.missed = {}
=============================================================================
