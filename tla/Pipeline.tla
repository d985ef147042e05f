------------------------------ MODULE Pipeline ------------------------------
(***************************************************************************)
(* The running form of a sub-topology: kSubTopologyBuilder.Build wires the *)
(* built nodes by their ids, graphViz draws them, kSubTopology gives a     *)
(* node its store, and the Run methods of the nodes (streams/processors,   *)
(* ksource.go, ksink.go) pass a record on, depth first, in edge order.     *)
(*                                                                         *)
(* What the user's functions and the stores answer is an outcome:          *)
(*   fail    the node that returns an error, or 0                          *)
(*   drop    filters that say no, inner joiners that find no other side    *)
(*   take    the branches whose predicate holds                            *)
(*   copies  the records a flat map makes of one                           *)
(***************************************************************************)
EXTENDS Topology

\* Build: AddEdge on the nodes found by the ids of the declared edge
Dangling(T, s) ==
  \E i \in DOMAIN T.sub[s].edges, j \in {1, 2} :
    T.node[T.sub[s].edges[i][j]].id >= Len(T.sub[s].nodes)
BuiltEdges(T, s) ==
  [i \in DOMAIN T.sub[s].edges |->
     <<T.node[T.sub[s].edges[i][1]].id + 1, T.node[T.sub[s].edges[i][2]].id + 1>>]
DeclaredEdges(T, s) == T.sub[s].edges
\* a sink ignores the edges it is given
Children(T, s, p) ==
  IF T.node[T.sub[s].nodes[p]].kind = "sink" THEN <<>>
  ELSE LET below == SelectSeq(BuiltEdges(T, s), LAMBDA e: e[1] = p)
       IN [i \in DOMAIN below |-> below[i][2]]

\* the stores a node asks its sub-topology for when it is initialised
NeedsStore == {"aggregator", "to_table", "joiner"}
StoreExists(T, s, name) == \E b \in T.sub[s].stores : T.store[b].name = name
MissingStores(T, s) ==
  {n \in Range(T.sub[s].nodes) :
     T.node[n].kind \in NeedsStore /\ ~StoreExists(T, s, T.node[n].store)}

-----------------------------------------------------------------------------
(* Runs.  A run is the nodes visited, in order, and whether it succeeded.  *)

Visit(n, ok) == [visits |-> <<n>>, ok |-> ok]
Then(r, next) == IF ~r.ok THEN r ELSE [visits |-> r.visits \o next.visits, ok |-> next.ok]

\* Forward: the children one after the other, up to the first error
Forward(run, n, kids) == FoldLeft(LAMBDA r, c: Then(r, run[c]), Visit(n, TRUE), kids)
\* FlatMap, FlatMapValues: Forward for every record made
ForwardEach(run, n, kids, copies) ==
  FoldLeft(LAMBDA r, k: FoldLeft(LAMBDA q, c: Then(q, run[c]), r, kids),
           Visit(n, TRUE), [k \in 1 .. copies |-> k])
\* Mutant: the loop over the branches does not break.
AllTaken(T, s, kids, take) == SelectSeq(kids, LAMBDA c: T.sub[s].nodes[c] \in take)
\* Branch: only the first child whose predicate holds
FirstTaken(T, s, kids, take) ==
  LET taken == SelectSeq(kids, LAMBDA c: T.sub[s].nodes[c] \in take)
  IN IF taken = <<>> THEN <<>> ELSE <<taken[1]>>
ForwardFirst(run, n, kids) == Forward(run, n, kids)

Run(T, s, o) ==
  LET at(p) == T.sub[s].nodes[p]
      run[p \in DOMAIN T.sub[s].nodes] ==
        LET n == at(p)
            kids == Children(T, s, p)
        IN IF n \in {o.fail} \cup o.drop THEN Visit(n, n # o.fail)
           ELSE CASE T.node[n].kind = "splitter" ->
                       ForwardFirst(run, n, FirstTaken(T, s, kids, o.take))
                  [] T.node[n].kind \in {"flatmap", "flatmap_values"} ->
                       ForwardEach(run, n, kids, o.copies)
                  [] OTHER -> Forward(run, n, kids)
  IN run

\* the outcomes that tell the nodes of a sub-topology apart
Outcomes(T, s) ==
  LET nodes == Range(T.sub[s].nodes)
      Of(kinds) == {n \in nodes : T.node[n].kind \in kinds}
  IN [fail : {0} \cup nodes, drop : {{}, Of({"filter", "joiner"})},
      take : SUBSET Of({"branch"}), copies : {0, 2}]
=============================================================================
