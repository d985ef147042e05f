------------------------------- MODULE Topology -------------------------------
(***************************************************************************)
(* The DSL that builds a topology: StreamBuilder (streams/                 *)
(* stream_builder.go), kStream, kTableStream and BranchedStream (streams/  *)
(* kstream.go, ktable_stream.go, stream.go) over the list of               *)
(* sub-topologies (ktopology_builder.go, ksub_topology_builder.go).        *)
(*                                                                         *)
(* Node, store builder and stream handle are Go pointers: here they are    *)
(* positions in sequences that only grow.  What matters is who holds a     *)
(* pointer to what: a handle keeps the sub-topology it was derived from    *)
(* also after that sub-topology was merged into another one.               *)
(***************************************************************************)
EXTENDS Naturals, Sequences, FiniteSets, SequencesExt

CONSTANTS
  Topics,      \* topic names the program may consume from or produce to
  RepTopics,   \* names it gives to Repartition
  Stores,      \* names it gives to state stores
  GStores,     \* names it gives to global tables
  Processors,  \* the one-in one-out processors it uses
  Rekeyers,    \* the processors that change keys it uses
  Calls        \* bound: for each step of a program, the DSL calls it may make

NoTopic == <<"none", 0>>
NoStore == "none"
OneToOne == {"value_mapper", "filter", "for", "flatmap_values", "processor"}
AllCalls == {"KStream", "AutoKStream", "GlobalTable", "Process", "Rekey", "Branch", "Split",
             "Aggregate", "JoinGlobalTable", "JoinTable", "ToTable", "Through", "Merge", "To",
             "Repartition", "AddStateStore", "TableProcess", "TableJoin"}

ASSUME TopologyAssumption ==
  /\ NoStore \notin Stores \cup GStores
  /\ Processors \subseteq OneToOne
  /\ Rekeyers \subseteq {"map", "key_selector", "flatmap"}
  /\ Calls \in Seq(SUBSET AllCalls)

VARIABLES
  tp,     \* node: every node builder ever made; store: every store builder;
          \* sub: every sub-topology; live: those of kTopologyBuilder
  stream, \* every stream, table and split handle the program holds
  calls,  \* DSL calls made
  stale,  \* history: a call went through a handle whose sub-topology was merged away
  phase   \* "dsl", "panic", or what Build and Reset left

dslVars == <<tp, stream, calls, stale, phase>>

\* as: the source whose partition count is taken over; cop: the source this one
\* must be co-partitioned with; marks: history, all it was ever told
Node(kind) ==
  [kind |-> kind, sub |-> 0, id |-> 0, topic |-> NoTopic, fmt |-> FALSE,
   auto |-> FALSE, as |-> 0, cop |-> 0, marks |-> {}, count |-> 0, store |-> NoStore]
Source(topic) == [Node("kSource") EXCEPT !.topic = topic]
Sink(topic, fmt) == [Node("sink") EXCEPT !.topic = topic, !.fmt = fmt]
WithStore(kind, store) == [Node(kind) EXCEPT !.store = store]
StoreBuilder(name, changelog) == [name |-> name, changelog |-> changelog, internal |-> FALSE]

EmptyTopology == [node |-> <<>>, store |-> <<>>, sub |-> <<>>, live |-> {}]

-----------------------------------------------------------------------------
(* kTopologyBuilder and kSubTopologyBuilder.  Each operator returns the    *)
(* topology that the method leaves.                                        *)

NewNode(T, n) == [T EXCEPT !.node = Append(@, n)]
Last1(T) == Len(T.node)
NewSub(T, kind) ==
  LET s == Len(T.sub) + 1
  IN [T EXCEPT !.sub = Append(@, [kind |-> kind, nodes |-> <<>>, edges |-> <<>>, stores |-> {}]),
               !.live = @ \cup {s}]
RemoveSubTopology(T, s) == [T EXCEPT !.live = @ \ {s}]

AddNode(T, s, n) ==
  [T EXCEPT !.node[n].id = Len(T.sub[s].nodes), !.node[n].sub = s,
            !.sub[s].nodes = Append(@, n)]
AddEdge(T, s, p, n) == [T EXCEPT !.sub[s].edges = Append(@, <<p, n>>)]
AddNodeWithEdge(T, s, p, n) == AddEdge(AddNode(T, s, n), s, p, n)

\* stores is a map by name: a second store of the name replaces the first
AddStore(T, s, b) ==
  [T EXCEPT !.sub[s].stores = {c \in @ : T.store[c].name # T.store[b].name} \cup {b}]
RemoveAll(T, s) == [T EXCEPT !.sub[s].nodes = <<>>, !.sub[s].edges = <<>>]
\* what s is after the lists and stores of o were added to it
Extended(T, s, o) ==
  [T EXCEPT !.sub[s].nodes = @ \o T.sub[o].nodes, !.sub[s].edges = @ \o T.sub[o].edges,
            !.sub[s].stores = {c \in @ : \A b \in T.sub[o].stores : T.store[c].name # T.store[b].name}
                                \cup T.sub[o].stores]
\* Mutant: moved nodes keep the ids of the sub-topology they come from.
MergeKeepsIds(T, s, o) == RemoveAll(Extended(T, s, o), o)
\* the moved nodes are numbered on; a merger is listed once per parent, and
\* numbered by its last place
Renumbered(T, s, o) ==
  LET moved == T.sub[o].nodes
      LastPlace(n) == CHOOSE i \in DOMAIN moved :
                        moved[i] = n /\ \A j \in DOMAIN moved : moved[j] = n => j <= i
      Id(n) == Len(T.sub[s].nodes) + LastPlace(n) - 1
  IN [T EXCEPT !.node = [n \in DOMAIN T.node |->
                           IF n \in Range(moved) THEN [T.node[n] EXCEPT !.id = Id(n), !.sub = s]
                           ELSE T.node[n]]]
\* Mutant: the stores stay behind.
MergeWithoutStores(T, s, o) ==
  RemoveAll([Extended(Renumbered(T, s, o), s, o) EXCEPT !.sub[s].stores = T.sub[s].stores], o)
MergeSubTopology(T, s, o) == RemoveAll(Extended(Renumbered(T, s, o), s, o), o)

\* kStream.merge: import the other sub-topology, drop it from the list
Merged(T, s, o) == IF s = o THEN T ELSE RemoveSubTopology(MergeSubTopology(T, s, o), o)

SourcesOf(T, s) == {T.sub[s].nodes[i] : i \in DOMAIN T.sub[s].nodes}
                     \cap {n \in DOMAIN T.node : T.node[n].kind = "kSource"}
SourceTopicsFor(T, kind) ==
  {T.node[n].topic : n \in UNION {SourcesOf(T, s) : s \in {x \in T.live : T.sub[x].kind = kind}}}

\* joins and merges mark a source; a second mark overwrites the first
ShouldCoPartitionedWith(T, n, m) ==
  [T EXCEPT !.node[n].cop = m, !.node[n].marks = @ \cup {m}]

-----------------------------------------------------------------------------
(* Stream handles.                                                         *)

Handle(s, root, src) ==
  [stp |-> s, root |-> root, src |-> src, marked |-> FALSE, rep |-> FALSE,
   table |-> 0, split |-> 0, global |-> FALSE]
newChildStream(k, node) == [k EXCEPT !.root = node, !.table = 0, !.split = 0]
newChildTable(k, node) == [k EXCEPT !.root = node]
maybeRepartitioned(k) == [k EXCEPT !.marked = TRUE]

Streams == {h \in DOMAIN stream : stream[h].table = 0 /\ stream[h].split = 0 /\ ~stream[h].global}
Tables == {h \in DOMAIN stream : stream[h].table # 0 /\ ~stream[h].global}
Globals == {h \in DOMAIN stream : stream[h].global}
Splits == {h \in DOMAIN stream : stream[h].split # 0}
Stale(h) == stream[h].stp \notin tp.live

Call(name) == phase = "dsl" /\ calls < Len(Calls) /\ name \in Calls[calls + 1]
Returns(T, hs, through) ==
  /\ tp' = T
  /\ stream' = stream \o hs
  /\ calls' = calls + 1
  /\ stale' = (stale \/ \E h \in through : Stale(h))
  /\ UNCHANGED phase
Panics == phase' = "panic" /\ UNCHANGED <<tp, stream, calls, stale>>

\* the call's new node below the handle's root, in the handle's sub-topology
Below(h, n) == AddNodeWithEdge(NewNode(tp, n), stream[h].stp, stream[h].root, Last1(tp) + 1)
Child(h) == newChildStream(stream[h], Last1(tp) + 1)

-----------------------------------------------------------------------------
(* StreamBuilder.                                                          *)

KStream(topic, auto) ==
  /\ Call(IF auto THEN "AutoKStream" ELSE "KStream")
  /\ IF <<topic, 0>> \in SourceTopicsFor(tp, "stream") \cup SourceTopicsFor(tp, "table")
     THEN Panics
     ELSE LET n == Last1(tp) + 1
              s == Len(tp.sub) + 1
              T == NewNode(NewSub(tp, "stream"), [Source(<<topic, 0>>) EXCEPT !.auto = auto])
          IN Returns(AddNode(T, s, n), <<Handle(s, n, n)>>, {})

\* the table's store reads the source topic as its changelog
GlobalTable(topic, store) ==
  LET n == Last1(tp) + 1
      s == Len(tp.sub) + 1
      b == Len(tp.store) + 1
      T == NewNode(NewNode(NewSub(tp, "global-table"), Source(<<topic, 0>>)),
                   WithStore("global_table_processor", store))
      U == [T EXCEPT !.store = Append(@, StoreBuilder(store, <<topic, 0>>))]
  IN /\ Call("GlobalTable")
     /\ Returns(AddNodeWithEdge(AddStore(AddNode(U, s, n), s, b), s, n, n + 1),
                <<[Handle(s, n, n) EXCEPT !.global = TRUE, !.table = b]>>, {})

-----------------------------------------------------------------------------
(* kStream.                                                                *)

\* MapValue, Filter, Each, FlatMapValues, NewProcessor, TransformValues
Process(h, kind) ==
  /\ Call("Process")
  /\ Returns(Below(h, Node(kind)), <<Child(h)>>, {h})

\* Map and SelectKey mark the child unless the caller disabled it; FlatMap always
Rekey(h, kind, disableRepartition) ==
  /\ Call("Rekey")
  /\ Returns(Below(h, Node(kind)),
             <<IF disableRepartition /\ kind # "flatmap" THEN Child(h)
               ELSE maybeRepartitioned(Child(h))>>, {h})

Branch(h) ==
  LET s == stream[h].stp
      b == Last1(tp) + 1
      T == AddNodeWithEdge(NewNode(Below(h, Node("splitter")), Node("branch")), s, b, b + 1)
      U == AddNodeWithEdge(NewNode(T, Node("branch")), s, b, b + 2)
  IN /\ Call("Branch")
     /\ Returns(U, <<newChildStream(stream[h], b + 1), newChildStream(stream[h], b + 2)>>, {h})

Split(h) ==
  /\ Call("Split")
  /\ Returns(Below(h, Node("splitter")), <<[Child(h) EXCEPT !.split = h]>>, {h})

\* BranchedStream.New: the sub-topology is the parent stream's, now
SplitNew(h) ==
  LET parent == stream[h].split
      n == Last1(tp) + 1
  IN /\ Call("Split")
     /\ Returns(AddNodeWithEdge(NewNode(tp, Node("branch")), stream[parent].stp, stream[h].root, n),
                <<newChildStream(stream[parent], n)>>, {parent})

\* aggregate; a marked stream is first sent through Repartition(``), which
\* panics because no option names a topic
Aggregate(h, store) ==
  LET k == stream[h]
      b == Len(tp.store) + 1
      T == AddStore([tp EXCEPT !.store = Append(@, StoreBuilder(store, NoTopic))], k.stp, b)
      n == Last1(tp) + 1
  IN /\ Call("Aggregate")
     /\ IF ~k.rep /\ k.marked
        THEN Panics
        ELSE Returns(AddNodeWithEdge(NewNode(T, WithStore("aggregator", store)), k.stp, k.root, n),
                     <<[newChildStream(k, n) EXCEPT !.table = b]>>, {h})

\* JoinGlobalTable, LeftJoinGlobalTable; also on a table, which stays one
JoinGlobalTable(h, g) ==
  /\ Call("JoinGlobalTable")
  /\ Returns(Below(h, WithStore("GTableJoiner", tp.store[stream[g].table].name)),
             <<newChildTable(stream[h], Last1(tp) + 1)>>, {h})

\* JoinTable, LeftJoinTable
JoinTable(h, t) ==
  LET k == stream[h]
      b == stream[t].table
      T == AddStore(ShouldCoPartitionedWith(tp, stream[t].src, k.src), k.stp, b)
      U == Merged(T, k.stp, stream[t].stp)
      n == Last1(tp) + 1
  IN /\ Call("JoinTable")
     /\ IF k.marked
        THEN Panics
        ELSE /\ tp' = AddNodeWithEdge(NewNode(U, WithStore("joiner", tp.store[b].name)), k.stp, k.root, n)
             /\ stream' = Append([stream EXCEPT ![t].stp = k.stp], newChildStream(k, n))
             /\ calls' = calls + 1
             /\ stale' = (stale \/ Stale(h) \/ Stale(t))
             /\ UNCHANGED phase

ToTable(h, store, useSourceAsChangelog) ==
  LET k == stream[h]
      b == Len(tp.store) + 1
      changelog == IF useSourceAsChangelog THEN tp.node[k.src].topic ELSE NoTopic
      T == AddStore([tp EXCEPT !.store = Append(@, StoreBuilder(store, changelog))], k.stp, b)
      n == Last1(tp) + 1
  IN /\ Call("ToTable")
     /\ Returns(AddNodeWithEdge(NewNode(T, WithStore("to_table", store)), k.stp, k.root, n),
                <<[newChildStream(k, n) EXCEPT !.table = b]>>, {h})

\* a sink below the handle, and a new sub-topology that consumes the topic
ThroughTopic(h, sink, source) ==
  LET T == NewSub(NewNode(Below(h, sink), source), "stream")
      n == Last1(tp) + 2
  IN AddNode(T, Len(T.sub), n)
Through(h, topic) ==
  /\ Call("Through")
  /\ Returns(ThroughTopic(h, Sink(<<topic, 0>>, FALSE), Source(<<topic, 0>>)),
             <<Handle(Len(tp.sub) + 1, Last1(tp) + 2, Last1(tp) + 2)>>, {h})

\* both names pass the formatter at set-up; the source is created with as
\* many partitions as the stream's own source has
Repartition(h, topic) ==
  /\ Call("Repartition")
  /\ Returns(ThroughTopic(h, Sink(<<topic, 0>>, TRUE),
                          [Source(<<topic, 0>>) EXCEPT !.fmt = TRUE, !.auto = TRUE,
                                                       !.as = stream[h].src]),
             <<[Handle(Len(tp.sub) + 1, Last1(tp) + 2, Last1(tp) + 2) EXCEPT !.rep = TRUE]>>, {h})

To(h, topic) ==
  /\ Call("To")
  /\ Returns(Below(h, Sink(<<topic, 0>>, FALSE)), <<>>, {h})

Merge(h, o) ==
  LET k == stream[h]
      T == Merged(ShouldCoPartitionedWith(tp, stream[o].src, k.src), k.stp, stream[o].stp)
      n == Last1(tp) + 1
      U == AddNodeWithEdge(NewNode(T, Node("merger")), k.stp, k.root, n)
  IN /\ Call("Merge")
     /\ tp' = AddNodeWithEdge(U, k.stp, stream[o].root, n)
     /\ stream' = Append([stream EXCEPT ![o].stp = k.stp], newChildStream(k, n))
     /\ calls' = calls + 1
     /\ stale' = (stale \/ Stale(h) \/ Stale(o))
     /\ UNCHANGED phase

AddStateStore(h, store) ==
  /\ Call("AddStateStore")
  /\ Returns(AddStore([tp EXCEPT !.store = Append(@, StoreBuilder(store, NoTopic))],
                      stream[h].stp, Len(tp.store) + 1), <<>>, {h})

-----------------------------------------------------------------------------
(* kTableStream.                                                           *)

\* Filter and Each of a table
TableProcess(t, kind) ==
  /\ Call("TableProcess")
  /\ Returns(Below(t, Node(kind)), <<newChildTable(stream[t], Last1(tp) + 1)>>, {t})

ToStream(t) ==
  /\ Call("TableProcess")
  /\ Returns(tp, <<newChildStream(stream[t], stream[t].root)>>, {t})

\* Join, LeftJoin, RightJoin, OuterJoin: two joiners, each reading the other
\* side's store, below one merger
TableJoin(t, o) ==
  LET k == stream[t]
      b == stream[o].table
      s == k.stp
      n == Last1(tp) + 1
      T == AddStore(ShouldCoPartitionedWith(tp, stream[o].src, k.src), s, b)
      U == NewNode(NewNode(NewNode(Merged(T, s, stream[o].stp),
                                   WithStore("joiner", tp.store[b].name)),
                           WithStore("joiner", tp.store[k.table].name)), Node("merger"))
      V == AddNodeWithEdge(AddNodeWithEdge(U, s, k.root, n), s, stream[o].root, n + 1)
  IN /\ Call("TableJoin")
     /\ tp' = AddNodeWithEdge(AddNodeWithEdge(V, s, n, n + 2), s, n + 1, n + 2)
     /\ stream' = Append([stream EXCEPT ![o].stp = s], newChildTable(k, n + 2))
     /\ calls' = calls + 1
     /\ stale' = (stale \/ Stale(t) \/ Stale(o))
     /\ UNCHANGED phase

-----------------------------------------------------------------------------
DslInit ==
  /\ tp = EmptyTopology
  /\ stream = <<>>
  /\ calls = 0
  /\ stale = FALSE
  /\ phase = "dsl"

StreamCall(h) ==
  \/ \E kind \in Processors : Process(h, kind)
  \/ \E kind \in Rekeyers, d \in BOOLEAN : Rekey(h, kind, d)
  \/ Branch(h)
  \/ Split(h)
  \/ \E s \in Stores : Aggregate(h, s) \/ AddStateStore(h, s)
  \/ \E s \in Stores, c \in BOOLEAN : ToTable(h, s, c)
  \/ \E g \in Globals : JoinGlobalTable(h, g)
  \/ \E t \in Tables : JoinTable(h, t)
  \/ \E t \in Topics : Through(h, t) \/ To(h, t)
  \/ \E t \in RepTopics : Repartition(h, t)
  \/ \E o \in Streams : Merge(h, o)

TableCall(t) ==
  \/ \E kind \in Processors \cap {"filter", "for"} : TableProcess(t, kind)
  \/ ToStream(t)
  \/ \E g \in Globals : JoinGlobalTable(t, g)
  \/ \E o \in Tables : TableJoin(t, o)

Dsl ==
  \/ \E t \in Topics, auto \in BOOLEAN : KStream(t, auto)
  \/ \E t \in Topics, s \in GStores : GlobalTable(t, s)
  \/ \E h \in Streams : StreamCall(h)
  \/ \E h \in Splits : SplitNew(h)
  \/ \E t \in Tables : TableCall(t)
=============================================================================
