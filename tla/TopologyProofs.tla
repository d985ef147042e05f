--------------------------- MODULE TopologyProofs ---------------------------
(***************************************************************************)
(* Proofs about TopologySetup: what the DSL makes of the graph, for        *)
(* programs of any length and any topology, and that the instances agree   *)
(* on their tasks.  The invariant is stated of a topology T rather than of *)
(* tp, because a DSL call is a chain of builder operations: one lemma per  *)
(* operation says what it keeps, and the proof of a call follows the       *)
(* chain.  P is the set of nodes that are made and not yet in any list.    *)
(***************************************************************************)
EXTENDS TopologySetup, FiniteSetTheorems, TLAPS

-----------------------------------------------------------------------------
(* The invariant.                                                          *)

TopologyFields == {"node", "store", "sub", "live"}
NodeFields == {"kind", "sub", "id", "topic", "fmt", "auto", "as", "cop", "marks", "count", "store"}
StoreFields == {"name", "changelog", "internal"}
SubRecords == [kind : {"stream", "global-table"}, nodes : Seq(Nat), edges : Seq(Nat \X Nat),
               stores : SUBSET Nat]
HandleRecords == [stp : Nat, root : Nat, src : Nat, marked : BOOLEAN, rep : BOOLEAN,
                  table : Nat, split : Nat, global : BOOLEAN]

NodesOf(T, s) == Range(T.sub[s].nodes)

\* what the fields hold; topics and counts come out of set-up and stay open
Shape(T) ==
  /\ DOMAIN T = TopologyFields
  /\ T.node \in Seq(Range(T.node))
  /\ T.store \in Seq(Range(T.store))
  /\ T.sub \in Seq(SubRecords)
  /\ T.live \subseteq DOMAIN T.sub
  /\ \A n \in DOMAIN T.node : DOMAIN T.node[n] = NodeFields
  /\ \A b \in DOMAIN T.store : DOMAIN T.store[b] = StoreFields
  /\ \A s \in DOMAIN T.sub : T.sub[s].stores \subseteq DOMAIN T.store

\* a node that is in a list knows the list and the last place it has there
KnowsPlace(T, s, n) ==
  /\ T.node[n].sub = s
  /\ T.node[n].id \in Nat
  /\ T.node[n].id + 1 \in DOMAIN T.sub[s].nodes
  /\ T.sub[s].nodes[T.node[n].id + 1] = n
  /\ \A i \in DOMAIN T.sub[s].nodes : T.sub[s].nodes[i] = n => i <= T.node[n].id + 1
Listed(T, P) ==
  \A s \in DOMAIN T.sub : \A n \in NodesOf(T, s) :
    n \in DOMAIN T.node \ P /\ KnowsPlace(T, s, n)

\* the stores that nodes ask for are there, in merged-away lists too
Stored(T) ==
  \A s \in DOMAIN T.sub : \A n \in NodesOf(T, s) :
    T.node[n].kind \in NeedsStore => StoreExists(T, s, T.node[n].store)

\* the last mark of a source is the one it is checked by; a source or a sink is
\* listed once, only mergers twice; a global table's list has one source, and
\* nothing whose topic set-up formats
TopicKinds == {"kSource", "sink"}
MarksOk(T) ==
  \A n \in DOMAIN T.node : /\ IsFiniteSet(T.node[n].marks)
                           /\ T.node[n].marks # {} => T.node[n].cop \in T.node[n].marks
OnePlace(T) ==
  \A s \in DOMAIN T.sub : \A i \in DOMAIN T.sub[s].nodes :
    T.node[T.sub[s].nodes[i]].kind \in TopicKinds => i = T.node[T.sub[s].nodes[i]].id + 1
OneGlobal(T) ==
  \A s \in DOMAIN T.sub : T.sub[s].kind = "global-table" =>
    /\ \A n \in NodesOf(T, s) : ~T.node[n].fmt
    /\ \A n, m \in NodesOf(T, s) : T.node[n].kind = "kSource" /\ T.node[m].kind = "kSource" => n = m
Tidy(T) == MarksOk(T) /\ OnePlace(T) /\ OneGlobal(T)

Good(T, P) == Shape(T) /\ P \subseteq DOMAIN T.node /\ Listed(T, P) /\ Stored(T) /\ Tidy(T)

\* a node is in a list that will be built, and edges stay in one list
Homed(T, P) ==
  \A n \in DOMAIN T.node \ P : T.node[n].sub \in T.live /\ n \in NodesOf(T, T.node[n].sub)
EdgesIn(T) ==
  \A s \in DOMAIN T.sub : \A i \in DOMAIN T.sub[s].edges :
    T.sub[s].edges[i][1] \in NodesOf(T, s) /\ T.sub[s].edges[i][2] \in NodesOf(T, s)
Sound(T, P) == Homed(T, P) /\ EdgesIn(T)

\* a handle that is not stale adds its nodes where its root is; a branched
\* stream adds them where its parent's handle points
Reaches(T, s, n) == s \in T.live => n \in NodesOf(T, s)
KnownHandle(T, hs, k) ==
  /\ k.stp \in DOMAIN T.sub
  /\ k.root \in DOMAIN T.node /\ k.src \in DOMAIN T.node
  /\ k.table \in {0} \cup DOMAIN T.store
  /\ k.split \in {0} \cup DOMAIN hs
  /\ k.table # 0 => k.split = 0 /\ StoreExists(T, k.stp, T.store[k.table].name)
  /\ k.global \/ T.sub[k.stp].kind = "stream"
RootedHandle(T, hs, k) ==
  /\ Reaches(T, k.stp, k.root)
  /\ k.split # 0 => Reaches(T, hs[k.split].stp, k.root)
Handles(T, hs) == hs \in Seq(HandleRecords) /\ \A h \in DOMAIN hs : KnownHandle(T, hs, hs[h])
Rooted(T, hs) == \A h \in DOMAIN hs : RootedHandle(T, hs, hs[h])

\* what holds of every program, and of one that used no stale handle
GraphOk(T, hs) == Good(T, {}) /\ Handles(T, hs)
NoneLost(T, hs) == Sound(T, {}) /\ Rooted(T, hs)
GraphInv ==
  /\ GraphOk(tp, stream)
  /\ stale \in BOOLEAN
  /\ ~stale => NoneLost(tp, stream)

\* Repartition makes its sink and then the source of the same topic
PairedWith(nd, next) == next.kind = "kSource" /\ next.fmt /\ next.auto /\ next.topic = nd.topic
Pairs(T) ==
  \A n \in DOMAIN T.node : T.node[n].kind = "sink" /\ T.node[n].fmt =>
    n + 1 \in DOMAIN T.node /\ PairedWith(T.node[n], T.node[n + 1])

\* a task list is what Generate made of the topology's sources and of the
\* partitions known then; neither the topology nor the broker changes any more
PartitionsBut(u) ==
  UNION {{t} \X (0 .. (broker[t] - 1)) : t \in (SourceTopics \cap DOMAIN broker) \ u}
TaskInv ==
  /\ gens \in Seq(Range(gens))
  /\ gens # <<>> => phase = "built"
  /\ \A i \in DOMAIN gens : \E u \in SUBSET SourceTopics, up \in BOOLEAN :
       gens[i] = Generate(StreamSources(tp), PartitionsBut(u), up)

\* a node is made; it is put into a list
Plus(P, n) == P \cup {n}
Minus(P, n) == P \ {n}
MayAdd(T, P, s, n) == n \in P \/ (n \in NodesOf(T, s) /\ T.node[n].kind \notin TopicKinds)
Fits(T, s, nd) ==
  /\ nd.kind \in NeedsStore => StoreExists(T, s, nd.store)
  /\ T.sub[s].kind = "global-table" => ~nd.fmt /\ (nd.kind = "kSource" => NodesOf(T, s) = {})
FreshNode(nd) == DOMAIN nd = NodeFields /\ nd.marks = {}
\* what most calls make
Simple(nd) == FreshNode(nd) /\ ~nd.fmt /\ nd.kind \notin NeedsStore \cup {"kSource"}

-----------------------------------------------------------------------------
(* What every builder operation keeps of the topology it is given.         *)

Widens(T, U) ==
  /\ DOMAIN T.node \subseteq DOMAIN U.node
  /\ DOMAIN T.store \subseteq DOMAIN U.store
  /\ DOMAIN T.sub \subseteq DOMAIN U.sub
  /\ U.live \cap DOMAIN T.sub \subseteq T.live
  /\ \A n \in DOMAIN T.node : U.node[n].kind = T.node[n].kind /\ U.node[n].store = T.node[n].store
  /\ \A b \in DOMAIN T.store : U.store[b].name = T.store[b].name
  /\ \A s \in DOMAIN T.sub : \A name : StoreExists(T, s, name) => StoreExists(U, s, name)
  /\ \A s \in DOMAIN T.sub : s \in U.live => NodesOf(T, s) \subseteq NodesOf(U, s)
  /\ \A s \in DOMAIN T.sub : U.sub[s].kind = T.sub[s].kind
\* what it keeps of the names in the topology, if it makes none to be formatted
Grows(T, U) ==
  /\ Widens(T, U)
  /\ \A n \in DOMAIN T.node : /\ U.node[n].topic = T.node[n].topic
                              /\ U.node[n].fmt = T.node[n].fmt /\ U.node[n].auto = T.node[n].auto
  /\ \A n \in DOMAIN U.node \ DOMAIN T.node : ~U.node[n].fmt

\* A chain of operations keeps what each of them keeps.
LEMMA WidensTransitive ==
  ASSUME NEW T, NEW U, NEW V, Widens(T, U), Widens(U, V)
  PROVE  Widens(T, V)
<1>1. /\ \A b \in DOMAIN T.store : V.store[b].name = T.store[b].name
      /\ \A n \in DOMAIN T.node : V.node[n].kind = T.node[n].kind /\ V.node[n].store = T.node[n].store
  BY DEF Widens
<1>2. ASSUME NEW s \in DOMAIN T.sub, NEW name, StoreExists(T, s, name)
      PROVE  StoreExists(V, s, name)
  <2>1. StoreExists(U, s, name) /\ s \in DOMAIN U.sub
    BY <1>2 DEF Widens
  <2> QED BY <2>1 DEF Widens
<1>3. ASSUME NEW s \in DOMAIN T.sub, s \in V.live
      PROVE  NodesOf(T, s) \subseteq NodesOf(V, s)
  <2>1. s \in U.live /\ s \in DOMAIN U.sub
    BY <1>3 DEF Widens
  <2> QED BY <2>1, <1>3 DEF Widens
<1>4. \A s \in DOMAIN T.sub : V.sub[s].kind = T.sub[s].kind
  BY DEF Widens
<1> QED BY <1>1, <1>2, <1>3, <1>4 DEF Widens

LEMMA GrowsTransitive ==
  ASSUME NEW T, NEW U, NEW V, Grows(T, U), Grows(U, V)
  PROVE  Grows(T, V)
<1>1. Widens(T, V)
  BY WidensTransitive DEF Grows
<1>2. \A n \in DOMAIN T.node : n \in DOMAIN U.node
  BY DEF Grows, Widens
<1> QED BY <1>1, <1>2 DEF Grows

LEMMA GrowsWidens == \A T, U : Grows(T, U) => Widens(T, U)
BY DEF Grows

\* The pairs of sink and source stay pairs.
LEMMA PairsGrow ==
  ASSUME NEW T, NEW U, Grows(T, U), Pairs(T)
  PROVE  Pairs(U)
<1> SUFFICES ASSUME NEW n \in DOMAIN U.node, U.node[n].kind = "sink", U.node[n].fmt
             PROVE  n + 1 \in DOMAIN U.node /\ PairedWith(U.node[n], U.node[n + 1])
  BY DEF Pairs
<1>1. n \in DOMAIN T.node /\ T.node[n].kind = "sink" /\ T.node[n].fmt
  BY DEF Grows, Widens
<1>2. n + 1 \in DOMAIN T.node /\ PairedWith(T.node[n], T.node[n + 1])
  BY <1>1 DEF Pairs
<1> QED BY <1>1, <1>2 DEF Grows, Widens, PairedWith

\* An edge or a record field of the model's tuples and sequences, untyped.
LEMMA AppendAny ==
  ASSUME NEW s, s \in Seq(Range(s)), NEW e
  PROVE  /\ Append(s, e) \in Seq(Range(Append(s, e)))
         /\ DOMAIN s = 1 .. Len(s) /\ Len(s) \in Nat
         /\ Len(Append(s, e)) = Len(s) + 1
         /\ DOMAIN Append(s, e) = DOMAIN s \cup {Len(s) + 1}
         /\ Len(s) + 1 \notin DOMAIN s
         /\ Append(s, e)[Len(s) + 1] = e
         /\ \A i \in DOMAIN s : Append(s, e)[i] = s[i]
<1>1. s \in Seq(Range(s) \cup {e})
  OBVIOUS
<1> QED BY <1>1 DEF Range

\* The members of a list that got one more.
LEMMA RangeAppend ==
  ASSUME NEW s, s \in Seq(Range(s)), NEW e
  PROVE  Range(Append(s, e)) = Range(s) \cup {e}
<1> DEFINE t == Append(s, e)
<1>1. /\ DOMAIN t = DOMAIN s \cup {Len(s) + 1} /\ t[Len(s) + 1] = e
      /\ \A i \in DOMAIN s : t[i] = s[i]
      /\ Len(s) + 1 \notin DOMAIN s
  BY AppendAny
<1> HIDE DEF t
<1> QED BY <1>1 DEF Range, t

\* What being a sequence over S says of the elements.
LEMMA SeqFacts ==
  ASSUME NEW S, NEW s \in Seq(S)
  PROVE  /\ s \in Seq(Range(s)) /\ Len(s) \in Nat /\ DOMAIN s = 1 .. Len(s)
         /\ \A i \in DOMAIN s : s[i] \in S
BY DEF Range

\* One element of a sequence is replaced.
LEMMA ReplaceIn ==
  ASSUME NEW S, NEW s \in Seq(S), NEW i \in DOMAIN s, NEW e \in S, NEW t, t = [s EXCEPT ![i] = e]
  PROVE  /\ t \in Seq(S) /\ DOMAIN t = DOMAIN s /\ Len(t) = Len(s)
         /\ t[i] = e /\ \A j \in DOMAIN s \ {i} : t[j] = s[j]
OBVIOUS

\* NewNode makes a node that is in no list yet.
LEMMA NewNodeKeeps ==
  ASSUME NEW T, NEW P, Good(T, P), NEW nd, FreshNode(nd),
         NEW U, U = NewNode(T, nd)
  PROVE  /\ Good(U, Plus(P, Len(T.node) + 1)) /\ Widens(T, U) /\ (~nd.fmt => Grows(T, U))
         /\ Sound(T, P) => Sound(U, Plus(P, Len(T.node) + 1))
         /\ Len(T.node) \in Nat /\ Len(U.node) = Len(T.node) + 1
         /\ U.node[Len(T.node) + 1] = nd
         /\ Len(T.node) + 1 \notin DOMAIN T.node
         /\ U.sub = T.sub /\ U.store = T.store /\ U.live = T.live
<1> DEFINE n == Len(T.node) + 1
<1>1. /\ U.node = Append(T.node, nd) /\ U.sub = T.sub /\ U.store = T.store /\ U.live = T.live
      /\ DOMAIN U = TopologyFields
  BY DEF NewNode, Good, Shape, TopologyFields
<1>2. /\ U.node \in Seq(Range(U.node)) /\ DOMAIN U.node = DOMAIN T.node \cup {n}
      /\ n \notin DOMAIN T.node /\ U.node[n] = nd /\ Len(U.node) = Len(T.node) + 1
      /\ Len(T.node) \in Nat
      /\ \A m \in DOMAIN T.node : U.node[m] = T.node[m]
  BY <1>1, AppendAny DEF Good, Shape
<1>3. \A s : NodesOf(U, s) = NodesOf(T, s)
  BY <1>1 DEF NodesOf
<1>4. Shape(U)
  BY <1>1, <1>2 DEF Good, Shape, FreshNode
<1>5. \A s \in DOMAIN T.sub : \A m \in NodesOf(T, s) : m \in DOMAIN T.node
  BY DEF Good, Listed
<1>6. Listed(U, P \cup {n})
  BY <1>1, <1>2, <1>3, <1>5 DEF Good, Listed, KnowsPlace
<1>7. Stored(U)
  BY <1>1, <1>2, <1>3, <1>5 DEF Good, Stored, StoreExists
<1>8. Widens(T, U) /\ (~nd.fmt => Grows(T, U))
  BY <1>1, <1>2, <1>3 DEF Grows, Widens, StoreExists
<1>9. ASSUME Sound(T, P)
      PROVE  Sound(U, P \cup {n})
  BY <1>1, <1>2, <1>3, <1>9 DEF Sound, Homed, EdgesIn
<1>10. Tidy(U)
  <2>1. MarksOk(U)
    <3>1. IsFiniteSet({})
      BY FS_EmptySet
    <3> QED BY <1>2, <3>1 DEF Good, Tidy, MarksOk, FreshNode
  <2>2. \A s \in DOMAIN T.sub : \A i \in DOMAIN T.sub[s].nodes : T.sub[s].nodes[i] \in DOMAIN T.node
    BY <1>5 DEF NodesOf, Range
  <2>3. OnePlace(U)
    BY <1>1, <1>2, <2>2 DEF Good, Tidy, OnePlace
  <2>4. OneGlobal(U)
    BY <1>1, <1>2, <1>3, <1>5 DEF Good, Tidy, OneGlobal
  <2> QED BY <2>1, <2>3, <2>4 DEF Tidy
<1> QED BY <1>1, <1>2, <1>4, <1>6, <1>7, <1>8, <1>9, <1>10 DEF Good, Plus

\* AddNode puts a node that was made, or that the list already holds, at its end.
LEMMA AddNodeKeeps ==
  ASSUME NEW T, NEW P, Good(T, P), NEW s \in DOMAIN T.sub, NEW n, MayAdd(T, P, s, n),
         Fits(T, s, T.node[n]),
         NEW U, U = AddNode(T, s, n)
  PROVE  /\ Good(U, Minus(P, n)) /\ Grows(T, U) /\ n \in NodesOf(U, s)
         /\ Sound(T, P) /\ s \in T.live => Sound(U, Minus(P, n))
         /\ Len(U.node) = Len(T.node) /\ DOMAIN U.node = DOMAIN T.node
         /\ Len(U.sub) = Len(T.sub) /\ DOMAIN U.sub = DOMAIN T.sub
         /\ U.store = T.store /\ U.live = T.live
<1> DEFINE k == Len(T.sub[s].nodes)
           l == Append(T.sub[s].nodes, n)
<1>1. /\ DOMAIN U = TopologyFields /\ U.store = T.store /\ U.live = T.live
      /\ U.node = [T.node EXCEPT ![n] = [[T.node[n] EXCEPT !.id = k] EXCEPT !.sub = s]]
      /\ U.sub = [T.sub EXCEPT ![s].nodes = l]
  BY DEF AddNode, Good, Shape, TopologyFields
<1>2. n \in DOMAIN T.node /\ n \in Nat
  BY DEF Good, Listed, Shape, MayAdd
<1>0. n \in P \cup NodesOf(T, s)
  BY DEF MayAdd
<1>3. /\ DOMAIN U.node = DOMAIN T.node /\ U.node \in Seq(Range(U.node)) /\ Len(U.node) = Len(T.node)
      /\ \A m \in DOMAIN T.node \ {n} : U.node[m] = T.node[m]
      /\ DOMAIN U.node[n] = NodeFields
      /\ U.node[n].kind = T.node[n].kind /\ U.node[n].store = T.node[n].store
      /\ U.node[n].id = k /\ U.node[n].sub = s
      /\ \A f \in NodeFields \ {"id", "sub"} : U.node[n][f] = T.node[n][f]
  <2> DEFINE e == [[T.node[n] EXCEPT !.id = k] EXCEPT !.sub = s]
  <2>1. DOMAIN T.node[n] = NodeFields /\ T.node \in Seq(Range(T.node))
    BY <1>2 DEF Good, Shape
  <2>2. /\ DOMAIN e = NodeFields /\ e.kind = T.node[n].kind /\ e.store = T.node[n].store
        /\ e.id = k /\ e.sub = s
        /\ \A f \in NodeFields \ {"id", "sub"} : e[f] = T.node[n][f]
    BY <2>1 DEF NodeFields
  <2> HIDE DEF e
  <2>3. U.node = [T.node EXCEPT ![n] = e]
    BY <1>1 DEF e
  <2>4. /\ U.node \in Seq(Range(U.node)) /\ DOMAIN U.node = DOMAIN T.node
        /\ Len(U.node) = Len(T.node)
        /\ U.node[n] = e /\ \A j \in DOMAIN T.node \ {n} : U.node[j] = T.node[j]
    <3> DEFINE S == Range(T.node) \cup {e}
    <3>1. T.node \in Seq(S) /\ e \in S /\ n \in DOMAIN T.node
      BY <1>2, <2>1
    <3> HIDE DEF S
    <3>2. /\ U.node \in Seq(S) /\ DOMAIN U.node = DOMAIN T.node /\ Len(U.node) = Len(T.node)
          /\ U.node[n] = e /\ \A j \in DOMAIN T.node \ {n} : U.node[j] = T.node[j]
      BY ONLY <3>1, <2>3, ReplaceIn
    <3>3. U.node \in Seq(Range(U.node))
      BY ONLY <3>2, SeqFacts
    <3> QED BY <3>2, <3>3
  <2> QED BY <2>2, <2>4
<1>4. T.sub[s] \in SubRecords /\ T.sub[s].nodes \in Seq(Nat) /\ T.sub \in Seq(SubRecords)
  <2>1. T.sub \in Seq(SubRecords)
    BY DEF Good, Shape
  <2>2. T.sub[s] \in SubRecords
    BY ONLY <2>1, SeqFacts, s \in DOMAIN T.sub
  <2> QED BY <2>1, <2>2 DEF SubRecords
<1>5. /\ l \in Seq(Nat) /\ DOMAIN l = DOMAIN T.sub[s].nodes \cup {k + 1} /\ l[k + 1] = n
      /\ \A i \in DOMAIN T.sub[s].nodes : l[i] = T.sub[s].nodes[i]
      /\ k \in Nat /\ DOMAIN T.sub[s].nodes = 1 .. k
      /\ Range(l) = Range(T.sub[s].nodes) \cup {n}
  <2>1. T.sub[s].nodes \in Seq(Range(T.sub[s].nodes))
    BY ONLY <1>4, SeqFacts
  <2> QED BY <1>2, <1>4, <2>1, AppendAny, RangeAppend
<1> HIDE DEF k, l
<1>6. /\ DOMAIN U.sub = DOMAIN T.sub /\ U.sub \in Seq(SubRecords) /\ Len(U.sub) = Len(T.sub)
      /\ \A q \in DOMAIN T.sub \ {s} : U.sub[q] = T.sub[q]
      /\ U.sub[s].nodes = l
      /\ U.sub[s].edges = T.sub[s].edges /\ U.sub[s].stores = T.sub[s].stores
      /\ U.sub[s].kind = T.sub[s].kind
  <2> DEFINE e == [T.sub[s] EXCEPT !.nodes = l]
  <2>1. /\ e \in SubRecords /\ e.nodes = l /\ e.edges = T.sub[s].edges
        /\ e.stores = T.sub[s].stores /\ e.kind = T.sub[s].kind
    BY <1>4, <1>5 DEF SubRecords
  <2>2. U.sub = [T.sub EXCEPT ![s] = e]
    BY <1>1
  <2> HIDE DEF e
  <2>3. /\ U.sub \in Seq(SubRecords) /\ DOMAIN U.sub = DOMAIN T.sub /\ Len(U.sub) = Len(T.sub)
        /\ U.sub[s] = e /\ \A j \in DOMAIN T.sub \ {s} : U.sub[j] = T.sub[j]
    BY ONLY <1>4, <2>1, <2>2, s \in DOMAIN T.sub, ReplaceIn
  <2> QED BY <2>1, <2>3
<1>7. /\ NodesOf(U, s) = NodesOf(T, s) \cup {n}
      /\ \A q \in DOMAIN T.sub \ {s} : NodesOf(U, q) = NodesOf(T, q)
  BY <1>5, <1>6 DEF NodesOf
<1>8. Shape(U)
  BY <1>1, <1>3, <1>6 DEF Good, Shape
<1>9. Listed(U, P \ {n})
  <2> SUFFICES ASSUME NEW q \in DOMAIN U.sub, NEW m \in NodesOf(U, q)
               PROVE  m \in DOMAIN U.node \ (P \ {n}) /\ KnowsPlace(U, q, m)
    BY DEF Listed
  <2>1. CASE m = n
    <3>1. q = s
      BY <1>0, <1>6, <1>7, <2>1 DEF Good, Listed, KnowsPlace
    <3>2. \A i \in DOMAIN l : i <= k + 1
      BY <1>5
    <3> QED BY <2>1, <3>1, <3>2, <1>2, <1>3, <1>5, <1>6 DEF KnowsPlace
  <2>2. CASE m # n
    <3>1. m \in NodesOf(T, q) /\ q \in DOMAIN T.sub
      BY <2>2, <1>6, <1>7
    <3>2. m \in DOMAIN T.node \ P /\ KnowsPlace(T, q, m)
      BY <3>1 DEF Good, Listed
    <3>3. CASE q = s
      <4>1. \A i \in DOMAIN l : l[i] = m => i \in DOMAIN T.sub[s].nodes /\ T.sub[s].nodes[i] = m
        BY <2>2, <1>5
      <4>2. U.node[m] = T.node[m] /\ U.sub[q].nodes = l /\ m \in DOMAIN U.node \ (P \ {n})
        BY <2>2, <3>2, <3>3, <1>3, <1>6
      <4>3. KnowsPlace(T, s, m)
        BY <3>2, <3>3
      <4>4. KnowsPlace(U, q, m)
        BY <4>1, <4>2, <4>3, <3>3, <1>5 DEF KnowsPlace
      <4> QED BY <4>2, <4>4
    <3>4. CASE q # s
      BY <2>2, <3>1, <3>2, <3>4, <1>0, <1>3, <1>6 DEF KnowsPlace
    <3> QED BY <3>3, <3>4
  <2> QED BY <2>1, <2>2
<1>10. \A q \in DOMAIN T.sub : \A name : StoreExists(U, q, name) <=> StoreExists(T, q, name)
  BY <1>1, <1>6 DEF StoreExists
<1>11. \A m \in DOMAIN T.node : U.node[m].kind = T.node[m].kind /\ U.node[m].store = T.node[m].store
  BY <1>3
<1>12. Stored(U)
  <2> SUFFICES ASSUME NEW q \in DOMAIN U.sub, NEW m \in NodesOf(U, q), U.node[m].kind \in NeedsStore
               PROVE  StoreExists(U, q, U.node[m].store)
    BY DEF Stored
  <2>1. q \in DOMAIN T.sub /\ (m \in NodesOf(T, q) \/ (m = n /\ q = s))
    BY <1>6, <1>7
  <2>2. m \in DOMAIN T.node
    BY <2>1, <1>2 DEF Good, Listed
  <2> QED BY <2>1, <2>2, <1>10, <1>11 DEF Good, Stored, Fits
<1>16. \A m \in DOMAIN T.node : /\ U.node[m].kind = T.node[m].kind /\ U.node[m].topic = T.node[m].topic
                               /\ U.node[m].fmt = T.node[m].fmt /\ U.node[m].auto = T.node[m].auto
                               /\ U.node[m].marks = T.node[m].marks /\ U.node[m].cop = T.node[m].cop
  BY <1>3 DEF NodeFields
<1>17. \A q \in DOMAIN T.sub : U.sub[q].kind = T.sub[q].kind
  BY <1>6
<1>13. Grows(T, U)
  <2>1. Widens(T, U)
    BY <1>1, <1>3, <1>6, <1>7, <1>10, <1>11, <1>17 DEF Widens
  <2> QED BY <2>1, <1>3, <1>16 DEF Grows
<1>18. Tidy(U)
  <2>1. MarksOk(U)
    BY <1>3, <1>16 DEF Good, Tidy, MarksOk
  <2>2. OnePlace(U)
    <3> SUFFICES ASSUME NEW q \in DOMAIN U.sub, NEW i \in DOMAIN U.sub[q].nodes,
                        U.node[U.sub[q].nodes[i]].kind \in TopicKinds
                 PROVE  i = U.node[U.sub[q].nodes[i]].id + 1
      BY DEF OnePlace
    <3>1. CASE q = s /\ i = k + 1
      BY <3>1, <1>3, <1>5, <1>6
    <3>2. CASE ~(q = s /\ i = k + 1)
      <4> DEFINE m == T.sub[q].nodes[i]
      <4>1. q \in DOMAIN T.sub /\ i \in DOMAIN T.sub[q].nodes /\ U.sub[q].nodes[i] = m
        BY <3>2, <1>5, <1>6
      <4>2. m \in NodesOf(T, q)
        BY <4>1 DEF NodesOf, Range
      <4>3. m \in DOMAIN T.node \ P /\ T.node[m].sub = q
        BY <4>1, <4>2 DEF Good, Listed, KnowsPlace
      <4>4. T.node[m].kind \in TopicKinds
        BY <4>1, <4>3, <1>16
      <4>5. m # n
        <5> SUFFICES ASSUME m = n PROVE FALSE
          OBVIOUS
        <5>1. n \in NodesOf(T, s) /\ T.node[n].kind \notin TopicKinds
          BY <4>3 DEF MayAdd
        <5> QED BY <5>1, <4>4
      <4>6. i = T.node[m].id + 1
        BY <4>1, <4>4 DEF Good, Tidy, OnePlace
      <4> QED BY <4>1, <4>3, <4>5, <4>6, <1>3
    <3> QED BY <3>1, <3>2
  <2>3. OneGlobal(U)
    <3> SUFFICES ASSUME NEW q \in DOMAIN U.sub, U.sub[q].kind = "global-table"
                 PROVE  /\ \A m \in NodesOf(U, q) : ~U.node[m].fmt
                        /\ \A m, l1 \in NodesOf(U, q) :
                             U.node[m].kind = "kSource" /\ U.node[l1].kind = "kSource" => m = l1
      BY DEF OneGlobal
    <3>1. q \in DOMAIN T.sub /\ T.sub[q].kind = "global-table"
      BY <1>6, <1>17
    <3>2. /\ \A m \in NodesOf(T, q) : ~T.node[m].fmt
          /\ \A m, l1 \in NodesOf(T, q) :
               T.node[m].kind = "kSource" /\ T.node[l1].kind = "kSource" => m = l1
      BY <3>1 DEF Good, Tidy, OneGlobal
    <3>3. \A m \in NodesOf(T, q) : m \in DOMAIN T.node
      BY <3>1 DEF Good, Listed
    <3>4. CASE q # s
      BY <3>1, <3>2, <3>3, <3>4, <1>7, <1>16
    <3>5. CASE q = s
      <4>1. ~T.node[n].fmt /\ (T.node[n].kind = "kSource" => NodesOf(T, s) = {})
        BY <3>1, <3>5 DEF Fits
      <4> QED BY <3>2, <3>3, <3>5, <4>1, <1>2, <1>7, <1>16
    <3> QED BY <3>4, <3>5
  <2> QED BY <2>1, <2>2, <2>3 DEF Tidy
<1>14. ASSUME Sound(T, P), s \in T.live
       PROVE  Sound(U, P \ {n})
  <2>1. Homed(U, P \ {n})
    <3> SUFFICES ASSUME NEW m \in DOMAIN T.node \ (P \ {n})
                 PROVE  U.node[m].sub \in T.live /\ m \in NodesOf(U, U.node[m].sub)
      BY <1>1, <1>3 DEF Homed
    <3>1. CASE m = n
      BY <3>1, <1>3, <1>7, <1>14
    <3>2. CASE m # n
      <4>1. U.node[m] = T.node[m] /\ T.node[m].sub \in T.live /\ m \in NodesOf(T, T.node[m].sub)
        BY <3>2, <1>3, <1>14 DEF Sound, Homed
      <4>2. T.node[m].sub \in DOMAIN T.sub
        BY <4>1 DEF Good, Shape
      <4> QED BY <4>1, <4>2, <1>7
    <3> QED BY <3>1, <3>2
  <2>2. EdgesIn(U)
    BY <1>6, <1>7, <1>14 DEF Sound, EdgesIn
  <2> QED BY <2>1, <2>2 DEF Sound
<1>15. P \ {n} \subseteq DOMAIN U.node
  BY <1>3 DEF Good
<1> QED BY <1>1, <1>3, <1>6, <1>7, <1>8, <1>9, <1>12, <1>13, <1>14, <1>15, <1>18 DEF Good, Minus

\* What an operation keeps that moves no node and loses no store; and what one
\* keeps besides that changes no name.
SamePlaces(T, U) ==
  /\ Shape(U) /\ U.live = T.live
  /\ DOMAIN U.node = DOMAIN T.node
  /\ \A n \in DOMAIN T.node : /\ U.node[n].kind = T.node[n].kind /\ U.node[n].store = T.node[n].store
                              /\ U.node[n].sub = T.node[n].sub /\ U.node[n].id = T.node[n].id
                              /\ U.node[n].fmt = T.node[n].fmt
  /\ MarksOk(U)
  /\ DOMAIN U.sub = DOMAIN T.sub
  /\ \A s \in DOMAIN T.sub : U.sub[s].nodes = T.sub[s].nodes /\ U.sub[s].kind = T.sub[s].kind
  /\ DOMAIN T.store \subseteq DOMAIN U.store
  /\ \A b \in DOMAIN T.store : U.store[b].name = T.store[b].name
  /\ \A s \in DOMAIN T.sub : \A name : StoreExists(T, s, name) => StoreExists(U, s, name)
SameLists(T, U) ==
  /\ SamePlaces(T, U)
  /\ \A n \in DOMAIN T.node : U.node[n].topic = T.node[n].topic /\ U.node[n].auto = T.node[n].auto

\* Such an operation keeps the invariant, and soundness if it adds no edge.
LEMMA SamePlacesKeeps ==
  ASSUME NEW T, NEW P, Good(T, P), NEW U, SamePlaces(T, U)
  PROVE  /\ Good(U, P) /\ Widens(T, U)
         /\ \A s \in DOMAIN T.sub : NodesOf(U, s) = NodesOf(T, s)
         /\ Homed(T, P) => Homed(U, P)
         /\ Sound(T, P) /\ (\A s \in DOMAIN T.sub : U.sub[s].edges = T.sub[s].edges) => Sound(U, P)
<1>1. \A s \in DOMAIN T.sub : NodesOf(U, s) = NodesOf(T, s)
  BY DEF SamePlaces, NodesOf
<1>2. \A s \in DOMAIN T.sub : \A n \in NodesOf(T, s) : n \in DOMAIN T.node \ P /\ KnowsPlace(T, s, n)
  BY DEF Good, Listed
<1>3. Listed(U, P)
  <2> SUFFICES ASSUME NEW s \in DOMAIN U.sub, NEW n \in NodesOf(U, s)
               PROVE  n \in DOMAIN U.node \ P /\ KnowsPlace(U, s, n)
    BY DEF Listed
  <2>1. s \in DOMAIN T.sub /\ n \in DOMAIN T.node \ P /\ KnowsPlace(T, s, n)
    BY <1>1, <1>2 DEF SamePlaces
  <2> QED BY <2>1 DEF SamePlaces, KnowsPlace
<1>4. Stored(U)
  <2> SUFFICES ASSUME NEW s \in DOMAIN U.sub, NEW n \in NodesOf(U, s), U.node[n].kind \in NeedsStore
               PROVE  StoreExists(U, s, U.node[n].store)
    BY DEF Stored
  <2>1. s \in DOMAIN T.sub /\ n \in NodesOf(T, s) /\ n \in DOMAIN T.node
    BY <1>1, <1>2 DEF SamePlaces
  <2> QED BY <2>1 DEF SamePlaces, Good, Stored
<1>5. Widens(T, U)
  BY <1>1 DEF Widens, SamePlaces
<1>6. Homed(T, P) => Homed(U, P)
  BY <1>1 DEF Homed, SamePlaces, Good, Shape
<1>7. ASSUME EdgesIn(T), \A s \in DOMAIN T.sub : U.sub[s].edges = T.sub[s].edges
      PROVE  EdgesIn(U)
  BY <1>1, <1>7 DEF EdgesIn, SamePlaces
<1>8. Tidy(U)
  <2>1. \A s \in DOMAIN T.sub : \A i \in DOMAIN T.sub[s].nodes : T.sub[s].nodes[i] \in DOMAIN T.node
    BY <1>2 DEF NodesOf, Range
  <2>2. OnePlace(U)
    BY <2>1 DEF SamePlaces, Good, Tidy, OnePlace
  <2>3. OneGlobal(U)
    BY <1>1, <1>2 DEF SamePlaces, Good, Tidy, OneGlobal
  <2> QED BY <2>2, <2>3 DEF Tidy, SamePlaces
<1> QED BY <1>1, <1>3, <1>4, <1>5, <1>6, <1>7, <1>8 DEF Good, SamePlaces, Sound

LEMMA SameListsKeeps ==
  ASSUME NEW T, NEW P, Good(T, P), NEW U, SameLists(T, U)
  PROVE  /\ Good(U, P) /\ Grows(T, U)
         /\ \A s \in DOMAIN T.sub : NodesOf(U, s) = NodesOf(T, s)
         /\ Homed(T, P) => Homed(U, P)
         /\ Sound(T, P) /\ (\A s \in DOMAIN T.sub : U.sub[s].edges = T.sub[s].edges) => Sound(U, P)
<1>1. SamePlaces(T, U)
  BY DEF SameLists
<1>2. Grows(T, U)
  BY <1>1, SamePlacesKeeps DEF Grows, SameLists, SamePlaces
<1> QED BY <1>1, <1>2, SamePlacesKeeps

\* The fields of a sub-topology.
LEMMA SubFacts ==
  ASSUME NEW T, Shape(T), NEW s \in DOMAIN T.sub
  PROVE  /\ T.sub[s] \in SubRecords /\ T.sub[s].nodes \in Seq(Nat)
         /\ T.sub[s].edges \in Seq(Nat \X Nat)
         /\ T.sub[s].stores \subseteq DOMAIN T.store
<1>1. T.sub \in Seq(SubRecords)
  BY DEF Shape
<1>2. T.sub[s] \in SubRecords
  BY ONLY <1>1, SeqFacts, s \in DOMAIN T.sub
<1> QED BY <1>2 DEF SubRecords, Shape

\* AddEdge.
LEMMA AddEdgeKeeps ==
  ASSUME NEW T, NEW P, Good(T, P), NEW s \in DOMAIN T.sub,
         NEW p \in DOMAIN T.node, NEW n \in DOMAIN T.node,
         NEW U, U = AddEdge(T, s, p, n)
  PROVE  /\ SameLists(T, U) /\ Len(U.node) = Len(T.node) /\ Len(U.sub) = Len(T.sub)
         /\ U.store = T.store
         /\ Sound(T, P) /\ p \in NodesOf(T, s) /\ n \in NodesOf(T, s) => Sound(U, P)
<1> DEFINE l == Append(T.sub[s].edges, <<p, n>>)
           e == [T.sub[s] EXCEPT !.edges = l]
<1>1. /\ DOMAIN U = TopologyFields /\ U.store = T.store /\ U.live = T.live
      /\ U.node = T.node /\ U.sub = [T.sub EXCEPT ![s] = e]
  BY DEF AddEdge, Good, Shape, TopologyFields
<1>2. p \in Nat /\ n \in Nat
  BY DEF Good, Shape
<1>3. /\ T.sub[s] \in SubRecords /\ T.sub[s].edges \in Seq(Nat \X Nat)
      /\ T.sub[s].stores \subseteq DOMAIN T.store
  BY SubFacts DEF Good
<1>4. /\ l \in Seq(Nat \X Nat)
      /\ \A i \in DOMAIN l : \/ i \in DOMAIN T.sub[s].edges /\ l[i] = T.sub[s].edges[i]
                             \/ l[i][1] = p /\ l[i][2] = n
  <2> DEFINE w == <<p, n>>
  <2>1. T.sub[s].edges \in Seq(Range(T.sub[s].edges))
    BY ONLY <1>3, SeqFacts
  <2>2. w \in Nat \X Nat /\ w[1] = p /\ w[2] = n
    BY <1>2
  <2>3. l = Append(T.sub[s].edges, w)
    OBVIOUS
  <2> HIDE DEF w, l
  <2>4. l \in Seq(Nat \X Nat)
    BY ONLY <1>3, <2>2, <2>3
  <2>5. /\ DOMAIN l = DOMAIN T.sub[s].edges \cup {Len(T.sub[s].edges) + 1}
        /\ l[Len(T.sub[s].edges) + 1] = w
        /\ \A i \in DOMAIN T.sub[s].edges : l[i] = T.sub[s].edges[i]
    BY ONLY <2>1, <2>3, AppendAny
  <2> QED BY <2>2, <2>4, <2>5
<1> HIDE DEF l
<1>5. /\ e \in SubRecords /\ e.nodes = T.sub[s].nodes /\ e.stores = T.sub[s].stores /\ e.edges = l
      /\ e.kind = T.sub[s].kind
  BY <1>3, <1>4 DEF SubRecords
<1> HIDE DEF e
<1>6. /\ U.sub \in Seq(SubRecords) /\ DOMAIN U.sub = DOMAIN T.sub /\ Len(U.sub) = Len(T.sub)
      /\ U.sub[s] = e /\ \A q \in DOMAIN T.sub \ {s} : U.sub[q] = T.sub[q]
  <2>1. T.sub \in Seq(SubRecords) /\ e \in SubRecords /\ U.sub = [T.sub EXCEPT ![s] = e]
    BY <1>1, <1>5 DEF Good, Shape
  <2> QED BY ONLY <2>1, s \in DOMAIN T.sub, ReplaceIn
<1>7. SameLists(T, U)
  <2>1. Shape(U)
    BY <1>1, <1>5, <1>6 DEF Good, Shape
  <2>2. \A q \in DOMAIN T.sub : /\ U.sub[q].nodes = T.sub[q].nodes /\ U.sub[q].stores = T.sub[q].stores
                               /\ U.sub[q].kind = T.sub[q].kind
    BY <1>5, <1>6
  <2>3. MarksOk(U)
    BY <1>1 DEF Good, Tidy, MarksOk
  <2> QED BY <1>1, <1>6, <2>1, <2>2, <2>3 DEF SameLists, SamePlaces, StoreExists
<1>8. ASSUME Sound(T, P), p \in NodesOf(T, s), n \in NodesOf(T, s)
      PROVE  Sound(U, P)
  <2>1. \A q \in DOMAIN T.sub : NodesOf(U, q) = NodesOf(T, q)
    BY <1>7, SameListsKeeps
  <2>2. EdgesIn(U)
    <3> SUFFICES ASSUME NEW q \in DOMAIN U.sub, NEW i \in DOMAIN U.sub[q].edges
                 PROVE  U.sub[q].edges[i][1] \in NodesOf(U, q) /\ U.sub[q].edges[i][2] \in NodesOf(U, q)
      BY DEF EdgesIn
    <3>1. CASE q = s
      <4>1. U.sub[q].edges = l /\ i \in DOMAIN l /\ NodesOf(U, q) = NodesOf(T, s)
        BY <3>1, <2>1, <1>5, <1>6
      <4>2. \A j \in DOMAIN T.sub[s].edges :
              T.sub[s].edges[j][1] \in NodesOf(T, s) /\ T.sub[s].edges[j][2] \in NodesOf(T, s)
        BY <1>8 DEF Sound, EdgesIn
      <4> QED BY ONLY <4>1, <4>2, <1>4, <1>8
    <3>2. CASE q # s
      BY <3>2, <2>1, <1>6, <1>8 DEF Sound, EdgesIn
    <3> QED BY <3>1, <3>2
  <2> QED BY <1>7, <1>8, <2>2, SameListsKeeps DEF Sound
<1> QED BY <1>1, <1>6, <1>7, <1>8

\* NewKSubTopologyBuilder.
LEMMA NewSubKeeps ==
  ASSUME NEW T, NEW P, Good(T, P), NEW kind \in {"stream", "global-table"},
         NEW U, U = NewSub(T, kind)
  PROVE  /\ Good(U, P) /\ Grows(T, U) /\ (Sound(T, P) => Sound(U, P))
         /\ U.node = T.node /\ U.store = T.store
         /\ Len(T.sub) \in Nat /\ Len(U.sub) = Len(T.sub) + 1
         /\ Len(T.sub) + 1 \in DOMAIN U.sub /\ Len(T.sub) + 1 \in U.live
         /\ Len(T.sub) + 1 \notin DOMAIN T.sub
         /\ U.sub[Len(T.sub) + 1].kind = kind /\ NodesOf(U, Len(T.sub) + 1) = {}
<1> DEFINE s == Len(T.sub) + 1
           e == [kind |-> kind, nodes |-> <<>>, edges |-> <<>>, stores |-> {}]
<1>1. /\ DOMAIN U = TopologyFields /\ U.store = T.store /\ U.node = T.node
      /\ U.live = T.live \cup {s} /\ U.sub = Append(T.sub, e)
  BY DEF NewSub, Good, Shape, TopologyFields
<1>2. /\ e \in SubRecords /\ Range(e.nodes) = {} /\ DOMAIN e.edges = {} /\ e.stores = {}
      /\ e.kind = kind /\ DOMAIN e.nodes = {}
  BY DEF SubRecords, Range
<1> HIDE DEF e
<1>3. T.sub \in Seq(SubRecords) /\ T.sub \in Seq(Range(T.sub))
  <2>1. T.sub \in Seq(SubRecords)
    BY DEF Good, Shape
  <2> QED BY ONLY <2>1, SeqFacts
<1>4. /\ U.sub \in Seq(SubRecords) /\ DOMAIN U.sub = DOMAIN T.sub \cup {s} /\ s \notin DOMAIN T.sub
      /\ Len(U.sub) = Len(T.sub) + 1 /\ Len(T.sub) \in Nat
      /\ U.sub[s] = e /\ \A q \in DOMAIN T.sub : U.sub[q] = T.sub[q]
  <2>1. U.sub \in Seq(SubRecords)
    BY ONLY <1>1, <1>2, <1>3
  <2> QED BY ONLY <2>1, <1>1, <1>3, AppendAny
<1>5. NodesOf(U, s) = {} /\ \A q \in DOMAIN T.sub : NodesOf(U, q) = NodesOf(T, q)
  BY <1>2, <1>4 DEF NodesOf
<1>6. Shape(U)
  BY <1>1, <1>2, <1>4 DEF Good, Shape
<1>7. Listed(U, P)
  <2> SUFFICES ASSUME NEW q \in DOMAIN U.sub, NEW n \in NodesOf(U, q)
               PROVE  n \in DOMAIN U.node \ P /\ KnowsPlace(U, q, n)
    BY DEF Listed
  <2>1. q \in DOMAIN T.sub /\ n \in NodesOf(T, q)
    BY <1>4, <1>5
  <2> QED BY <2>1, <1>1, <1>4 DEF Good, Listed, KnowsPlace
<1>8. \A q \in DOMAIN T.sub : \A name : StoreExists(U, q, name) <=> StoreExists(T, q, name)
  BY <1>1, <1>4 DEF StoreExists
<1>9. Stored(U)
  <2> SUFFICES ASSUME NEW q \in DOMAIN U.sub, NEW n \in NodesOf(U, q), U.node[n].kind \in NeedsStore
               PROVE  StoreExists(U, q, U.node[n].store)
    BY DEF Stored
  <2>1. q \in DOMAIN T.sub /\ n \in NodesOf(T, q)
    BY <1>4, <1>5
  <2> QED BY <2>1, <1>1, <1>8 DEF Good, Stored
<1>10. Grows(T, U)
  BY <1>1, <1>4, <1>5, <1>8 DEF Grows, Widens
<1>11. ASSUME Sound(T, P)
       PROVE  Sound(U, P)
  <2>1. Homed(U, P)
    BY <1>1, <1>5, <1>11 DEF Sound, Homed, Good, Shape
  <2>2. EdgesIn(U)
    BY <1>2, <1>4, <1>5, <1>11 DEF Sound, EdgesIn
  <2> QED BY <2>1, <2>2 DEF Sound
<1>12. Tidy(U)
  <2>1. MarksOk(U)
    BY <1>1 DEF Good, Tidy, MarksOk
  <2>2. OnePlace(U)
    BY <1>1, <1>2, <1>4 DEF Good, Tidy, OnePlace
  <2>3. OneGlobal(U)
    BY <1>1, <1>4, <1>5 DEF Good, Tidy, OneGlobal
  <2> QED BY <2>1, <2>2, <2>3 DEF Tidy
<1> QED BY <1>1, <1>2, <1>4, <1>5, <1>6, <1>7, <1>9, <1>10, <1>11, <1>12 DEF Good

\* NewChangelogBuilder and the like: a store builder that is in no list yet.
LEMMA NewStoreKeeps ==
  ASSUME NEW T, NEW P, Good(T, P), NEW b, DOMAIN b = StoreFields,
         NEW U, U = [T EXCEPT !.store = Append(T.store, b)]
  PROVE  /\ SameLists(T, U) /\ (Sound(T, P) => Sound(U, P))
         /\ U.node = T.node /\ U.sub = T.sub
         /\ Len(T.store) \in Nat /\ Len(T.store) + 1 \in DOMAIN U.store
         /\ U.store[Len(T.store) + 1] = b
<1>1. /\ DOMAIN U = TopologyFields /\ U.node = T.node /\ U.sub = T.sub
      /\ U.live = T.live /\ U.store = Append(T.store, b)
  BY DEF Good, Shape, TopologyFields
<1>2. /\ U.store \in Seq(Range(U.store)) /\ DOMAIN U.store = DOMAIN T.store \cup {Len(T.store) + 1}
      /\ Len(T.store) \in Nat /\ U.store[Len(T.store) + 1] = b
      /\ \A c \in DOMAIN T.store : U.store[c] = T.store[c]
  BY <1>1, AppendAny DEF Good, Shape
<1>3. Shape(U)
  BY <1>1, <1>2 DEF Good, Shape
<1>4. SameLists(T, U)
  <2>1. \A s \in DOMAIN T.sub : \A name : StoreExists(T, s, name) => StoreExists(U, s, name)
    BY <1>1, <1>2 DEF Good, Shape, StoreExists
  <2>2. MarksOk(U)
    BY <1>1 DEF Good, Tidy, MarksOk
  <2> QED BY <1>1, <1>2, <1>3, <2>1, <2>2 DEF SameLists, SamePlaces
<1> QED BY <1>1, <1>2, <1>4, SameListsKeeps

\* AddStore: a second store of a name takes the place of the first.
LEMMA AddStoreKeeps ==
  ASSUME NEW T, NEW P, Good(T, P), NEW s \in DOMAIN T.sub, NEW b \in DOMAIN T.store,
         NEW U, U = AddStore(T, s, b)
  PROVE  /\ SameLists(T, U) /\ (Sound(T, P) => Sound(U, P))
         /\ U.node = T.node /\ U.store = T.store /\ Len(U.sub) = Len(T.sub)
         /\ StoreExists(U, s, T.store[b].name)
<1> DEFINE B == {c \in T.sub[s].stores : T.store[c].name # T.store[b].name} \cup {b}
           e == [T.sub[s] EXCEPT !.stores = B]
<1>1. /\ DOMAIN U = TopologyFields /\ U.node = T.node /\ U.store = T.store
      /\ U.live = T.live /\ U.sub = [T.sub EXCEPT ![s] = e]
  BY DEF AddStore, Good, Shape, TopologyFields
<1>2. T.sub[s] \in SubRecords /\ T.sub[s].stores \subseteq DOMAIN T.store /\ b \in Nat
  BY SubFacts DEF Good, Shape
<1>3. B \subseteq DOMAIN T.store /\ B \in SUBSET Nat
  BY <1>2 DEF SubRecords
<1>4. /\ b \in B
      /\ \A c \in T.sub[s].stores : \E d \in B : T.store[d].name = T.store[c].name
  OBVIOUS
<1> HIDE DEF B
<1>5. /\ e \in SubRecords /\ e.nodes = T.sub[s].nodes /\ e.edges = T.sub[s].edges /\ e.stores = B
      /\ e.kind = T.sub[s].kind
  BY <1>2, <1>3 DEF SubRecords
<1> HIDE DEF e
<1>6. /\ U.sub \in Seq(SubRecords) /\ DOMAIN U.sub = DOMAIN T.sub /\ Len(U.sub) = Len(T.sub)
      /\ U.sub[s] = e /\ \A q \in DOMAIN T.sub \ {s} : U.sub[q] = T.sub[q]
  <2>1. T.sub \in Seq(SubRecords) /\ e \in SubRecords /\ U.sub = [T.sub EXCEPT ![s] = e]
    BY <1>1, <1>5 DEF Good, Shape
  <2> QED BY ONLY <2>1, s \in DOMAIN T.sub, ReplaceIn
<1>7. Shape(U)
  BY <1>1, <1>3, <1>5, <1>6 DEF Good, Shape
<1>8. \A q \in DOMAIN T.sub : \A name : StoreExists(T, q, name) => StoreExists(U, q, name)
  <2> SUFFICES ASSUME NEW q \in DOMAIN T.sub, NEW name, NEW c \in T.sub[q].stores, T.store[c].name = name
               PROVE  \E d \in U.sub[q].stores : U.store[d].name = name
    BY DEF StoreExists
  <2>1. CASE q = s
    BY <2>1, <1>1, <1>4, <1>5, <1>6
  <2>2. CASE q # s
    BY <2>2, <1>1, <1>6
  <2> QED BY <2>1, <2>2
<1>9. /\ \A q \in DOMAIN T.sub : U.sub[q].nodes = T.sub[q].nodes /\ U.sub[q].edges = T.sub[q].edges
      /\ \A q \in DOMAIN T.sub : U.sub[q].kind = T.sub[q].kind
  BY <1>5, <1>6
<1>12. MarksOk(U)
  BY <1>1 DEF Good, Tidy, MarksOk
<1>10. SameLists(T, U)
  BY <1>1, <1>12, <1>6, <1>7, <1>8, <1>9 DEF SameLists, SamePlaces
<1>11. StoreExists(U, s, T.store[b].name)
  BY <1>1, <1>4, <1>5, <1>6 DEF StoreExists
<1> QED BY <1>1, <1>6, <1>9, <1>10, <1>11, SameListsKeeps

\* ShouldCoPartitionedWith only writes two fields of a source.
LEMMA CoPartitionKeeps ==
  ASSUME NEW T, NEW P, Good(T, P), NEW n \in DOMAIN T.node, NEW m,
         NEW U, U = ShouldCoPartitionedWith(T, n, m)
  PROVE  /\ SameLists(T, U) /\ (Sound(T, P) => Sound(U, P))
         /\ Len(U.node) = Len(T.node) /\ U.sub = T.sub /\ U.store = T.store
<1> DEFINE e == [[T.node[n] EXCEPT !.cop = m] EXCEPT !.marks = T.node[n].marks \cup {m}]
<1>1. DOMAIN T.node[n] = NodeFields /\ T.node \in Seq(Range(T.node))
  BY DEF Good, Shape
<1>2. /\ DOMAIN e = NodeFields /\ e.kind = T.node[n].kind /\ e.store = T.node[n].store
      /\ e.sub = T.node[n].sub /\ e.id = T.node[n].id
      /\ e.topic = T.node[n].topic /\ e.fmt = T.node[n].fmt /\ e.auto = T.node[n].auto
      /\ e.cop = m /\ e.marks = T.node[n].marks \cup {m}
  BY <1>1 DEF NodeFields
<1>3. /\ DOMAIN U = TopologyFields /\ U.store = T.store /\ U.sub = T.sub
      /\ U.live = T.live /\ U.node = [T.node EXCEPT ![n] = e]
  BY <1>1 DEF ShouldCoPartitionedWith, Good, Shape, NodeFields, TopologyFields
<1> HIDE DEF e
<1>4. /\ U.node \in Seq(Range(U.node)) /\ DOMAIN U.node = DOMAIN T.node /\ Len(U.node) = Len(T.node)
      /\ U.node[n] = e /\ \A j \in DOMAIN T.node \ {n} : U.node[j] = T.node[j]
  <2> DEFINE S == Range(T.node) \cup {e}
  <2>1. T.node \in Seq(S) /\ e \in S
    BY <1>1
  <2> HIDE DEF S
  <2>2. /\ U.node \in Seq(S) /\ DOMAIN U.node = DOMAIN T.node /\ Len(U.node) = Len(T.node)
        /\ U.node[n] = e /\ \A j \in DOMAIN T.node \ {n} : U.node[j] = T.node[j]
    BY ONLY <2>1, <1>3, n \in DOMAIN T.node, ReplaceIn
  <2>3. U.node \in Seq(Range(U.node))
    BY ONLY <2>2, SeqFacts
  <2> QED BY <2>2, <2>3
<1>5. Shape(U)
  BY <1>2, <1>3, <1>4 DEF Good, Shape
<1>7. MarksOk(U)
  <2>1. IsFiniteSet(T.node[n].marks)
    BY DEF Good, Tidy, MarksOk
  <2>2. IsFiniteSet(T.node[n].marks \cup {m})
    BY <2>1, FS_AddElement
  <2>3. U.node[n].cop = m /\ U.node[n].marks = T.node[n].marks \cup {m}
    BY <1>2, <1>4
  <2>4. \A j \in DOMAIN T.node \ {n} :
          /\ IsFiniteSet(U.node[j].marks)
          /\ U.node[j].marks # {} => U.node[j].cop \in U.node[j].marks
    BY <1>4 DEF Good, Tidy, MarksOk
  <2>5. m \in T.node[n].marks \cup {m}
    OBVIOUS
  <2>6. ASSUME NEW j \in DOMAIN U.node
        PROVE  IsFiniteSet(U.node[j].marks) /\ (U.node[j].marks # {} => U.node[j].cop \in U.node[j].marks)
    <3>1. CASE j = n
      BY <3>1, <2>2, <2>3, <2>5
    <3>2. CASE j # n
      <4>1. DOMAIN U.node = DOMAIN T.node
        BY <1>4
      <4>2. j \in DOMAIN T.node \ {n}
        BY <3>2, <4>1
      <4> QED BY <4>2, <2>4
    <3> QED BY <3>1, <3>2
  <2> QED BY <2>6 DEF MarksOk
<1>6. SameLists(T, U)
  BY <1>2, <1>3, <1>4, <1>5, <1>7 DEF SameLists, SamePlaces, StoreExists
<1> QED BY <1>3, <1>4, <1>6, SameListsKeeps

\* AddNodeWithEdge.
LEMMA AddNodeWithEdgeKeeps ==
  ASSUME NEW T, NEW P, Good(T, P), NEW s \in DOMAIN T.sub, NEW p \in DOMAIN T.node,
         NEW n, MayAdd(T, P, s, n),
         Fits(T, s, T.node[n]),
         NEW U, U = AddNodeWithEdge(T, s, p, n)
  PROVE  /\ Good(U, Minus(P, n)) /\ Grows(T, U) /\ n \in NodesOf(U, s)
         /\ Sound(T, P) /\ s \in T.live /\ p \in NodesOf(T, s) => Sound(U, Minus(P, n))
         /\ Len(U.node) = Len(T.node) /\ DOMAIN U.node = DOMAIN T.node
         /\ Len(U.sub) = Len(T.sub) /\ DOMAIN U.sub = DOMAIN T.sub
         /\ U.store = T.store /\ U.live = T.live
<1> DEFINE V == AddNode(T, s, n)
<1>1. /\ Good(V, Minus(P, n)) /\ Grows(T, V) /\ n \in NodesOf(V, s)
      /\ Sound(T, P) /\ s \in T.live => Sound(V, Minus(P, n))
      /\ Len(V.node) = Len(T.node) /\ DOMAIN V.node = DOMAIN T.node
      /\ Len(V.sub) = Len(T.sub) /\ DOMAIN V.sub = DOMAIN T.sub
      /\ V.store = T.store /\ V.live = T.live
  BY AddNodeKeeps
<1>2. U = AddEdge(V, s, p, n)
  BY DEF AddNodeWithEdge
<1> HIDE DEF V
<1>3. n \in DOMAIN T.node /\ n \in DOMAIN V.node
  BY <1>1 DEF Good, Listed, MayAdd
<1>4. /\ SameLists(V, U) /\ Len(U.node) = Len(V.node) /\ Len(U.sub) = Len(V.sub) /\ U.store = V.store
      /\ Sound(V, Minus(P, n)) /\ p \in NodesOf(V, s) /\ n \in NodesOf(V, s) => Sound(U, Minus(P, n))
  BY <1>1, <1>2, <1>3, AddEdgeKeeps
<1>5. Good(U, Minus(P, n)) /\ Grows(V, U) /\ n \in NodesOf(U, s)
  BY <1>1, <1>4, SameListsKeeps
<1>6. DOMAIN U.node = DOMAIN V.node /\ DOMAIN U.sub = DOMAIN V.sub /\ U.live = V.live
  BY <1>4 DEF SameLists, SamePlaces
<1>7. s \in T.live /\ p \in NodesOf(T, s) => p \in NodesOf(V, s)
  BY <1>1 DEF Grows, Widens
<1>8. Grows(T, U)
  BY <1>1, <1>5, GrowsTransitive
<1> QED BY <1>1, <1>4, <1>5, <1>6, <1>7, <1>8

\* A call's new node below an old one.
LEMMA AttachKeeps ==
  ASSUME NEW T, NEW P, Good(T, P), NEW s \in DOMAIN T.sub, NEW p \in DOMAIN T.node,
         NEW nd, FreshNode(nd),
         Fits(T, s, nd),
         NEW U, U = AddNodeWithEdge(NewNode(T, nd), s, p, Len(T.node) + 1)
  PROVE  /\ Good(U, P) /\ Widens(T, U) /\ (~nd.fmt => Grows(T, U))
         /\ Len(T.node) + 1 \in NodesOf(U, s) /\ U.node[Len(T.node) + 1].kind = nd.kind
         /\ Grows(NewNode(T, nd), U)
         /\ Sound(T, P) /\ s \in T.live /\ p \in NodesOf(T, s) => Sound(U, P)
         /\ Len(T.node) \in Nat /\ Len(U.node) = Len(T.node) + 1
         /\ Len(T.node) + 1 \in DOMAIN U.node
         /\ Len(U.sub) = Len(T.sub) /\ DOMAIN U.sub = DOMAIN T.sub
         /\ U.store = T.store /\ U.live = T.live
<1> DEFINE n == Len(T.node) + 1
           V == NewNode(T, nd)
           Q == Plus(P, n)
<1>1. /\ Good(V, Plus(P, n)) /\ Widens(T, V) /\ (~nd.fmt => Grows(T, V))
      /\ Sound(T, P) => Sound(V, Plus(P, n))
      /\ Len(T.node) \in Nat /\ Len(V.node) = n /\ V.node[n] = nd
      /\ n \notin DOMAIN T.node
      /\ V.sub = T.sub /\ V.store = T.store /\ V.live = T.live
  BY NewNodeKeeps
<1> HIDE DEF V
<1>2. s \in DOMAIN V.sub /\ p \in DOMAIN V.node /\ MayAdd(V, Plus(P, n), s, n)
  BY <1>1 DEF Grows, Widens, Plus, MayAdd
<1>3. Fits(V, s, V.node[n])
  BY <1>1 DEF Fits, StoreExists, NodesOf
<1>4. U = AddNodeWithEdge(V, s, p, n)
  BY DEF V
<1>5. Minus(Plus(P, n), n) = P
  BY <1>1 DEF Good, Plus, Minus
<1>6. NodesOf(V, s) = NodesOf(T, s)
  BY <1>1 DEF NodesOf
<1>7. n \in DOMAIN V.node
  BY <1>1 DEF Good
<1>10. Good(V, Q) /\ MayAdd(V, Q, s, n) /\ Minus(Q, n) = P /\ (Sound(T, P) => Sound(V, Q))
  BY <1>1, <1>2, <1>5
<1> HIDE DEF n, Q
<1>8. /\ Good(U, Minus(Q, n)) /\ Grows(V, U) /\ n \in NodesOf(U, s)
      /\ Sound(V, Q) /\ s \in V.live /\ p \in NodesOf(V, s) => Sound(U, Minus(Q, n))
      /\ Len(U.node) = Len(V.node) /\ DOMAIN U.node = DOMAIN V.node
      /\ Len(U.sub) = Len(V.sub) /\ DOMAIN U.sub = DOMAIN V.sub
      /\ U.store = V.store /\ U.live = V.live
  BY ONLY <1>10, <1>2, <1>3, <1>4, AddNodeWithEdgeKeeps, SMTT(30)
<1>9. Widens(T, U) /\ (~nd.fmt => Grows(T, U))
  BY <1>1, <1>8, GrowsTransitive, WidensTransitive DEF Grows
<1>11. U.node[n].kind = nd.kind /\ Grows(NewNode(T, nd), U)
  BY <1>1, <1>7, <1>8 DEF Grows, Widens, V
<1> QED BY <1>11, <1>1, <1>6, <1>7, <1>8, <1>9, <1>10 DEF n

\* The nodes of a list that is merged into another one get places behind it.
LEMMA ConcatFacts ==
  ASSUME NEW S, NEW s \in Seq(S), NEW t \in Seq(S)
  PROVE  /\ s \o t \in Seq(S)
         /\ DOMAIN (s \o t) = 1 .. (Len(s) + Len(t))
         /\ DOMAIN s = 1 .. Len(s) /\ DOMAIN t = 1 .. Len(t) /\ Len(s) \in Nat /\ Len(t) \in Nat
         /\ \A i \in 1 .. Len(s) : (s \o t)[i] = s[i]
         /\ \A i \in 1 .. Len(t) : (s \o t)[Len(s) + i] = t[i]
         /\ \A i \in 1 .. (Len(s) + Len(t)) :
              \/ i \in 1 .. Len(s) /\ (s \o t)[i] = s[i]
              \/ i - Len(s) \in 1 .. Len(t) /\ (s \o t)[i] = t[i - Len(s)]
         /\ Range(s \o t) = Range(s) \cup Range(t)
<1> DEFINE c == s \o t
<1>1. /\ c \in Seq(S) /\ DOMAIN c = 1 .. (Len(s) + Len(t))
      /\ DOMAIN s = 1 .. Len(s) /\ DOMAIN t = 1 .. Len(t) /\ Len(s) \in Nat /\ Len(t) \in Nat
      /\ \A i \in 1 .. (Len(s) + Len(t)) : c[i] = IF i <= Len(s) THEN s[i] ELSE t[i - Len(s)]
  OBVIOUS
<1> HIDE DEF c
<1>2. \A i \in 1 .. Len(s) : c[i] = s[i]
  BY <1>1
<1>3. \A i \in 1 .. Len(t) : Len(s) + i \in DOMAIN c /\ c[Len(s) + i] = t[i]
  <2> SUFFICES ASSUME NEW i \in 1 .. Len(t)
               PROVE  Len(s) + i \in DOMAIN c /\ c[Len(s) + i] = t[i]
    OBVIOUS
  <2>1. Len(s) + i \in 1 .. (Len(s) + Len(t)) /\ ~(Len(s) + i <= Len(s)) /\ (Len(s) + i) - Len(s) = i
    BY <1>1
  <2> QED BY <1>1, <2>1
<1>4. \A i \in 1 .. (Len(s) + Len(t)) :
         \/ i \in 1 .. Len(s) /\ c[i] = s[i]
         \/ i - Len(s) \in 1 .. Len(t) /\ c[i] = t[i - Len(s)]
  BY <1>1
<1>5. Range(c) = Range(s) \cup Range(t)
  <2>1. \A x \in Range(c) : x \in Range(s) \cup Range(t)
    BY <1>1, <1>4 DEF Range
  <2>2. \A x \in Range(s) : x \in Range(c)
    BY <1>1, <1>2 DEF Range
  <2>3. \A x \in Range(t) : x \in Range(c)
    <3> SUFFICES ASSUME NEW i \in DOMAIN t
                 PROVE  t[i] \in Range(c)
      BY DEF Range
    <3>1. Len(s) + i \in DOMAIN c /\ c[Len(s) + i] = t[i]
      BY <1>1, <1>3
    <3> QED BY <3>1 DEF Range
  <2> QED BY <2>1, <2>2, <2>3
<1> QED BY <1>1, <1>2, <1>3, <1>4, <1>5 DEF c

\* What a node keeps that is moved.
Kept(x, y) ==
  /\ y.kind = x.kind /\ y.store = x.store /\ y.topic = x.topic
  /\ y.fmt = x.fmt /\ y.auto = x.auto /\ y.marks = x.marks /\ y.cop = x.cop

\* The numbering of the nodes that MergeSubTopology moves.
LEMMA RenumberedFacts ==
  ASSUME NEW T, NEW P, Good(T, P), NEW s \in DOMAIN T.sub, NEW o \in DOMAIN T.sub, s # o,
         NEW V, V = Renumbered(T, s, o)
  PROVE  /\ DOMAIN V = TopologyFields
         /\ V.sub = T.sub /\ V.store = T.store /\ V.live = T.live
         /\ V.node \in Seq(Range(V.node)) /\ DOMAIN V.node = DOMAIN T.node /\ Len(V.node) = Len(T.node)
         /\ \A n \in DOMAIN T.node \ NodesOf(T, o) : V.node[n] = T.node[n]
         /\ \A n \in DOMAIN T.node : /\ DOMAIN V.node[n] = NodeFields
                                     /\ V.node[n].kind = T.node[n].kind
                                     /\ V.node[n].store = T.node[n].store
                                     /\ Kept(T.node[n], V.node[n])
         /\ \A n \in NodesOf(T, o) : /\ V.node[n].sub = s
                                     /\ V.node[n].id = Len(T.sub[s].nodes) + T.node[n].id
<1> DEFINE moved == T.sub[o].nodes
           LastPlace(n) == CHOOSE i \in DOMAIN moved :
                             moved[i] = n /\ \A j \in DOMAIN moved : moved[j] = n => j <= i
           Id(n) == Len(T.sub[s].nodes) + LastPlace(n) - 1
<1>1. /\ DOMAIN V = TopologyFields
      /\ V.sub = T.sub /\ V.store = T.store /\ V.live = T.live
      /\ V.node = [n \in DOMAIN T.node |->
                     IF n \in Range(moved) THEN [T.node[n] EXCEPT !.id = Id(n), !.sub = s] ELSE T.node[n]]
  BY DEF Renumbered, Good, Shape, TopologyFields
<1>2. /\ moved \in Seq(Nat) /\ T.sub[s].nodes \in Seq(Nat) /\ Len(T.sub[s].nodes) \in Nat
      /\ DOMAIN moved = 1 .. Len(moved)
  BY SubFacts DEF Good
<1>3. ASSUME NEW n \in NodesOf(T, o)
      PROVE  Id(n) = Len(T.sub[s].nodes) + T.node[n].id
  <2>1. KnowsPlace(T, o, n)
    BY DEF Good, Listed
  <2>2. /\ T.node[n].id \in Nat /\ T.node[n].id + 1 \in DOMAIN moved
        /\ moved[T.node[n].id + 1] = n
        /\ \A j \in DOMAIN moved : moved[j] = n => j <= T.node[n].id + 1
    BY <2>1 DEF KnowsPlace
  <2>3. /\ LastPlace(n) \in DOMAIN moved /\ moved[LastPlace(n)] = n
        /\ \A j \in DOMAIN moved : moved[j] = n => j <= LastPlace(n)
    BY <2>2
  <2> HIDE DEF LastPlace, moved
  <2>4. LastPlace(n) \in Nat /\ LastPlace(n) <= T.node[n].id + 1 /\ T.node[n].id + 1 <= LastPlace(n)
    BY <1>2, <2>2, <2>3
  <2>5. LastPlace(n) = T.node[n].id + 1
    BY ONLY <2>2, <2>4
  <2> QED BY <1>2, <2>2, <2>5
<1> HIDE DEF Id
<1>4. \A n \in DOMAIN T.node : DOMAIN T.node[n] = NodeFields
  BY DEF Good, Shape
<1>5. ASSUME NEW n \in NodesOf(T, o)
      PROVE  /\ n \in DOMAIN T.node /\ DOMAIN V.node[n] = NodeFields
             /\ V.node[n].kind = T.node[n].kind /\ V.node[n].store = T.node[n].store
             /\ V.node[n].sub = s /\ V.node[n].id = Id(n)
             /\ Kept(T.node[n], V.node[n])
  <2>1. n \in DOMAIN T.node /\ n \in Range(moved)
    BY DEF Good, Listed, NodesOf
  <2>2. V.node[n] = [T.node[n] EXCEPT !.id = Id(n), !.sub = s]
    BY <1>1, <2>1
  <2> QED BY <1>4, <2>1, <2>2 DEF NodeFields, Kept
<1>6. ASSUME NEW n \in DOMAIN T.node \ NodesOf(T, o)
      PROVE  V.node[n] = T.node[n]
  BY <1>1 DEF NodesOf
<1>7. DOMAIN V.node = DOMAIN T.node
  BY <1>1
<1>8. V.node \in Seq(Range(V.node)) /\ Len(V.node) = Len(T.node)
  <2>1. DOMAIN V.node = 1 .. Len(T.node) /\ Len(T.node) \in Nat
    BY <1>7 DEF Good, Shape
  <2>2. V.node = [i \in 1 .. Len(T.node) |-> V.node[i]]
    BY <1>1, <2>1
  <2>3. \A i \in 1 .. Len(T.node) : V.node[i] \in Range(V.node)
    BY <2>1 DEF Range
  <2> QED BY ONLY <2>1, <2>2, <2>3
<1>9. \A n \in DOMAIN T.node : Kept(T.node[n], V.node[n])
  BY <1>5, <1>6 DEF Kept
<1> QED BY <1>1, <1>3, <1>4, <1>5, <1>6, <1>7, <1>8, <1>9

\* Extended and RemoveAll rewrite one sub-topology.
Typed(T) == DOMAIN T = TopologyFields /\ T.sub \in Seq(SubRecords)
MergedStores(T, s, o) ==
  {c \in T.sub[s].stores : \A b \in T.sub[o].stores : T.store[c].name # T.store[b].name}
    \cup T.sub[o].stores

ExtendsTo(V, s, o, W) ==
  /\ DOMAIN W = TopologyFields
  /\ W.node = V.node /\ W.store = V.store /\ W.live = V.live
  /\ W.sub \in Seq(SubRecords) /\ DOMAIN W.sub = DOMAIN V.sub /\ Len(W.sub) = Len(V.sub)
  /\ W.sub[s].nodes = V.sub[s].nodes \o V.sub[o].nodes
  /\ W.sub[s].edges = V.sub[s].edges \o V.sub[o].edges
  /\ W.sub[s].stores = MergedStores(V, s, o) /\ W.sub[s].kind = V.sub[s].kind
  /\ \A q \in DOMAIN V.sub \ {s} : W.sub[q] = V.sub[q]

\* The lists of the sub-topology that stays are extended by those of the other.
LEMMA ExtendedFacts ==
  ASSUME NEW V, Typed(V),
         NEW s \in DOMAIN V.sub, NEW o \in DOMAIN V.sub,
         NEW W, W = Extended(V, s, o)
  PROVE  ExtendsTo(V, s, o, W)
<1> DEFINE N == V.sub[s].nodes \o V.sub[o].nodes
           E == V.sub[s].edges \o V.sub[o].edges
           B == MergedStores(V, s, o)
           Z == [V EXCEPT !.sub[s].nodes = N, !.sub[s].edges = E, !.sub[s].stores = B]
<1>1. /\ V.sub[s] \in SubRecords /\ \A q \in DOMAIN V.sub : V.sub[q] \in SubRecords
      /\ N \in Seq(Nat) /\ E \in Seq(Nat \X Nat) /\ B \in SUBSET Nat
  <2>1. V.sub[s] \in SubRecords /\ V.sub[o] \in SubRecords /\ \A q \in DOMAIN V.sub : V.sub[q] \in SubRecords
    BY SeqFacts DEF Typed
  <2>2. N \in Seq(Nat)
    BY <2>1 DEF SubRecords
  <2>3. E \in Seq(Nat \X Nat)
    BY <2>1 DEF SubRecords
  <2>4. B \in SUBSET Nat
    BY <2>1 DEF SubRecords, MergedStores
  <2> QED BY <2>1, <2>2, <2>3, <2>4
<1> HIDE DEF N, E, B
<1>2. /\ DOMAIN Z = TopologyFields /\ Z.node = V.node /\ Z.store = V.store
      /\ Z.live = V.live /\ DOMAIN Z.sub = DOMAIN V.sub
      /\ \A q \in DOMAIN V.sub \ {s} : Z.sub[q] = V.sub[q]
  BY <1>1 DEF SubRecords, TopologyFields, Typed
<1>3. Z.sub[s] = [kind |-> V.sub[s].kind, nodes |-> N, edges |-> E, stores |-> B]
  BY <1>1 DEF SubRecords, TopologyFields, Typed
<1>4. Z.sub = [q \in DOMAIN V.sub |-> Z.sub[q]]
  BY <1>1 DEF SubRecords, TopologyFields, Typed
<1>5. W = Z
  BY DEF Extended, MergedStores, N, E, B
<1> HIDE DEF Z
<1>6. Z.sub \in Seq(SubRecords) /\ Len(Z.sub) = Len(V.sub)
  <2>1. DOMAIN V.sub = 1 .. Len(V.sub) /\ Len(V.sub) \in Nat
    BY SeqFacts DEF Typed
  <2>2. Z.sub[s] \in SubRecords
    BY <1>1, <1>3 DEF SubRecords
  <2>3. \A q \in DOMAIN V.sub : Z.sub[q] \in SubRecords
    BY <1>1, <1>2, <2>2
  <2> QED BY ONLY <2>1, <2>3, <1>4
<1>7. /\ DOMAIN W = TopologyFields
      /\ W.node = V.node /\ W.store = V.store /\ W.live = V.live
      /\ W.sub \in Seq(SubRecords) /\ DOMAIN W.sub = DOMAIN V.sub /\ Len(W.sub) = Len(V.sub)
      /\ W.sub[s].nodes = N /\ W.sub[s].edges = E /\ W.sub[s].stores = B
      /\ W.sub[s].kind = V.sub[s].kind
      /\ \A q \in DOMAIN V.sub \ {s} : W.sub[q] = V.sub[q]
  BY <1>2, <1>3, <1>5, <1>6
<1> QED BY <1>7 DEF N, E, B, ExtendsTo

\* The lists of the sub-topology that goes are emptied, its stores are not.
LEMMA RemoveAllFacts ==
  ASSUME NEW V, Typed(V),
         NEW s \in DOMAIN V.sub,
         NEW W, W = RemoveAll(V, s)
  PROVE  /\ DOMAIN W = TopologyFields
         /\ W.node = V.node /\ W.store = V.store /\ W.live = V.live
         /\ W.sub \in Seq(SubRecords) /\ DOMAIN W.sub = DOMAIN V.sub /\ Len(W.sub) = Len(V.sub)
         /\ W.sub[s].nodes = <<>> /\ W.sub[s].edges = <<>>
         /\ W.sub[s].stores = V.sub[s].stores /\ W.sub[s].kind = V.sub[s].kind
         /\ \A q \in DOMAIN V.sub \ {s} : W.sub[q] = V.sub[q]
<1> DEFINE Z == [V EXCEPT !.sub[s].nodes = <<>>, !.sub[s].edges = <<>>]
<1>1. V.sub[s] \in SubRecords /\ \A q \in DOMAIN V.sub : V.sub[q] \in SubRecords
  BY SeqFacts DEF Typed
<1>2. /\ DOMAIN Z = TopologyFields /\ Z.node = V.node /\ Z.store = V.store
      /\ Z.live = V.live /\ DOMAIN Z.sub = DOMAIN V.sub
      /\ \A q \in DOMAIN V.sub \ {s} : Z.sub[q] = V.sub[q]
  BY <1>1 DEF SubRecords, TopologyFields, Typed
<1>3. Z.sub[s] = [kind |-> V.sub[s].kind, nodes |-> <<>>, edges |-> <<>>, stores |-> V.sub[s].stores]
  BY <1>1 DEF SubRecords, TopologyFields, Typed
<1>4. Z.sub = [q \in DOMAIN V.sub |-> Z.sub[q]]
  BY <1>1 DEF SubRecords, TopologyFields, Typed
<1>5. W = Z
  BY DEF RemoveAll
<1> HIDE DEF Z
<1>6. Z.sub \in Seq(SubRecords) /\ Len(Z.sub) = Len(V.sub)
  <2>1. DOMAIN V.sub = 1 .. Len(V.sub) /\ Len(V.sub) \in Nat
    BY SeqFacts DEF Typed
  <2>2. Z.sub[s] \in SubRecords
    BY <1>1, <1>3 DEF SubRecords
  <2>3. \A q \in DOMAIN V.sub : Z.sub[q] \in SubRecords
    BY <1>1, <1>2, <2>2
  <2> QED BY ONLY <2>1, <2>3, <1>4
<1> QED BY <1>2, <1>3, <1>5, <1>6

\* kStream.merge: s holds what o held, o is empty and no longer built.
Merges(T, s, o, U) ==
  /\ DOMAIN U = TopologyFields
  /\ U.node = Renumbered(T, s, o).node /\ U.store = T.store /\ U.live = T.live \ {o}
  /\ U.sub \in Seq(SubRecords) /\ DOMAIN U.sub = DOMAIN T.sub /\ Len(U.sub) = Len(T.sub)
  /\ \A q \in DOMAIN T.sub \ {s, o} : U.sub[q] = T.sub[q]
  /\ U.sub[o].nodes = <<>> /\ U.sub[o].edges = <<>> /\ U.sub[o].stores = T.sub[o].stores
  /\ U.sub[s].nodes = T.sub[s].nodes \o T.sub[o].nodes
  /\ U.sub[s].edges = T.sub[s].edges \o T.sub[o].edges
  /\ U.sub[s].stores = MergedStores(T, s, o)
  /\ U.sub[s].kind = T.sub[s].kind /\ U.sub[o].kind = T.sub[o].kind

\* A merge, as what it does to each field.
LEMMA MergeFacts ==
  ASSUME NEW T, NEW P, Good(T, P), NEW s \in DOMAIN T.sub, NEW o \in DOMAIN T.sub, s # o,
         NEW U, U = Merged(T, s, o)
  PROVE  Merges(T, s, o, U)
<1> DEFINE V == Renumbered(T, s, o)
           B == MergedStores(V, s, o)
           N == V.sub[s].nodes \o V.sub[o].nodes
           E == V.sub[s].edges \o V.sub[o].edges
           W == Extended(V, s, o)
           X == RemoveAll(W, o)
<1>1. DOMAIN V = TopologyFields /\ V.sub = T.sub /\ V.store = T.store /\ V.live = T.live
  BY RenumberedFacts
<1>2. U = RemoveSubTopology(X, o)
  BY DEF Merged, MergeSubTopology
<1> HIDE DEF V
<1>3. T.sub \in Seq(SubRecords)
  BY DEF Good, Shape
<1>4. Typed(V) /\ s \in DOMAIN V.sub /\ o \in DOMAIN V.sub
  BY <1>1, <1>3 DEF Typed
<1> HIDE DEF W
<1>5. W = Extended(V, s, o)
  BY DEF W
<1>6. /\ DOMAIN W = TopologyFields
      /\ W.node = V.node /\ W.store = T.store /\ W.live = T.live
      /\ W.sub \in Seq(SubRecords) /\ DOMAIN W.sub = DOMAIN T.sub /\ Len(W.sub) = Len(T.sub)
      /\ W.sub[s].nodes = N /\ W.sub[s].edges = E /\ W.sub[s].stores = B
      /\ W.sub[s].kind = T.sub[s].kind
      /\ \A q \in DOMAIN T.sub \ {s} : W.sub[q] = T.sub[q]
  <2>1. ExtendsTo(V, s, o, W)
    BY ONLY <1>4, <1>5, ExtendedFacts
  <2>2. /\ W.sub[s].nodes = N /\ W.sub[s].edges = E /\ W.sub[s].stores = B
        /\ W.sub[s].kind = V.sub[s].kind
    BY <2>1 DEF ExtendsTo
  <2> HIDE DEF N, E, B
  <2> QED BY <1>1, <2>1, <2>2 DEF ExtendsTo
<1> HIDE DEF B, N, E
<1>7. X = RemoveAll(W, o) /\ W.sub[o] = T.sub[o] /\ o \in DOMAIN W.sub /\ Typed(W)
  BY <1>6 DEF Typed
<1> HIDE DEF X
<1>9. /\ DOMAIN X = TopologyFields
      /\ X.node = W.node /\ X.store = W.store /\ X.live = W.live
      /\ X.sub \in Seq(SubRecords) /\ DOMAIN X.sub = DOMAIN W.sub /\ Len(X.sub) = Len(W.sub)
      /\ X.sub[o].nodes = <<>> /\ X.sub[o].edges = <<>> /\ X.sub[o].stores = W.sub[o].stores
      /\ X.sub[o].kind = W.sub[o].kind
      /\ \A q \in DOMAIN W.sub \ {o} : X.sub[q] = W.sub[q]
  BY ONLY <1>7, RemoveAllFacts
<1>10. /\ DOMAIN U = TopologyFields /\ U.store = X.store /\ U.node = X.node
       /\ U.live = X.live \ {o} /\ U.sub = X.sub
  BY <1>2, <1>9 DEF RemoveSubTopology, TopologyFields
<1>11. X.sub[s] = W.sub[s] /\ \A q \in DOMAIN T.sub \ {s, o} : X.sub[q] = T.sub[q]
  BY <1>6, <1>9
<1>12. /\ N = T.sub[s].nodes \o T.sub[o].nodes /\ E = T.sub[s].edges \o T.sub[o].edges
       /\ B = MergedStores(T, s, o)
  BY <1>1 DEF B, N, E, MergedStores
<1>13. /\ DOMAIN U = TopologyFields
       /\ U.node = V.node /\ U.store = T.store /\ U.live = T.live \ {o}
       /\ U.sub \in Seq(SubRecords) /\ DOMAIN U.sub = DOMAIN T.sub /\ Len(U.sub) = Len(T.sub)
       /\ \A q \in DOMAIN T.sub \ {s, o} : U.sub[q] = T.sub[q]
       /\ U.sub[o].nodes = <<>> /\ U.sub[o].edges = <<>> /\ U.sub[o].stores = T.sub[o].stores
       /\ U.sub[s].nodes = N /\ U.sub[s].edges = E /\ U.sub[s].stores = B
       /\ U.sub[s].kind = T.sub[s].kind /\ U.sub[o].kind = T.sub[o].kind
  BY <1>6, <1>7, <1>9, <1>10, <1>11
<1> QED BY ONLY <1>12, <1>13 DEF V, Merges

\* Merging keeps all nodes in lists they know, and all stores with them.
LEMMA MergedTwoKeeps ==
  ASSUME NEW T, NEW P, Good(T, P), NEW s \in DOMAIN T.sub, NEW o \in DOMAIN T.sub, s # o,
         T.sub[s].kind = "stream",
         NEW U, U = Merged(T, s, o)
  PROVE  /\ Good(U, P) /\ Grows(T, U)
         /\ NodesOf(T, o) \subseteq NodesOf(U, s)
         /\ \A name : StoreExists(T, o, name) => StoreExists(U, s, name)
         /\ Sound(T, P) /\ s \in T.live => Sound(U, P)
<1> DEFINE V == Renumbered(T, s, o)
           la == T.sub[s].nodes
           lb == T.sub[o].nodes
           ea == T.sub[s].edges
           eb == T.sub[o].edges
<1>1. /\ DOMAIN U = TopologyFields
      /\ U.node = V.node /\ U.store = T.store /\ U.live = T.live \ {o}
      /\ U.sub \in Seq(SubRecords) /\ DOMAIN U.sub = DOMAIN T.sub
      /\ \A q \in DOMAIN T.sub \ {s, o} : U.sub[q] = T.sub[q]
      /\ U.sub[o].nodes = <<>> /\ U.sub[o].edges = <<>> /\ U.sub[o].stores = T.sub[o].stores
      /\ U.sub[s].nodes = la \o lb
      /\ U.sub[s].edges = ea \o eb
      /\ U.sub[s].stores = MergedStores(T, s, o)
      /\ U.sub[s].kind = T.sub[s].kind /\ U.sub[o].kind = T.sub[o].kind
  <2>1. Merges(T, s, o, U)
    BY MergeFacts
  <2> QED BY <2>1 DEF Merges
<1>2. /\ V.node \in Seq(Range(V.node)) /\ DOMAIN V.node = DOMAIN T.node
      /\ \A n \in DOMAIN T.node \ NodesOf(T, o) : V.node[n] = T.node[n]
      /\ \A n \in DOMAIN T.node : /\ DOMAIN V.node[n] = NodeFields
                                  /\ V.node[n].kind = T.node[n].kind
                                  /\ V.node[n].store = T.node[n].store
                                  /\ Kept(T.node[n], V.node[n])
      /\ \A n \in NodesOf(T, o) : V.node[n].sub = s /\ V.node[n].id = Len(la) + T.node[n].id
  BY RenumberedFacts
<1> HIDE DEF V
<1>3. /\ la \in Seq(Nat) /\ lb \in Seq(Nat) /\ ea \in Seq(Nat \X Nat) /\ eb \in Seq(Nat \X Nat)
      /\ T.sub[s].stores \subseteq DOMAIN T.store /\ T.sub[o].stores \subseteq DOMAIN T.store
  BY SubFacts DEF Good
<1>4. /\ NodesOf(T, s) = Range(la) /\ NodesOf(T, o) = Range(lb)
      /\ NodesOf(U, s) = Range(la \o lb) /\ NodesOf(U, o) = Range(<<>>)
      /\ \A q \in DOMAIN T.sub \ {s, o} : NodesOf(U, q) = NodesOf(T, q)
  BY <1>1 DEF NodesOf
<1>5. \A q \in DOMAIN T.sub : \A n \in NodesOf(T, q) : n \in DOMAIN T.node \ P /\ KnowsPlace(T, q, n)
  BY DEF Good, Listed
<1>6. \A q \in DOMAIN T.sub : \A n \in NodesOf(T, q) : T.node[n].sub = q
  BY <1>5 DEF KnowsPlace
<1> HIDE DEF la, lb, ea, eb
<1>7. /\ DOMAIN (la \o lb) = 1 .. (Len(la) + Len(lb))
      /\ DOMAIN la = 1 .. Len(la) /\ DOMAIN lb = 1 .. Len(lb) /\ Len(la) \in Nat /\ Len(lb) \in Nat
      /\ \A i \in 1 .. Len(la) : (la \o lb)[i] = la[i]
      /\ \A i \in 1 .. Len(lb) : (la \o lb)[Len(la) + i] = lb[i]
      /\ \A i \in 1 .. (Len(la) + Len(lb)) :
           \/ i \in 1 .. Len(la) /\ (la \o lb)[i] = la[i]
           \/ i - Len(la) \in 1 .. Len(lb) /\ (la \o lb)[i] = lb[i - Len(la)]
      /\ Range(la \o lb) = Range(la) \cup Range(lb)
  <2>1. la \in Seq(Nat) /\ lb \in Seq(Nat)
    BY <1>3
  <2> QED BY ONLY <2>1, ConcatFacts, SMTT(30)
<1>8. NodesOf(U, s) = NodesOf(T, s) \cup NodesOf(T, o) /\ NodesOf(U, o) = {}
  <2>1. Range(<<>>) = {}
    BY DEF Range
  <2> QED BY ONLY <1>4, <1>7, <2>1
<1>9. Shape(U)
  <2>1. \A q \in DOMAIN U.sub : U.sub[q].stores \subseteq DOMAIN U.store
    <3> SUFFICES ASSUME NEW q \in DOMAIN T.sub
                 PROVE  U.sub[q].stores \subseteq DOMAIN T.store
      BY <1>1
    <3>1. CASE q = s
      BY <3>1, <1>1, <1>3 DEF MergedStores
    <3>2. CASE q = o
      BY <3>2, <1>1, <1>3
    <3>3. CASE q \notin {s, o}
      BY <3>3, <1>1 DEF Good, Shape
    <3> QED BY <3>1, <3>2, <3>3
  <2>2. U.live \subseteq DOMAIN U.sub /\ U.store \in Seq(Range(U.store))
        /\ \A b \in DOMAIN U.store : DOMAIN U.store[b] = StoreFields
    BY <1>1 DEF Good, Shape
  <2> QED BY <1>1, <1>2, <2>1, <2>2 DEF Shape
<1>10. Listed(U, P)
  <2> SUFFICES ASSUME NEW q \in DOMAIN T.sub, NEW n \in NodesOf(U, q)
               PROVE  n \in DOMAIN T.node \ P /\ KnowsPlace(U, q, n)
    BY <1>1, <1>2 DEF Listed
  <2>1. CASE q \notin {s, o}
    <3>1. n \in NodesOf(T, q) /\ T.node[n].sub = q /\ n \notin NodesOf(T, o) /\ n \in DOMAIN T.node \ P
      BY <2>1, <1>4, <1>5, <1>6
    <3>2. U.node[n] = T.node[n] /\ U.sub[q] = T.sub[q] /\ KnowsPlace(T, q, n)
      BY <2>1, <3>1, <1>1, <1>2, <1>5
    <3> QED BY <3>1, <3>2 DEF KnowsPlace
  <2>2. CASE q = s /\ n \in NodesOf(T, s)
    <3>1. T.node[n].sub = s /\ n \notin NodesOf(T, o) /\ n \in DOMAIN T.node \ P
      BY <2>2, <1>5, <1>6
    <3>2. U.node[n] = T.node[n] /\ KnowsPlace(T, s, n)
      BY <2>2, <3>1, <1>1, <1>2, <1>5
    <3>3. /\ T.node[n].id \in Nat /\ T.node[n].id + 1 \in DOMAIN la /\ la[T.node[n].id + 1] = n
          /\ \A i \in DOMAIN la : la[i] = n => i <= T.node[n].id + 1
      BY <3>2 DEF KnowsPlace, la
    <3>4. \A i \in DOMAIN lb : lb[i] # n
      BY <3>1, <1>4 DEF Range
    <3>5. /\ T.node[n].id + 1 \in DOMAIN (la \o lb) /\ (la \o lb)[T.node[n].id + 1] = n
          /\ \A i \in DOMAIN (la \o lb) : (la \o lb)[i] = n => i <= T.node[n].id + 1
      BY <3>3, <3>4, <1>7
    <3> QED BY <2>2, <3>1, <3>2, <3>3, <3>5, <1>1 DEF KnowsPlace
  <2>3. CASE q = s /\ n \in NodesOf(T, o)
    <3>1. T.node[n].sub = o /\ n \notin NodesOf(T, s) /\ n \in DOMAIN T.node \ P /\ KnowsPlace(T, o, n)
      BY <2>3, <1>5, <1>6
    <3>2. U.node[n].sub = s /\ U.node[n].id = Len(la) + T.node[n].id
      BY <2>3, <1>1, <1>2
    <3>3. /\ T.node[n].id \in Nat /\ T.node[n].id + 1 \in DOMAIN lb /\ lb[T.node[n].id + 1] = n
          /\ \A i \in DOMAIN lb : lb[i] = n => i <= T.node[n].id + 1
      BY <3>1 DEF KnowsPlace, lb
    <3>4. \A i \in DOMAIN la : la[i] # n
      BY <3>1, <1>4 DEF Range
    <3> DEFINE k == Len(la) + T.node[n].id
    <3>5. k \in Nat /\ k + 1 = Len(la) + (T.node[n].id + 1) /\ k + 1 \in DOMAIN (la \o lb)
      <4>1. T.node[n].id \in Nat /\ T.node[n].id + 1 \in 1 .. Len(lb) /\ Len(la) \in Nat /\ Len(lb) \in Nat
        BY <3>3, <1>7
      <4>2. k \in Nat /\ k + 1 = Len(la) + (T.node[n].id + 1) /\ k + 1 \in 1 .. (Len(la) + Len(lb))
        <5>1. \A a, b, x \in Nat : x + 1 \in 1 .. b =>
                a + x \in Nat /\ (a + x) + 1 = a + (x + 1) /\ (a + x) + 1 \in 1 .. (a + b)
          OBVIOUS
        <5> QED BY ONLY <4>1, <5>1 DEF k
      <4> QED BY <4>2, <1>7
    <3>6. (la \o lb)[k + 1] = n
      BY <3>3, <3>5, <1>7
    <3>7. ASSUME NEW i \in DOMAIN (la \o lb), (la \o lb)[i] = n
          PROVE  i <= k + 1
      <4>1. i \in 1 .. (Len(la) + Len(lb)) /\ ~(i \in DOMAIN la /\ (la \o lb)[i] = la[i])
        BY <3>4, <3>7, <1>7
      <4>2. i - Len(la) \in DOMAIN lb /\ lb[i - Len(la)] = n
        BY <4>1, <3>7, <1>7
      <4>3. i - Len(la) <= T.node[n].id + 1
        BY <4>2, <3>3
      <4>4. i \in Nat /\ Len(la) \in Nat /\ T.node[n].id \in Nat
        BY <4>1, <3>3, <1>7
      <4>5. \A a, x, j \in Nat : j - a <= x + 1 => j <= (a + x) + 1
        OBVIOUS
      <4> QED BY ONLY <4>3, <4>4, <4>5 DEF k
    <3> HIDE DEF k
    <3>8. U.node[n].id = k
      BY <3>2 DEF k
    <3> QED BY <2>3, <3>1, <3>2, <3>5, <3>6, <3>7, <3>8, <1>1 DEF KnowsPlace
  <2> QED BY <2>1, <2>2, <2>3, <1>8
<1>11. \A q \in DOMAIN T.sub : \A name : StoreExists(T, q, name) => StoreExists(U, q, name)
  <2> SUFFICES ASSUME NEW q \in DOMAIN T.sub, NEW name, NEW c \in T.sub[q].stores,
                      T.store[c].name = name
               PROVE  \E d \in U.sub[q].stores : U.store[d].name = name
    BY DEF StoreExists
  <2>1. CASE q = s
    BY <2>1, <1>1 DEF MergedStores
  <2>2. CASE q = o
    BY <2>2, <1>1
  <2>3. CASE q \notin {s, o}
    BY <2>3, <1>1
  <2> QED BY <2>1, <2>2, <2>3
<1>12. \A name : StoreExists(T, o, name) => StoreExists(U, s, name)
  BY <1>1 DEF StoreExists, MergedStores
<1>13. Stored(U)
  <2> SUFFICES ASSUME NEW q \in DOMAIN T.sub, NEW n \in NodesOf(U, q), U.node[n].kind \in NeedsStore
               PROVE  StoreExists(U, q, U.node[n].store)
    BY <1>1 DEF Stored
  <2>1. \A r \in DOMAIN T.sub : n \in NodesOf(T, r) =>
          /\ U.node[n].kind = T.node[n].kind /\ U.node[n].store = T.node[n].store
          /\ StoreExists(T, r, U.node[n].store)
    BY <1>1, <1>2, <1>5 DEF Good, Stored
  <2>2. CASE n \in NodesOf(T, q)
    BY <2>1, <2>2, <1>11
  <2>3. CASE q = s /\ n \in NodesOf(T, o)
    BY <2>1, <2>3, <1>12
  <2> QED BY <2>2, <2>3, <1>4, <1>8
<1>14. Grows(T, U)
  <2>1. \A q \in DOMAIN T.sub : q \in U.live => NodesOf(T, q) \subseteq NodesOf(U, q)
    BY <1>1, <1>4, <1>8
  <2>2. \A q \in DOMAIN T.sub : U.sub[q].kind = T.sub[q].kind
    BY <1>1
  <2>3. Widens(T, U)
    BY <2>1, <2>2, <1>1, <1>2, <1>11 DEF Widens
  <2> QED BY <2>3, <1>1, <1>2 DEF Grows, Kept
<1>17. Tidy(U)
  <2>0. DOMAIN U.node = DOMAIN T.node /\ \A n \in DOMAIN T.node : Kept(T.node[n], U.node[n])
    BY <1>1, <1>2
  <2>1. MarksOk(U)
    <3>1. MarksOk(T)
      BY DEF Good, Tidy
    <3> QED BY ONLY <3>1, <2>0 DEF MarksOk, Kept
  <2>2. OnePlace(U)
    <3> SUFFICES ASSUME NEW q \in DOMAIN T.sub, NEW i \in DOMAIN U.sub[q].nodes,
                        U.node[U.sub[q].nodes[i]].kind \in TopicKinds
                 PROVE  i = U.node[U.sub[q].nodes[i]].id + 1
      BY <1>1 DEF OnePlace
    <3>1. \A r \in DOMAIN T.sub : \A j \in DOMAIN T.sub[r].nodes :
            /\ T.sub[r].nodes[j] \in NodesOf(T, r) /\ T.sub[r].nodes[j] \in DOMAIN T.node
            /\ T.node[T.sub[r].nodes[j]].kind \in TopicKinds =>
                 j = T.node[T.sub[r].nodes[j]].id + 1
      BY <1>5 DEF Good, Tidy, OnePlace, NodesOf, Range
    <3>2. \A n \in DOMAIN T.node : U.node[n].kind = T.node[n].kind
      BY <1>1, <1>2
    <3>3. \A r \in DOMAIN T.sub \ {o} : \A n \in NodesOf(T, r) : U.node[n] = T.node[n]
      BY <1>1, <1>2, <1>5, <1>6
    <3>4. CASE q \notin {s, o}
      <4>1. U.sub[q] = T.sub[q] /\ q \in DOMAIN T.sub \ {o}
        BY <3>4, <1>1
      <4>2. i \in DOMAIN T.sub[q].nodes
        BY <4>1
      <4> DEFINE n == T.sub[q].nodes[i]
      <4>3. n \in NodesOf(T, q) /\ n \in DOMAIN T.node /\ U.sub[q].nodes[i] = n
        BY <4>1, <4>2, <3>1
      <4>4. T.node[n].kind \in TopicKinds
        BY <4>3, <3>2
      <4>5. i = T.node[n].id + 1
        BY <4>2, <4>4, <3>1
      <4> QED BY <4>1, <4>3, <4>5, <3>3
    <3>5. CASE q = o
      BY <3>5, <1>1
    <3>6. CASE q = s
      <4>1. U.sub[q].nodes = la \o lb /\ i \in 1 .. (Len(la) + Len(lb))
        BY <3>6, <1>1, <1>7
      <4>2. CASE i \in 1 .. Len(la) /\ (la \o lb)[i] = la[i]
        <5>1. i \in DOMAIN T.sub[s].nodes /\ U.sub[q].nodes[i] = T.sub[s].nodes[i]
          BY <4>1, <4>2, <1>7 DEF la
        <5> QED BY <5>1, <3>1, <3>2, <3>3
      <4>3. CASE i - Len(la) \in 1 .. Len(lb) /\ (la \o lb)[i] = lb[i - Len(la)]
        <5> DEFINE j == i - Len(la)
                   n == T.sub[o].nodes[j]
        <5>1. j \in DOMAIN T.sub[o].nodes /\ U.sub[q].nodes[i] = n
          BY <4>1, <4>3, <1>7 DEF lb
        <5>2. n \in NodesOf(T, o) /\ n \in DOMAIN T.node /\ j = T.node[n].id + 1
          BY <5>1, <3>1, <3>2
        <5>3. U.node[n].id = Len(la) + T.node[n].id /\ T.node[n].id \in Nat
          BY <5>2, <1>1, <1>2, <1>5 DEF KnowsPlace
        <5>4. i = Len(la) + j /\ Len(la) \in Nat /\ j \in Nat
          BY <4>1, <4>3, <1>7
        <5> HIDE DEF j, n
        <5>5. i = U.node[n].id + 1
          BY ONLY <5>2, <5>3, <5>4
        <5> QED BY <5>1, <5>5
      <4> QED BY <4>1, <4>2, <4>3, <1>7
    <3> QED BY <3>4, <3>5, <3>6
  <2>3. OneGlobal(U)
    <3> SUFFICES ASSUME NEW q \in DOMAIN T.sub, U.sub[q].kind = "global-table"
                 PROVE  /\ \A n \in NodesOf(U, q) : ~U.node[n].fmt
                        /\ \A n, m \in NodesOf(U, q) :
                             U.node[n].kind = "kSource" /\ U.node[m].kind = "kSource" => n = m
      BY <1>1 DEF OneGlobal
    <3>1. CASE q = o
      BY <3>1, <1>8
    <3>2. CASE q # o
      <4>1. q \notin {s, o}
        BY <3>2, <1>1
      <4>2. T.sub[q].kind = "global-table" /\ NodesOf(U, q) = NodesOf(T, q)
        BY <4>1, <1>1, <1>4
      <4>3. /\ \A n \in NodesOf(T, q) : ~T.node[n].fmt
            /\ \A n, m \in NodesOf(T, q) :
                 T.node[n].kind = "kSource" /\ T.node[m].kind = "kSource" => n = m
        BY <4>2 DEF Good, Tidy, OneGlobal
      <4>4. \A n \in NodesOf(T, q) : n \in DOMAIN T.node /\ Kept(T.node[n], U.node[n])
        BY <1>1, <1>2, <1>5
      <4> QED BY <4>2, <4>3, <4>4 DEF Kept
    <3> QED BY <3>1, <3>2
  <2> QED BY <2>1, <2>2, <2>3 DEF Tidy
<1>15. ASSUME Sound(T, P), s \in T.live
       PROVE  Homed(U, P)
  <2> SUFFICES ASSUME NEW n \in DOMAIN T.node \ P
               PROVE  U.node[n].sub \in U.live /\ n \in NodesOf(U, U.node[n].sub)
    BY <1>1, <1>2 DEF Homed
  <2>1. T.node[n].sub \in T.live /\ n \in NodesOf(T, T.node[n].sub) /\ T.node[n].sub \in DOMAIN T.sub
    BY <1>15 DEF Sound, Homed, Good, Shape
  <2>2. CASE n \in NodesOf(T, o)
    BY <2>2, <1>1, <1>2, <1>8, <1>15
  <2>3. CASE n \notin NodesOf(T, o)
    <3>1. U.node[n] = T.node[n] /\ T.node[n].sub # o
      BY <2>1, <2>3, <1>1, <1>2
    <3> QED BY <2>1, <3>1, <1>1, <1>4, <1>8
  <2> QED BY <2>2, <2>3
<1>16. ASSUME Sound(T, P)
       PROVE  EdgesIn(U)
  <2> SUFFICES ASSUME NEW q \in DOMAIN T.sub, NEW i \in DOMAIN U.sub[q].edges
               PROVE  U.sub[q].edges[i][1] \in NodesOf(U, q) /\ U.sub[q].edges[i][2] \in NodesOf(U, q)
    BY <1>1 DEF EdgesIn
  <2>1. /\ \A j \in DOMAIN ea : ea[j][1] \in NodesOf(T, s) /\ ea[j][2] \in NodesOf(T, s)
        /\ \A j \in DOMAIN eb : eb[j][1] \in NodesOf(T, o) /\ eb[j][2] \in NodesOf(T, o)
    BY <1>16 DEF Sound, EdgesIn, ea, eb
  <2>2. CASE q = s
    <3> DEFINE S == Nat \X Nat
    <3>0. ea \in Seq(S) /\ eb \in Seq(S)
      BY <1>3
    <3> HIDE DEF S
    <3>1. /\ DOMAIN (ea \o eb) = 1 .. (Len(ea) + Len(eb))
          /\ DOMAIN ea = 1 .. Len(ea) /\ DOMAIN eb = 1 .. Len(eb)
          /\ \A j \in 1 .. (Len(ea) + Len(eb)) :
               \/ j \in 1 .. Len(ea) /\ (ea \o eb)[j] = ea[j]
               \/ j - Len(ea) \in 1 .. Len(eb) /\ (ea \o eb)[j] = eb[j - Len(ea)]
      BY ONLY <3>0, ConcatFacts
    <3>2. i \in DOMAIN (ea \o eb) /\ U.sub[q].edges[i] = (ea \o eb)[i]
      BY <2>2, <1>1
    <3>3. CASE i \in DOMAIN ea /\ (ea \o eb)[i] = ea[i]
      BY <3>2, <3>3, <2>1, <2>2, <1>8
    <3>4. CASE i - Len(ea) \in DOMAIN eb /\ (ea \o eb)[i] = eb[i - Len(ea)]
      BY <3>2, <3>4, <2>1, <2>2, <1>8
    <3> QED BY ONLY <3>1, <3>2, <3>3, <3>4
  <2>3. CASE q = o
    BY <2>3, <1>1
  <2>4. CASE q \notin {s, o}
    BY <2>4, <1>1, <1>4, <1>16 DEF Sound, EdgesIn
  <2> QED BY <2>2, <2>3, <2>4
<1> QED BY <1>2, <1>1, <1>8, <1>9, <1>10, <1>12, <1>13, <1>14, <1>15, <1>16, <1>17 DEF Good, Sound

\* What a merge does to either of the two lists and to the graph.
TakesIn(T, P, s, o, U) ==
  /\ Good(U, P) /\ Grows(T, U)
  /\ Len(U.node) = Len(T.node) /\ DOMAIN U.node = DOMAIN T.node /\ DOMAIN U.sub = DOMAIN T.sub
  /\ U.store = T.store
  /\ NodesOf(T, o) \subseteq NodesOf(U, s)
  /\ \A name : StoreExists(T, o, name) => StoreExists(U, s, name)
  /\ s \in T.live => s \in U.live
  /\ Sound(T, P) /\ s \in T.live => Sound(U, P)

\* kStream.merge, of two sub-topologies or of one with itself.
LEMMA MergedKeeps ==
  ASSUME NEW T, NEW P, Good(T, P), NEW s \in DOMAIN T.sub, NEW o \in DOMAIN T.sub,
         T.sub[s].kind = "stream",
         NEW U, U = Merged(T, s, o)
  PROVE  TakesIn(T, P, s, o, U)
<1>1. CASE s = o
  <2>1. U = T
    BY <1>1 DEF Merged
  <2>2. Grows(T, T)
    BY DEF Grows, Widens
  <2> QED BY <1>1, <2>1, <2>2 DEF TakesIn
<1>2. CASE s # o
  <2>1. /\ U.node = Renumbered(T, s, o).node /\ U.store = T.store /\ U.live = T.live \ {o}
        /\ DOMAIN U.sub = DOMAIN T.sub /\ Len(U.sub) = Len(T.sub)
    <3>1. Merges(T, s, o, U)
      BY <1>2, MergeFacts
    <3> QED BY <3>1 DEF Merges
  <2>2. Len(U.node) = Len(T.node) /\ DOMAIN U.node = DOMAIN T.node
    BY <1>2, <2>1, RenumberedFacts
  <2>3. /\ Good(U, P) /\ Grows(T, U)
        /\ NodesOf(T, o) \subseteq NodesOf(U, s)
        /\ \A name : StoreExists(T, o, name) => StoreExists(U, s, name)
        /\ Sound(T, P) /\ s \in T.live => Sound(U, P)
    BY <1>2, MergedTwoKeeps
  <2> QED BY <1>2, <2>1, <2>2, <2>3 DEF TakesIn
<1> QED BY <1>1, <1>2

-----------------------------------------------------------------------------
(* The handles.                                                            *)

\* What a handle promises it promises of every later topology.
LEMMA HandlesGrow ==
  ASSUME NEW T, NEW hs, Handles(T, hs), NEW U, Widens(T, U)
  PROVE  Handles(U, hs) /\ (Rooted(T, hs) => Rooted(U, hs))
<1>1. ASSUME NEW h \in DOMAIN hs
      PROVE  KnownHandle(U, hs, hs[h])
  <2>1. KnownHandle(T, hs, hs[h])
    BY DEF Handles
  <2>2. ASSUME hs[h].table # 0
        PROVE  /\ hs[h].split = 0
               /\ StoreExists(U, hs[h].stp, U.store[hs[h].table].name)
    <3>1. /\ hs[h].table \in DOMAIN T.store /\ hs[h].stp \in DOMAIN T.sub /\ hs[h].split = 0
          /\ StoreExists(T, hs[h].stp, T.store[hs[h].table].name)
      BY <2>1, <2>2 DEF KnownHandle
    <3> QED BY <3>1 DEF Widens
  <2> QED BY <2>1, <2>2 DEF KnownHandle, Widens
<1>2. ASSUME NEW s \in DOMAIN T.sub, NEW n, Reaches(T, s, n)
      PROVE  Reaches(U, s, n)
  BY <1>2 DEF Reaches, Widens
<1>3. ASSUME Rooted(T, hs), NEW h \in DOMAIN hs
      PROVE  RootedHandle(U, hs, hs[h])
  <2>1. KnownHandle(T, hs, hs[h]) /\ RootedHandle(T, hs, hs[h])
    BY <1>3 DEF Handles, Rooted
  <2>2. hs[h].split # 0 => hs[hs[h].split].stp \in DOMAIN T.sub
    BY <2>1 DEF Handles, KnownHandle
  <2>3. hs[h].stp \in DOMAIN T.sub
    BY <2>1 DEF KnownHandle
  <2> QED BY <2>1, <2>2, <2>3, <1>2 DEF RootedHandle
<1> QED BY <1>1, <1>3 DEF Handles, Rooted

\* A call that hands out nothing.
LEMMA NoHandle ==
  ASSUME NEW T, NEW hs, GraphOk(T, hs), NEW U, Good(U, {}), Widens(T, U)
  PROVE  GraphOk(U, hs) /\ (NoneLost(T, hs) /\ Sound(U, {}) => NoneLost(U, hs))
BY HandlesGrow DEF GraphOk, NoneLost

\* A call that hands out a handle.
LEMMA OneHandle ==
  ASSUME NEW T, NEW hs, GraphOk(T, hs), NEW U, Good(U, {}), Widens(T, U),
         NEW k \in HandleRecords, KnownHandle(U, hs, k), NEW ks, ks = Append(hs, k)
  PROVE  /\ GraphOk(U, ks)
         /\ NoneLost(T, hs) /\ Sound(U, {}) /\ RootedHandle(U, hs, k) => NoneLost(U, ks)
<1>1. Handles(U, hs) /\ (Rooted(T, hs) => Rooted(U, hs))
  BY HandlesGrow DEF GraphOk
<1>2. hs \in Seq(HandleRecords)
  BY DEF GraphOk, Handles
<1>3. /\ DOMAIN ks = DOMAIN hs \cup {Len(hs) + 1} /\ ks[Len(hs) + 1] = k
      /\ \A h \in DOMAIN hs : ks[h] = hs[h]
      /\ ks \in Seq(HandleRecords)
      /\ Len(hs) + 1 \notin DOMAIN hs
  <2>1. hs \in Seq(Range(hs))
    BY ONLY <1>2, SeqFacts
  <2>2. ks \in Seq(HandleRecords)
    BY <1>2
  <2> QED BY <2>1, <2>2, AppendAny
<1>4. \A h \in DOMAIN hs : hs[h].split \in {0} \cup DOMAIN hs
  BY <1>1 DEF Handles, KnownHandle
<1>5. k.split \in {0} \cup DOMAIN hs
  BY DEF KnownHandle
<1>6. \A h \in DOMAIN ks : KnownHandle(U, hs, ks[h])
  BY <1>1, <1>3 DEF Handles
<1>7. \A h \in DOMAIN ks : KnownHandle(U, ks, ks[h])
  BY <1>3, <1>6 DEF KnownHandle
<1>8. ASSUME Rooted(T, hs), RootedHandle(U, hs, k)
      PROVE  Rooted(U, ks)
  <2>1. \A h \in DOMAIN ks : RootedHandle(U, hs, ks[h])
    BY <1>1, <1>3, <1>8 DEF Rooted
  <2>2. \A h \in DOMAIN ks : ks[h].split # 0 => ks[ks[h].split] = hs[ks[h].split]
    BY <1>3, <1>4, <1>5
  <2> QED BY <2>1, <2>2 DEF Rooted, RootedHandle
<1> QED BY <1>3, <1>7, <1>8 DEF GraphOk, NoneLost, Handles

\* A merge: the other handle now adds its nodes where the merged nodes are.
LEMMA MovedHandle ==
  ASSUME NEW T, NEW hs, GraphOk(T, hs), NEW U, Good(U, {}), Widens(T, U),
         NEW o \in DOMAIN hs, NEW s \in DOMAIN U.sub, U.sub[s].kind = "stream",
         NodesOf(T, hs[o].stp) \subseteq NodesOf(U, s),
         \A name : StoreExists(T, hs[o].stp, name) => StoreExists(U, s, name),
         NEW ks, ks = [hs EXCEPT ![o].stp = s]
  PROVE  /\ GraphOk(U, ks)
         /\ NoneLost(T, hs) /\ Sound(U, {}) /\ hs[o].stp \in T.live => NoneLost(U, ks)
<1>1. Handles(U, hs) /\ (Rooted(T, hs) => Rooted(U, hs)) /\ Handles(T, hs)
  BY HandlesGrow DEF GraphOk
<1>2. hs \in Seq(HandleRecords) /\ hs[o] \in HandleRecords /\ s \in Nat
  <2>1. hs \in Seq(HandleRecords)
    BY DEF GraphOk, Handles
  <2>2. hs[o] \in HandleRecords
    BY ONLY <2>1, SeqFacts, o \in DOMAIN hs
  <2>3. s \in Nat
    BY DEF Good, Shape
  <2> QED BY <2>1, <2>2, <2>3
<1> DEFINE e == [hs[o] EXCEPT !.stp = s]
<1>3. /\ e \in HandleRecords /\ e.stp = s /\ e.root = hs[o].root /\ e.src = hs[o].src
      /\ e.table = hs[o].table /\ e.split = hs[o].split
  BY <1>2 DEF HandleRecords
<1>4. ks = [hs EXCEPT ![o] = e]
  OBVIOUS
<1> HIDE DEF e
<1>5. /\ ks \in Seq(HandleRecords) /\ DOMAIN ks = DOMAIN hs /\ ks[o] = e
      /\ \A h \in DOMAIN hs \ {o} : ks[h] = hs[h]
  BY ONLY <1>2, <1>3, <1>4, o \in DOMAIN hs, ReplaceIn
<1>6. \A h \in DOMAIN hs : KnownHandle(U, hs, hs[h]) /\ KnownHandle(T, hs, hs[h])
  BY <1>1 DEF Handles
<1>7. KnownHandle(U, ks, e)
  <2>1. ASSUME hs[o].table # 0
        PROVE  StoreExists(U, s, U.store[hs[o].table].name)
    <3>1. hs[o].table \in DOMAIN T.store /\ StoreExists(T, hs[o].stp, T.store[hs[o].table].name)
      BY <1>6, <2>1 DEF KnownHandle
    <3> QED BY <3>1 DEF Widens
  <2>2. KnownHandle(U, hs, hs[o])
    BY <1>6
  <2> QED BY <2>1, <2>2, <1>3, <1>5 DEF KnownHandle
<1>8. \A h \in DOMAIN ks : KnownHandle(U, ks, ks[h])
  BY <1>5, <1>6, <1>7 DEF KnownHandle
<1>9. ASSUME Rooted(T, hs), hs[o].stp \in T.live, NEW h \in DOMAIN hs
      PROVE  RootedHandle(U, ks, ks[h])
  <2>1. RootedHandle(U, hs, hs[h]) /\ RootedHandle(T, hs, hs[h]) /\ hs[o].stp \in T.live
    BY <1>1, <1>9 DEF Rooted
  <2>2. ks[h].root = hs[h].root /\ ks[h].split = hs[h].split
    BY <1>3, <1>5
  <2>3. hs[h].split \in {0} \cup DOMAIN hs
    BY <1>6 DEF KnownHandle
  <2>4. Reaches(U, ks[h].stp, hs[h].root)
    <3>1. CASE h = o
      BY <3>1, <2>1, <1>3, <1>5 DEF RootedHandle, Reaches
    <3>2. CASE h # o
      BY <3>2, <2>1, <1>5 DEF RootedHandle
    <3> QED BY <3>1, <3>2
  <2>5. ASSUME hs[h].split # 0
        PROVE  Reaches(U, ks[hs[h].split].stp, hs[h].root)
    <3>1. CASE hs[h].split = o
      BY <3>1, <2>1, <2>5, <1>3, <1>5 DEF RootedHandle, Reaches
    <3>2. CASE hs[h].split # o
      BY <3>2, <2>1, <2>3, <2>5, <1>5 DEF RootedHandle
    <3> QED BY <3>1, <3>2
  <2> QED BY <2>2, <2>4, <2>5 DEF RootedHandle
<1> QED BY <1>5, <1>8, <1>9 DEF GraphOk, NoneLost, Handles, Rooted

-----------------------------------------------------------------------------
(* The DSL calls.                                                          *)

\* What the invariant says of one handle.
LEMMA HandleFacts ==
  ASSUME GraphInv, NEW h \in DOMAIN stream
  PROVE  /\ stream[h] \in HandleRecords /\ KnownHandle(tp, stream, stream[h])
         /\ stream[h].stp \in DOMAIN tp.sub /\ stream[h].root \in DOMAIN tp.node
         /\ stream[h].src \in DOMAIN tp.node
         /\ ~stale => RootedHandle(tp, stream, stream[h])
         /\ ~stale /\ stream[h].stp \in tp.live => stream[h].root \in NodesOf(tp, stream[h].stp)
<1>1. stream \in Seq(HandleRecords) /\ KnownHandle(tp, stream, stream[h])
  BY DEF GraphInv, GraphOk, Handles
<1>2. stream[h] \in HandleRecords
  BY ONLY <1>1, SeqFacts, h \in DOMAIN stream
<1>3. ~stale => RootedHandle(tp, stream, stream[h])
  BY DEF GraphInv, NoneLost, Rooted
<1> QED BY <1>1, <1>2, <1>3 DEF KnownHandle, RootedHandle, Reaches

\* What a call leaves.
LEMMA ReturnFacts ==
  ASSUME GraphInv, NEW T, NEW hs, NEW through, Returns(T, hs, through)
  PROVE  /\ tp' = T /\ stream' = stream \o hs /\ stale' \in BOOLEAN
         /\ ~stale' => ~stale /\ \A h \in through : stream[h].stp \in tp.live
BY DEF Returns, GraphInv, Stale

\* The handles a call hands out are appended to the program's.
LEMMA HandsOut ==
  ASSUME NEW hs, hs \in Seq(HandleRecords), NEW c
  PROVE  /\ hs \o <<c>> = Append(hs, c)
         /\ hs \o <<>> = hs
         /\ \A d : hs \o <<c, d>> = Append(Append(hs, c), d)
OBVIOUS

\* newChildStream.
LEMMA ChildStreamOk ==
  ASSUME NEW T, NEW hs, NEW k, k \in HandleRecords, KnownHandle(T, hs, k),
         NEW U, Widens(T, U), Shape(U), NEW n, n \in DOMAIN U.node, n \in NodesOf(U, k.stp),
         NEW c, c = newChildStream(k, n)
  PROVE  /\ c \in HandleRecords /\ KnownHandle(U, hs, c) /\ RootedHandle(U, hs, c)
         /\ c.stp = k.stp /\ c.root = n /\ c.src = k.src /\ c.table = 0 /\ c.split = 0
<1>1. n \in Nat
  BY DEF Shape
<1>2. /\ c \in HandleRecords
      /\ c.stp = k.stp /\ c.root = n /\ c.src = k.src /\ c.table = 0 /\ c.split = 0
      /\ c.global = k.global
  BY <1>1 DEF newChildStream, HandleRecords
<1>3. /\ k.stp \in DOMAIN U.sub /\ k.src \in DOMAIN U.node
      /\ k.global \/ U.sub[k.stp].kind = "stream"
  BY DEF KnownHandle, Widens
<1> QED BY <1>2, <1>3 DEF KnownHandle, RootedHandle, Reaches

\* A child that is given a store is a table.
LEMMA ChildOfTableOk ==
  ASSUME NEW U, NEW hs, NEW k, k \in HandleRecords, KnownHandle(U, hs, k), RootedHandle(U, hs, k),
         k.split = 0, Shape(U), NEW b, b \in DOMAIN U.store, StoreExists(U, k.stp, U.store[b].name),
         NEW c, c = [k EXCEPT !.table = b]
  PROVE  c \in HandleRecords /\ KnownHandle(U, hs, c) /\ RootedHandle(U, hs, c)
<1>1. b \in Nat
  BY DEF Shape
<1>2. /\ c \in HandleRecords
      /\ c.stp = k.stp /\ c.root = k.root /\ c.src = k.src /\ c.table = b /\ c.split = k.split
      /\ c.global = k.global
  BY <1>1 DEF HandleRecords
<1> QED BY <1>2 DEF KnownHandle, RootedHandle

\* newChildTable.
LEMMA ChildTableOk ==
  ASSUME NEW T, NEW hs, NEW k, k \in HandleRecords, KnownHandle(T, hs, k), k.split = 0,
         NEW U, Widens(T, U), Shape(U), NEW n, n \in DOMAIN U.node, n \in NodesOf(U, k.stp),
         NEW c, c = newChildTable(k, n)
  PROVE  c \in HandleRecords /\ KnownHandle(U, hs, c) /\ RootedHandle(U, hs, c)
<1>1. n \in Nat
  BY DEF Shape
<1>2. /\ c \in HandleRecords
      /\ c.stp = k.stp /\ c.root = n /\ c.src = k.src /\ c.table = k.table /\ c.split = 0
      /\ c.global = k.global
  BY <1>1 DEF newChildTable, HandleRecords
<1>3. /\ k.stp \in DOMAIN U.sub /\ k.src \in DOMAIN U.node
      /\ k.global \/ U.sub[k.stp].kind = "stream"
  BY DEF KnownHandle, Widens
<1>4. ASSUME k.table # 0
      PROVE  k.table \in DOMAIN U.store /\ StoreExists(U, k.stp, U.store[k.table].name)
  <2>1. k.table \in DOMAIN T.store /\ k.stp \in DOMAIN T.sub /\ StoreExists(T, k.stp, T.store[k.table].name)
    BY <1>4 DEF KnownHandle
  <2> QED BY <2>1 DEF Widens
<1> QED BY <1>2, <1>3, <1>4 DEF KnownHandle, RootedHandle, Reaches

\* A new node below one that is in a list.
LEMMA AttachOk ==
  ASSUME NEW T, Good(T, {}), NEW s \in DOMAIN T.sub, NEW p \in DOMAIN T.node,
         NEW nd, FreshNode(nd),
         Fits(T, s, nd),
         NEW U, U = AddNodeWithEdge(NewNode(T, nd), s, p, Len(T.node) + 1)
  PROVE  /\ Good(U, {}) /\ Widens(T, U) /\ (~nd.fmt => Grows(T, U)) /\ Shape(U)
         /\ Grows(NewNode(T, nd), U) /\ U.node[Len(T.node) + 1].kind = nd.kind
         /\ Len(T.node) + 1 \in NodesOf(U, s)
         /\ Sound(T, {}) /\ s \in T.live /\ p \in NodesOf(T, s) => Sound(U, {})
         /\ Len(T.node) \in Nat /\ Len(U.node) = Len(T.node) + 1
         /\ Len(T.node) + 1 \in DOMAIN U.node
         /\ Len(U.sub) = Len(T.sub) /\ DOMAIN U.sub = DOMAIN T.sub
         /\ U.store = T.store /\ U.live = T.live
<1> DEFINE E == {}
<1>1. Good(T, E)
  OBVIOUS
<1> HIDE DEF E
<1>2. /\ Good(U, E) /\ Widens(T, U) /\ (~nd.fmt => Grows(T, U))
      /\ Grows(NewNode(T, nd), U) /\ U.node[Len(T.node) + 1].kind = nd.kind
      /\ Len(T.node) + 1 \in NodesOf(U, s)
      /\ Sound(T, E) /\ s \in T.live /\ p \in NodesOf(T, s) => Sound(U, E)
      /\ Len(T.node) \in Nat /\ Len(U.node) = Len(T.node) + 1
      /\ Len(T.node) + 1 \in DOMAIN U.node
      /\ Len(U.sub) = Len(T.sub) /\ DOMAIN U.sub = DOMAIN T.sub
      /\ U.store = T.store /\ U.live = T.live
  BY <1>1, AttachKeeps, SMTT(30)
<1> QED BY <1>2 DEF E, Good

\* A node below a handle's root, whose name set-up may format.
LEMMA BelowWidens ==
  ASSUME GraphInv, NEW h \in DOMAIN stream, NEW nd, FreshNode(nd),
         nd.kind \notin NeedsStore \cup {"kSource"}, nd.fmt => ~stream[h].global,
         NEW U, U = Below(h, nd)
  PROVE  /\ Good(U, {}) /\ Widens(tp, U) /\ (~nd.fmt => Grows(tp, U)) /\ Shape(U)
         /\ Last1(tp) + 1 \in NodesOf(U, stream[h].stp) /\ Last1(tp) + 1 \in DOMAIN U.node
         /\ U.node[Last1(tp) + 1].kind = nd.kind /\ Grows(NewNode(tp, nd), U)
         /\ ~stale /\ stream[h].stp \in tp.live => Sound(U, {})
         /\ Last1(tp) \in Nat /\ Len(U.node) = Last1(tp) + 1
         /\ Len(U.sub) = Len(tp.sub) /\ DOMAIN U.sub = DOMAIN tp.sub
         /\ U.store = tp.store /\ U.live = tp.live
<1>1. /\ stream[h].stp \in DOMAIN tp.sub /\ stream[h].root \in DOMAIN tp.node
      /\ ~stale /\ stream[h].stp \in tp.live => stream[h].root \in NodesOf(tp, stream[h].stp)
      /\ KnownHandle(tp, stream, stream[h])
  BY HandleFacts
<1>2. Good(tp, {}) /\ (~stale => Sound(tp, {}))
  BY DEF GraphInv, GraphOk, NoneLost
<1>3. U = AddNodeWithEdge(NewNode(tp, nd), stream[h].stp, stream[h].root, Len(tp.node) + 1)
  BY DEF Below, Last1
<1>6. Fits(tp, stream[h].stp, nd)
  BY <1>1 DEF Fits, KnownHandle
<1> DEFINE s == stream[h].stp
           p == stream[h].root
<1> HIDE DEF s, p
<1>4. /\ Good(tp, {}) /\ s \in DOMAIN tp.sub /\ p \in DOMAIN tp.node
      /\ Fits(tp, s, nd)
      /\ U = AddNodeWithEdge(NewNode(tp, nd), s, p, Len(tp.node) + 1)
      /\ FreshNode(nd)
  BY <1>1, <1>2, <1>3, <1>6 DEF s, p
<1>5. /\ Good(U, {}) /\ Widens(tp, U) /\ (~nd.fmt => Grows(tp, U)) /\ Shape(U)
      /\ Len(tp.node) + 1 \in NodesOf(U, s)
      /\ U.node[Len(tp.node) + 1].kind = nd.kind /\ Grows(NewNode(tp, nd), U)
      /\ Sound(tp, {}) /\ s \in tp.live /\ p \in NodesOf(tp, s) => Sound(U, {})
      /\ Len(tp.node) \in Nat /\ Len(U.node) = Len(tp.node) + 1
      /\ Len(tp.node) + 1 \in DOMAIN U.node
      /\ Len(U.sub) = Len(tp.sub) /\ DOMAIN U.sub = DOMAIN tp.sub
      /\ U.store = tp.store /\ U.live = tp.live
  BY ONLY <1>4, AttachOk, SMTT(30)
<1> QED BY <1>1, <1>2, <1>5 DEF s, p, Last1

\* A node below a handle's root, as most calls make one.
LEMMA BelowKeeps ==
  ASSUME GraphInv, NEW h \in DOMAIN stream, NEW nd, Simple(nd),
         NEW U, U = Below(h, nd)
  PROVE  /\ Good(U, {}) /\ Grows(tp, U) /\ Shape(U)
         /\ Last1(tp) + 1 \in NodesOf(U, stream[h].stp) /\ Last1(tp) + 1 \in DOMAIN U.node
         /\ ~stale /\ stream[h].stp \in tp.live => Sound(U, {})
         /\ Last1(tp) \in Nat /\ Len(U.node) = Last1(tp) + 1
         /\ Len(U.sub) = Len(tp.sub) /\ DOMAIN U.sub = DOMAIN tp.sub
         /\ U.store = tp.store /\ U.live = tp.live
BY BelowWidens DEF Simple

\* What a call keeps.
CallKept == GraphInv' /\ (Pairs(tp) => Pairs(tp)')

\* A call through one handle that hands out another one.
LEMMA OneHandleKept ==
  ASSUME GraphInv, NEW h \in DOMAIN stream, NEW U, Good(U, {}), Widens(tp, U),
         Pairs(tp) => Pairs(U),
         ~stale /\ stream[h].stp \in tp.live => Sound(U, {}),
         NEW c, c \in HandleRecords, KnownHandle(U, stream, c), RootedHandle(U, stream, c),
         Returns(U, <<c>>, {h})
  PROVE  CallKept
<1>1. /\ tp' = U /\ stream' = stream \o <<c>> /\ stale' \in BOOLEAN
      /\ ~stale' => ~stale /\ stream[h].stp \in tp.live
  BY ReturnFacts
<1>2. GraphOk(tp, stream) /\ stream \in Seq(HandleRecords)
  BY DEF GraphInv, GraphOk, Handles
<1>3. stream' = Append(stream, c)
  BY <1>1, <1>2, HandsOut
<1>4. GraphOk(U, stream') /\ (NoneLost(tp, stream) /\ Sound(U, {}) => NoneLost(U, stream'))
  BY <1>2, <1>3, OneHandle
<1> QED BY <1>1, <1>4 DEF GraphInv, CallKept

LEMMA OneHandleCall ==
  ASSUME GraphInv, NEW h \in DOMAIN stream, NEW U, Good(U, {}), Grows(tp, U),
         ~stale /\ stream[h].stp \in tp.live => Sound(U, {}),
         NEW c, c \in HandleRecords, KnownHandle(U, stream, c), RootedHandle(U, stream, c),
         Returns(U, <<c>>, {h})
  PROVE  CallKept
<1>1. Widens(tp, U) /\ (Pairs(tp) => Pairs(U))
  BY GrowsWidens, PairsGrow
<1> QED BY <1>1, OneHandleKept

\* A call that changes nothing of the graph.
LEMMA GraphStutters ==
  ASSUME GraphInv, UNCHANGED <<tp, stream, stale>>
  PROVE  CallKept
BY DEF GraphInv, CallKept

\* What the node constructors make.
LEMMA NodeFacts ==
  /\ \A kind : FreshNode(Node(kind)) /\ ~Node(kind).fmt /\ Node(kind).kind = kind
  /\ \A t : FreshNode(Source(t)) /\ ~Source(t).fmt /\ Source(t).kind = "kSource"
  /\ \A t, f : FreshNode(Sink(t, f)) /\ Sink(t, f).fmt = f /\ Sink(t, f).kind = "sink"
  /\ \A kind, s : /\ FreshNode(WithStore(kind, s)) /\ ~WithStore(kind, s).fmt
                  /\ WithStore(kind, s).kind = kind /\ WithStore(kind, s).store = s
<1>1. \A kind : FreshNode(Node(kind)) /\ ~Node(kind).fmt /\ Node(kind).kind = kind
  BY DEF Node, NodeFields, FreshNode
<1>2. \A t : FreshNode(Source(t)) /\ ~Source(t).fmt /\ Source(t).kind = "kSource"
  BY DEF Node, NodeFields, Source, FreshNode
<1>3. \A t, f : FreshNode(Sink(t, f)) /\ Sink(t, f).fmt = f /\ Sink(t, f).kind = "sink"
  BY DEF Node, NodeFields, Sink, FreshNode
<1>4. \A kind, s : /\ FreshNode(WithStore(kind, s)) /\ ~WithStore(kind, s).fmt
                   /\ WithStore(kind, s).kind = kind /\ WithStore(kind, s).store = s
  BY DEF Node, NodeFields, WithStore, FreshNode
<1> QED BY <1>1, <1>2, <1>3, <1>4

\* A one-node call: Process, Rekey, Split and the like.
LEMMA ChildCall ==
  ASSUME GraphInv, NEW h \in DOMAIN stream, NEW nd, Simple(nd),
         NEW U, U = Below(h, nd)
  PROVE  /\ Child(h) \in HandleRecords /\ KnownHandle(U, stream, Child(h))
         /\ RootedHandle(U, stream, Child(h))
         /\ Child(h).stp = stream[h].stp /\ Child(h).root = Last1(tp) + 1 /\ Child(h).split = 0
         /\ Child(h).table = 0
<1>1. /\ Widens(tp, U) /\ Shape(U)
      /\ Last1(tp) + 1 \in NodesOf(U, stream[h].stp) /\ Last1(tp) + 1 \in DOMAIN U.node
  BY BelowKeeps, GrowsWidens
<1>2. stream[h] \in HandleRecords /\ KnownHandle(tp, stream, stream[h])
  BY HandleFacts
<1>3. Child(h) = newChildStream(stream[h], Last1(tp) + 1)
  BY DEF Child
<1> QED BY <1>1, <1>2, <1>3, ChildStreamOk

\* kStream.NewProcessor and its like: one node below the handle's root.
LEMMA ProcessKeeps ==
  ASSUME GraphInv, NEW h \in DOMAIN stream, NEW kind, kind \notin NeedsStore \cup {"kSource"}, Process(h, kind)
  PROVE  CallKept
<1> DEFINE U == Below(h, Node(kind))
<1>1. Simple(Node(kind))
  BY NodeFacts DEF Simple
<1>2. /\ Good(U, {}) /\ Grows(tp, U)
      /\ ~stale /\ stream[h].stp \in tp.live => Sound(U, {})
  BY <1>1, BelowKeeps
<1>3. Child(h) \in HandleRecords /\ KnownHandle(U, stream, Child(h)) /\ RootedHandle(U, stream, Child(h))
  BY <1>1, ChildCall
<1>4. Returns(U, <<Child(h)>>, {h})
  BY DEF Process
<1> QED BY <1>2, <1>3, <1>4, OneHandleCall

LEMMA RekeyKeeps ==
  ASSUME GraphInv, NEW h \in DOMAIN stream, NEW kind, kind \notin NeedsStore \cup {"kSource"}, NEW d, Rekey(h, kind, d)
  PROVE  CallKept
<1> DEFINE U == Below(h, Node(kind))
           c == IF d /\ kind # "flatmap" THEN Child(h) ELSE maybeRepartitioned(Child(h))
<1>1. Simple(Node(kind))
  BY NodeFacts DEF Simple
<1>2. /\ Good(U, {}) /\ Grows(tp, U)
      /\ ~stale /\ stream[h].stp \in tp.live => Sound(U, {})
  BY <1>1, BelowKeeps
<1>3. Child(h) \in HandleRecords /\ KnownHandle(U, stream, Child(h)) /\ RootedHandle(U, stream, Child(h))
  BY <1>1, ChildCall
<1>4. ASSUME NEW k, k \in HandleRecords, KnownHandle(U, stream, k), RootedHandle(U, stream, k)
      PROVE  LET m == maybeRepartitioned(k)
             IN m \in HandleRecords /\ KnownHandle(U, stream, m) /\ RootedHandle(U, stream, m)
  <2> DEFINE m == maybeRepartitioned(k)
  <2>1. /\ m \in HandleRecords /\ m.stp = k.stp /\ m.root = k.root /\ m.src = k.src
        /\ m.table = k.table /\ m.split = k.split /\ m.global = k.global
    BY <1>4 DEF maybeRepartitioned, HandleRecords
  <2> QED BY <1>4, <2>1 DEF KnownHandle, RootedHandle
<1>5. c \in HandleRecords /\ KnownHandle(U, stream, c) /\ RootedHandle(U, stream, c)
  BY <1>3, <1>4
<1>6. Returns(U, <<c>>, {h})
  BY DEF Rekey
<1> HIDE DEF c, U
<1> QED BY <1>2, <1>5, <1>6, OneHandleCall

LEMMA SplitKeeps ==
  ASSUME GraphInv, NEW h \in DOMAIN stream, Split(h)
  PROVE  CallKept
<1> DEFINE U == Below(h, Node("splitter"))
           c == [Child(h) EXCEPT !.split = h]
<1>1. Simple(Node("splitter"))
  BY NodeFacts DEF NeedsStore, Simple
<1>2. /\ Good(U, {}) /\ Grows(tp, U) /\ Shape(U)
      /\ ~stale /\ stream[h].stp \in tp.live => Sound(U, {})
  BY <1>1, BelowKeeps
<1>3. /\ Child(h) \in HandleRecords /\ KnownHandle(U, stream, Child(h)) /\ RootedHandle(U, stream, Child(h))
      /\ Child(h).stp = stream[h].stp /\ Child(h).table = 0
  BY <1>1, ChildCall
<1>4. h \in Nat
  BY DEF GraphInv, GraphOk, Handles
<1>5. /\ c \in HandleRecords /\ c.stp = Child(h).stp /\ c.root = Child(h).root /\ c.src = Child(h).src
      /\ c.table = 0 /\ c.split = h /\ c.global = Child(h).global
  BY <1>3, <1>4 DEF HandleRecords
<1>6. Returns(U, <<c>>, {h})
  BY DEF Split
<1> HIDE DEF c, U
<1>7. KnownHandle(U, stream, c) /\ RootedHandle(U, stream, c)
  BY <1>3, <1>5 DEF KnownHandle, RootedHandle
<1> QED BY <1>2, <1>5, <1>6, <1>7, OneHandleCall

LEMMA ToKeeps ==
  ASSUME GraphInv, NEW h \in DOMAIN stream, NEW topic, To(h, topic)
  PROVE  CallKept
<1> DEFINE U == Below(h, Sink(<<topic, 0>>, FALSE))
<1>1. Simple(Sink(<<topic, 0>>, FALSE))
  BY NodeFacts DEF NeedsStore, Simple
<1>2. /\ Good(U, {}) /\ Grows(tp, U)
      /\ ~stale /\ stream[h].stp \in tp.live => Sound(U, {})
  BY <1>1, BelowKeeps
<1>3. Returns(U, <<>>, {h})
  BY DEF To
<1> HIDE DEF U
<1>4. /\ tp' = U /\ stream' = stream \o <<>> /\ stale' \in BOOLEAN
      /\ ~stale' => ~stale /\ stream[h].stp \in tp.live
  BY <1>3, ReturnFacts
<1>5. GraphOk(tp, stream) /\ stream \in Seq(HandleRecords)
  BY DEF GraphInv, GraphOk, Handles
<1>6. stream' = stream
  BY <1>4, <1>5, HandsOut
<1>7. GraphOk(U, stream) /\ (NoneLost(tp, stream) /\ Sound(U, {}) => NoneLost(U, stream))
  BY <1>2, <1>5, NoHandle, GrowsWidens
<1>8. Pairs(tp) => Pairs(U)
  BY <1>2, PairsGrow
<1> QED BY <1>2, <1>4, <1>6, <1>7, <1>8 DEF GraphInv, CallKept

LEMMA BranchKeeps ==
  ASSUME GraphInv, NEW h \in DOMAIN stream, Branch(h)
  PROVE  CallKept
<1> DEFINE k == stream[h]
           s == k.stp
           b == Last1(tp) + 1
           N == Node("branch")
           S == Below(h, Node("splitter"))
           T == AddNodeWithEdge(NewNode(S, N), s, b, b + 1)
           U == AddNodeWithEdge(NewNode(T, N), s, b, b + 2)
           c == newChildStream(k, b + 1)
           d == newChildStream(k, b + 2)
<1>1. Simple(N) /\ Simple(Node("splitter")) /\ FreshNode(N) /\ ~N.fmt
  BY NodeFacts DEF NeedsStore, Simple
<1>2. Returns(U, <<c, d>>, {h})
  BY DEF Branch
<1>3. /\ Good(S, {}) /\ Grows(tp, S) /\ b \in NodesOf(S, s) /\ b \in DOMAIN S.node
      /\ ~stale /\ s \in tp.live => Sound(S, {})
      /\ Last1(tp) \in Nat /\ Len(S.node) = b /\ DOMAIN S.sub = DOMAIN tp.sub /\ S.live = tp.live
  BY <1>1, BelowKeeps
<1>4. k \in HandleRecords /\ KnownHandle(tp, stream, k) /\ s \in DOMAIN tp.sub
  BY HandleFacts
<1>5. T = AddNodeWithEdge(NewNode(S, N), s, b, Len(S.node) + 1) /\ s \in DOMAIN S.sub
  BY <1>3, <1>4
<1> HIDE DEF N, S, s, k, b
<1>6. T = AddNodeWithEdge(NewNode(S, N), s, b, Len(S.node) + 1)
  BY <1>5
<1> HIDE DEF T
<1>22. Fits(S, s, N)
  BY <1>1 DEF Fits, Simple
<1>7. /\ Good(T, {}) /\ Grows(S, T) /\ Len(S.node) + 1 \in NodesOf(T, s)
      /\ Sound(S, {}) /\ s \in S.live /\ b \in NodesOf(S, s) => Sound(T, {})
      /\ Len(T.node) = Len(S.node) + 1 /\ DOMAIN T.sub = DOMAIN S.sub /\ T.live = S.live
      /\ Len(S.node) + 1 \in DOMAIN T.node
  BY <1>1, <1>3, <1>5, <1>6, <1>22, AttachOk
<1>21. \A X : Fits(X, s, N)
  BY <1>1 DEF Fits, Simple
<1>8. b \in DOMAIN T.node /\ (s \in T.live => b \in NodesOf(T, s)) /\ s \in DOMAIN T.sub
  BY <1>3, <1>5, <1>7 DEF Grows, Widens
<1>9. U = AddNodeWithEdge(NewNode(T, N), s, b, Len(T.node) + 1)
  <2>1. Len(T.node) + 1 = b + 2
    BY <1>3, <1>7 DEF b
  <2> QED BY <2>1
<1> HIDE DEF U
<1>10. /\ Good(U, {}) /\ Grows(T, U) /\ Shape(U) /\ Len(T.node) + 1 \in NodesOf(U, s)
       /\ Sound(T, {}) /\ s \in T.live /\ b \in NodesOf(T, s) => Sound(U, {})
       /\ Len(T.node) + 1 \in DOMAIN U.node
  <2>1. /\ Good(T, {}) /\ s \in DOMAIN T.sub /\ b \in DOMAIN T.node
        /\ FreshNode(N) /\ ~N.fmt /\ Fits(T, s, N)
        /\ U = AddNodeWithEdge(NewNode(T, N), s, b, Len(T.node) + 1)
    BY <1>1, <1>7, <1>8, <1>9, <1>21 DEF Simple
  <2>2. /\ Good(U, {}) /\ Grows(T, U) /\ Shape(U) /\ Len(T.node) + 1 \in NodesOf(U, s)
        /\ Len(T.node) + 1 \in DOMAIN U.node
    BY ONLY <2>1, AttachOk
  <2>3. Sound(T, {}) /\ s \in T.live /\ b \in NodesOf(T, s) => Sound(U, {})
    BY ONLY <2>1, AttachOk
  <2> QED BY <2>2, <2>3
<1>11. Len(S.node) + 1 = b + 1 /\ Len(T.node) + 1 = b + 2
  BY <1>3, <1>7 DEF b
<1>12. /\ Grows(tp, T) /\ Grows(tp, U)
       /\ Widens(tp, T) /\ Widens(tp, U) /\ Widens(T, U)
  BY <1>3, <1>7, <1>10, GrowsTransitive, GrowsWidens
<1>13. /\ c \in HandleRecords /\ KnownHandle(T, stream, c) /\ RootedHandle(T, stream, c)
  <2>1. b + 1 \in DOMAIN T.node /\ b + 1 \in NodesOf(T, k.stp) /\ Shape(T)
    BY <1>7, <1>11 DEF s, Good
  <2> QED BY <2>1, <1>4, <1>12, ChildStreamOk
<1>14. /\ tp' = U /\ stream' = stream \o <<c, d>> /\ stale' \in BOOLEAN
       /\ ~stale' => ~stale /\ s \in tp.live
  BY <1>2, ReturnFacts DEF s, k
<1>15. GraphOk(tp, stream) /\ stream \in Seq(HandleRecords)
  BY DEF GraphInv, GraphOk, Handles
<1> DEFINE hs == Append(stream, c)
<1> HIDE DEF c, d
<1>16. GraphOk(T, hs) /\ (NoneLost(tp, stream) /\ Sound(T, {}) => NoneLost(T, hs))
  BY <1>7, <1>12, <1>13, <1>15, OneHandle
<1>17. stream' = Append(hs, d)
  BY <1>14, <1>15, HandsOut
<1>18. d \in HandleRecords /\ KnownHandle(U, hs, d) /\ RootedHandle(U, hs, d)
  <2>1. b + 2 \in DOMAIN U.node /\ b + 2 \in NodesOf(U, k.stp) /\ Shape(U)
    BY <1>10, <1>11 DEF s
  <2>2. KnownHandle(tp, hs, k)
    <3>1. DOMAIN stream \subseteq DOMAIN hs
      BY <1>15
    <3> QED BY <3>1, <1>4 DEF KnownHandle
  <2>3. d = newChildStream(k, b + 2)
    BY DEF d
  <2> QED BY <2>1, <2>2, <2>3, <1>4, <1>12, ChildStreamOk
<1> HIDE DEF hs
<1>19. GraphOk(U, stream') /\ (NoneLost(T, hs) /\ Sound(U, {}) => NoneLost(U, stream'))
  BY <1>10, <1>12, <1>16, <1>17, <1>18, OneHandle
<1>20. ~stale /\ s \in tp.live => Sound(U, {}) /\ Sound(T, {})
  BY <1>3, <1>7, <1>8, <1>10
<1>23. Pairs(tp) => Pairs(U)
  BY <1>12, PairsGrow
<1> QED BY <1>14, <1>16, <1>19, <1>20, <1>23 DEF GraphInv, CallKept

\* BranchedStream.New adds to the sub-topology of the stream that was split.
LEMMA SplitNewKeeps ==
  ASSUME GraphInv, NEW h \in Splits, SplitNew(h)
  PROVE  CallKept
<1> DEFINE o == stream[h].split
           s == stream[o].stp
           p == stream[h].root
           N == Node("branch")
           U == AddNodeWithEdge(NewNode(tp, N), s, p, Len(tp.node) + 1)
           c == newChildStream(stream[o], Len(tp.node) + 1)
<1>1. Simple(N) /\ FreshNode(N) /\ ~N.fmt
  BY NodeFacts DEF NeedsStore, Simple
<1>2. Returns(U, <<c>>, {o})
  BY DEF SplitNew, Last1
<1>3. h \in DOMAIN stream /\ o # 0
  BY DEF Splits
<1>4. /\ KnownHandle(tp, stream, stream[h]) /\ p \in DOMAIN tp.node
      /\ ~stale => RootedHandle(tp, stream, stream[h])
  BY <1>3, HandleFacts
<1>5. o \in DOMAIN stream
  BY <1>3, <1>4 DEF KnownHandle
<1>6. /\ stream[o] \in HandleRecords /\ KnownHandle(tp, stream, stream[o]) /\ s \in DOMAIN tp.sub
      /\ ~stale /\ s \in tp.live => p \in NodesOf(tp, s)
  <2>1. ~stale => Reaches(tp, s, p)
    BY <1>3, <1>4 DEF RootedHandle
  <2> QED BY <2>1, <1>5, HandleFacts DEF Reaches
<1>7. Good(tp, {}) /\ (~stale => Sound(tp, {}))
  BY DEF GraphInv, GraphOk, NoneLost
<1> HIDE DEF s, p, N
<1>12. Fits(tp, s, N)
  BY <1>1 DEF Fits, Simple
<1>8. U = AddNodeWithEdge(NewNode(tp, N), s, p, Len(tp.node) + 1)
  OBVIOUS
<1> HIDE DEF U
<1>9. /\ Good(U, {}) /\ Grows(tp, U) /\ Shape(U) /\ Len(tp.node) + 1 \in NodesOf(U, s)
      /\ Sound(tp, {}) /\ s \in tp.live /\ p \in NodesOf(tp, s) => Sound(U, {})
      /\ Len(tp.node) + 1 \in DOMAIN U.node
  BY <1>1, <1>4, <1>6, <1>7, <1>8, <1>12, AttachOk
<1>10. c \in HandleRecords /\ KnownHandle(U, stream, c) /\ RootedHandle(U, stream, c)
  BY <1>6, <1>9, ChildStreamOk, GrowsWidens DEF s
<1>11. ~stale /\ stream[o].stp \in tp.live => Sound(U, {})
  BY <1>6, <1>7, <1>9 DEF s
<1> HIDE DEF c, o
<1> QED BY <1>2, <1>5, <1>9, <1>10, <1>11, OneHandleCall

\* A store that a call makes is in the handle's sub-topology afterwards.
WithNewStore(T, s, sb) == AddStore([T EXCEPT !.store = Append(@, sb)], s, Len(T.store) + 1)

\* A store builder is made and put into a sub-topology.
LEMMA NewStoreOk ==
  ASSUME NEW T, NEW P, Good(T, P), NEW s \in DOMAIN T.sub, NEW sb, DOMAIN sb = StoreFields,
         NEW V, V = WithNewStore(T, s, sb)
  PROVE  /\ Good(V, P) /\ Grows(T, V) /\ (Sound(T, P) => Sound(V, P))
         /\ V.node = T.node /\ V.live = T.live /\ DOMAIN V.sub = DOMAIN T.sub
         /\ \A q \in DOMAIN T.sub : NodesOf(V, q) = NodesOf(T, q)
         /\ Len(T.store) + 1 \in DOMAIN V.store /\ V.store[Len(T.store) + 1] = sb
         /\ StoreExists(V, s, sb.name)
<1> DEFINE b == Len(T.store) + 1
           X == [T EXCEPT !.store = Append(T.store, sb)]
<1>1. V = AddStore(X, s, b)
  BY DEF WithNewStore
<1>2. X = [T EXCEPT !.store = Append(T.store, sb)]
  OBVIOUS
<1> HIDE DEF X
<1>3. /\ SameLists(T, X) /\ (Sound(T, P) => Sound(X, P))
      /\ X.node = T.node /\ X.sub = T.sub
      /\ Len(T.store) \in Nat /\ b \in DOMAIN X.store /\ X.store[b] = sb
  BY <1>2, NewStoreKeeps
<1>4. /\ Good(X, P) /\ Grows(T, X)
      /\ \A q \in DOMAIN T.sub : NodesOf(X, q) = NodesOf(T, q)
  BY <1>3, SameListsKeeps
<1> HIDE DEF b
<1>5. /\ SameLists(X, V) /\ (Sound(X, P) => Sound(V, P))
      /\ V.node = X.node /\ V.store = X.store /\ StoreExists(V, s, X.store[b].name)
  <2>1. s \in DOMAIN X.sub
    BY <1>3
  <2> QED BY <1>1, <1>3, <1>4, <2>1, AddStoreKeeps
<1>6. /\ Good(V, P) /\ Grows(X, V)
      /\ \A q \in DOMAIN X.sub : NodesOf(V, q) = NodesOf(X, q)
  BY <1>4, <1>5, SameListsKeeps
<1>7. Grows(T, V)
  BY <1>4, <1>6, GrowsTransitive
<1> QED BY <1>3, <1>4, <1>5, <1>6, <1>7 DEF SameLists, SamePlaces, b

\* What the store builder's constructor makes.
LEMMA StoreBuilderFields ==
  \A name, changelog : /\ DOMAIN StoreBuilder(name, changelog) = StoreFields
                       /\ StoreBuilder(name, changelog).name = name
BY DEF StoreBuilder, StoreFields

\* Aggregate and ToTable: a new store, and a node that asks for it.
LEMMA TableMadeKeeps ==
  ASSUME GraphInv, NEW h \in DOMAIN stream, NEW sb, DOMAIN sb = StoreFields,
         NEW nd, FreshNode(nd), ~nd.fmt, nd.kind # "kSource", nd.store = sb.name,
         NEW V, V = WithNewStore(tp, stream[h].stp, sb),
         NEW U, U = AddNodeWithEdge(NewNode(V, nd), stream[h].stp, stream[h].root, Len(tp.node) + 1),
         NEW c, c = [newChildStream(stream[h], Len(tp.node) + 1) EXCEPT !.table = Len(tp.store) + 1],
         Returns(U, <<c>>, {h})
  PROVE  CallKept
<1> DEFINE k == stream[h]
           s == k.stp
           p == k.root
           n == Len(tp.node) + 1
           b == Len(tp.store) + 1
           d == newChildStream(k, n)
<1>1. /\ k \in HandleRecords /\ KnownHandle(tp, stream, k) /\ s \in DOMAIN tp.sub /\ p \in DOMAIN tp.node
      /\ ~stale /\ s \in tp.live => p \in NodesOf(tp, s)
  BY HandleFacts
<1>2. Good(tp, {}) /\ (~stale => Sound(tp, {}))
  BY DEF GraphInv, GraphOk, NoneLost
<1>3. V = WithNewStore(tp, s, sb)
  OBVIOUS
<1>4. U = AddNodeWithEdge(NewNode(V, nd), s, p, n)
  OBVIOUS
<1>5. c = [d EXCEPT !.table = b]
  OBVIOUS
<1> HIDE DEF s, p
<1>6. /\ Good(V, {}) /\ Grows(tp, V) /\ (Sound(tp, {}) => Sound(V, {}))
      /\ V.node = tp.node /\ V.live = tp.live /\ DOMAIN V.sub = DOMAIN tp.sub
      /\ \A q \in DOMAIN tp.sub : NodesOf(V, q) = NodesOf(tp, q)
      /\ b \in DOMAIN V.store /\ V.store[b] = sb
      /\ StoreExists(V, s, sb.name)
  BY <1>1, <1>2, <1>3, NewStoreOk
<1>7. U = AddNodeWithEdge(NewNode(V, nd), s, p, Len(V.node) + 1) /\ n = Len(V.node) + 1
  BY <1>4, <1>6
<1>8. /\ s \in DOMAIN V.sub /\ p \in DOMAIN V.node /\ Fits(V, s, nd) /\ FreshNode(nd) /\ ~nd.fmt
  BY <1>1, <1>6 DEF Fits
<1>9. /\ Good(U, {}) /\ Grows(V, U) /\ Shape(U) /\ n \in NodesOf(U, s)
      /\ Sound(V, {}) /\ s \in V.live /\ p \in NodesOf(V, s) => Sound(U, {})
      /\ n \in DOMAIN U.node /\ U.store = V.store
  BY <1>6, <1>7, <1>8, AttachOk, SMTT(30)
<1>10. Grows(tp, U) /\ Widens(tp, U)
  BY <1>6, <1>9, GrowsTransitive, GrowsWidens
<1>11. StoreExists(U, s, U.store[b].name) /\ b \in DOMAIN U.store
  BY <1>6, <1>8, <1>9 DEF Grows, Widens
<1> HIDE DEF n, b, k
<1>12. /\ d \in HandleRecords /\ KnownHandle(U, stream, d) /\ RootedHandle(U, stream, d)
       /\ d.stp = s /\ d.split = 0
  BY <1>1, <1>9, <1>10, ChildStreamOk DEF s
<1> HIDE DEF d
<1>13. c \in HandleRecords /\ KnownHandle(U, stream, c) /\ RootedHandle(U, stream, c)
  BY <1>5, <1>9, <1>11, <1>12, ChildOfTableOk
<1>14. ~stale /\ stream[h].stp \in tp.live => Sound(U, {})
  BY <1>1, <1>2, <1>6, <1>9 DEF s, k
<1> QED BY <1>9, <1>10, <1>13, <1>14, OneHandleCall

\* kStream.Aggregate: the aggregator asks for the store made with it.
LEMMA AggregateKeeps ==
  ASSUME GraphInv, NEW h \in DOMAIN stream, NEW store, Aggregate(h, store)
  PROVE  CallKept
<1> DEFINE sb == StoreBuilder(store, NoTopic)
           nd == WithStore("aggregator", store)
           V == WithNewStore(tp, stream[h].stp, sb)
           U == AddNodeWithEdge(NewNode(V, nd), stream[h].stp, stream[h].root, Len(tp.node) + 1)
           c == [newChildStream(stream[h], Len(tp.node) + 1) EXCEPT !.table = Len(tp.store) + 1]
<1>1. Panics \/ Returns(U, <<c>>, {h})
  BY DEF Aggregate, WithNewStore, Last1
<1>2. /\ DOMAIN sb = StoreFields /\ nd.store = sb.name
      /\ FreshNode(nd) /\ ~nd.fmt /\ nd.kind # "kSource"
  BY NodeFacts, StoreBuilderFields
<1> HIDE DEF sb, nd
<1>3. CASE Returns(U, <<c>>, {h})
  BY <1>2, <1>3, TableMadeKeeps
<1>4. CASE Panics
  BY <1>4, GraphStutters DEF Panics
<1> QED BY <1>1, <1>3, <1>4

LEMMA ToTableKeeps ==
  ASSUME GraphInv, NEW h \in DOMAIN stream, NEW store, NEW useSource, ToTable(h, store, useSource)
  PROVE  CallKept
<1> DEFINE changelog == IF useSource THEN tp.node[stream[h].src].topic ELSE NoTopic
           sb == StoreBuilder(store, changelog)
           nd == WithStore("to_table", store)
           V == WithNewStore(tp, stream[h].stp, sb)
           U == AddNodeWithEdge(NewNode(V, nd), stream[h].stp, stream[h].root, Len(tp.node) + 1)
           c == [newChildStream(stream[h], Len(tp.node) + 1) EXCEPT !.table = Len(tp.store) + 1]
<1>1. Returns(U, <<c>>, {h})
  BY DEF ToTable, WithNewStore, Last1
<1> HIDE DEF changelog
<1>2. /\ DOMAIN sb = StoreFields /\ nd.store = sb.name
      /\ FreshNode(nd) /\ ~nd.fmt /\ nd.kind # "kSource"
  BY NodeFacts, StoreBuilderFields
<1> HIDE DEF sb, nd
<1> QED BY <1>1, <1>2, TableMadeKeeps

LEMMA AddStateStoreKeeps ==
  ASSUME GraphInv, NEW h \in DOMAIN stream, NEW store, AddStateStore(h, store)
  PROVE  CallKept
<1> DEFINE sb == StoreBuilder(store, NoTopic)
           U == WithNewStore(tp, stream[h].stp, sb)
<1>1. Returns(U, <<>>, {h})
  BY DEF AddStateStore, WithNewStore
<1>2. DOMAIN sb = StoreFields
  BY StoreBuilderFields
<1> HIDE DEF sb
<1>3. stream[h].stp \in DOMAIN tp.sub
  BY HandleFacts
<1>4. Good(tp, {}) /\ GraphOk(tp, stream) /\ stream \in Seq(HandleRecords)
  BY DEF GraphInv, GraphOk, Handles
<1>5. Good(U, {}) /\ Grows(tp, U) /\ (Sound(tp, {}) => Sound(U, {}))
  BY <1>2, <1>3, <1>4, NewStoreOk
<1> HIDE DEF U
<1>6. tp' = U /\ stream' = stream \o <<>> /\ stale' \in BOOLEAN /\ (~stale' => ~stale)
  BY <1>1, ReturnFacts
<1>7. stream' = stream
  BY <1>4, <1>6, HandsOut
<1>8. GraphOk(U, stream) /\ (NoneLost(tp, stream) /\ Sound(U, {}) => NoneLost(U, stream))
  BY <1>4, <1>5, NoHandle, GrowsWidens
<1>9. Pairs(tp) => Pairs(U)
  BY <1>5, PairsGrow
<1> QED BY <1>5, <1>6, <1>7, <1>8, <1>9 DEF GraphInv, NoneLost, CallKept

\* JoinGlobalTable; the joiner reads the store of the global table.
LEMMA JoinGlobalTableKeeps ==
  ASSUME GraphInv, NEW h \in DOMAIN stream, stream[h].split = 0, NEW g, JoinGlobalTable(h, g)
  PROVE  CallKept
<1> DEFINE nd == WithStore("GTableJoiner", tp.store[stream[g].table].name)
           U == Below(h, nd)
           c == newChildTable(stream[h], Last1(tp) + 1)
<1>1. Simple(nd)
  BY NodeFacts DEF NeedsStore, Simple
<1>2. Returns(U, <<c>>, {h})
  BY DEF JoinGlobalTable
<1> HIDE DEF nd
<1>3. /\ Good(U, {}) /\ Grows(tp, U) /\ Shape(U)
      /\ Last1(tp) + 1 \in NodesOf(U, stream[h].stp) /\ Last1(tp) + 1 \in DOMAIN U.node
      /\ ~stale /\ stream[h].stp \in tp.live => Sound(U, {})
  BY <1>1, BelowKeeps
<1>4. stream[h] \in HandleRecords /\ KnownHandle(tp, stream, stream[h])
  BY HandleFacts
<1> HIDE DEF U
<1>5. c \in HandleRecords /\ KnownHandle(U, stream, c) /\ RootedHandle(U, stream, c)
  BY <1>3, <1>4, ChildTableOk, GrowsWidens
<1> QED BY <1>2, <1>3, <1>5, OneHandleCall

\* A table's processor: the child is a table of the same store.
LEMMA TableProcessKeeps ==
  ASSUME GraphInv, NEW t \in DOMAIN stream, stream[t].split = 0,
         NEW kind, kind \notin NeedsStore \cup {"kSource"}, TableProcess(t, kind)
  PROVE  CallKept
<1> DEFINE nd == Node(kind)
           U == Below(t, nd)
           c == newChildTable(stream[t], Last1(tp) + 1)
<1>1. Simple(nd)
  BY NodeFacts DEF Simple
<1>2. Returns(U, <<c>>, {t})
  BY DEF TableProcess
<1> HIDE DEF nd
<1>3. /\ Good(U, {}) /\ Grows(tp, U) /\ Shape(U)
      /\ Last1(tp) + 1 \in NodesOf(U, stream[t].stp) /\ Last1(tp) + 1 \in DOMAIN U.node
      /\ ~stale /\ stream[t].stp \in tp.live => Sound(U, {})
  BY <1>1, BelowKeeps
<1>4. stream[t] \in HandleRecords /\ KnownHandle(tp, stream, stream[t])
  BY HandleFacts
<1> HIDE DEF U
<1>5. c \in HandleRecords /\ KnownHandle(U, stream, c) /\ RootedHandle(U, stream, c)
  BY <1>3, <1>4, ChildTableOk, GrowsWidens
<1> QED BY <1>2, <1>3, <1>5, OneHandleCall

LEMMA ToStreamKeeps ==
  ASSUME GraphInv, NEW t \in DOMAIN stream, ToStream(t)
  PROVE  CallKept
<1> DEFINE c == newChildStream(stream[t], stream[t].root)
<1>1. Returns(tp, <<c>>, {t})
  BY DEF ToStream
<1>2. tp' = tp /\ stream' = stream \o <<c>> /\ stale' \in BOOLEAN /\ (~stale' => ~stale)
  BY <1>1, ReturnFacts
<1>3. GraphOk(tp, stream) /\ stream \in Seq(HandleRecords) /\ Good(tp, {}) /\ Widens(tp, tp)
  BY DEF GraphInv, GraphOk, Handles, Widens
<1>4. stream[t] \in HandleRecords /\ KnownHandle(tp, stream, stream[t])
  BY HandleFacts
<1>5. /\ c \in HandleRecords /\ c.stp = stream[t].stp /\ c.root = stream[t].root
      /\ c.src = stream[t].src /\ c.table = 0 /\ c.split = 0 /\ c.global = stream[t].global
  BY <1>4 DEF newChildStream, HandleRecords
<1>6. KnownHandle(tp, stream, c)
  BY <1>4, <1>5 DEF KnownHandle
<1>7. ~stale => RootedHandle(tp, stream, c)
  BY <1>5, HandleFacts DEF RootedHandle
<1> HIDE DEF c
<1>8. stream' = Append(stream, c)
  BY <1>2, <1>3, HandsOut
<1>9. /\ GraphOk(tp, stream')
      /\ NoneLost(tp, stream) /\ Sound(tp, {}) /\ RootedHandle(tp, stream, c) => NoneLost(tp, stream')
  BY <1>3, <1>5, <1>6, <1>8, OneHandle
<1> QED BY <1>2, <1>7, <1>9 DEF GraphInv, NoneLost, CallKept

\* A source is the first node of its sub-topology.
LEMMA RootHandleOk ==
  ASSUME NEW U, Good(U, {}), NEW hs, NEW s \in DOMAIN U.sub, NEW n \in DOMAIN U.node,
         n \in NodesOf(U, s), U.sub[s].kind = "stream", NEW c, c = Handle(s, n, n)
  PROVE  /\ c \in HandleRecords /\ KnownHandle(U, hs, c) /\ RootedHandle(U, hs, c)
         /\ c.stp = s /\ c.root = n /\ c.src = n /\ c.table = 0 /\ c.split = 0
<1>1. s \in Nat /\ n \in Nat
  BY DEF Good, Shape
<1>2. /\ c \in HandleRecords
      /\ c.stp = s /\ c.root = n /\ c.src = n /\ c.table = 0 /\ c.split = 0
  BY <1>1 DEF Handle, HandleRecords
<1> QED BY <1>2 DEF KnownHandle, RootedHandle, Reaches

\* one node that is made and not yet in a list
Only(n) == {n}

\* The one pending node is put into a list.
LEMMA PlacedOk ==
  ASSUME NEW V, NEW n, Good(V, Only(n)), NEW s \in DOMAIN V.sub,
         Fits(V, s, V.node[n]), NEW U, U = AddNode(V, s, n)
  PROVE  /\ Good(U, {}) /\ Grows(V, U) /\ n \in NodesOf(U, s) /\ n \in DOMAIN U.node
         /\ Sound(V, Only(n)) /\ s \in V.live => Sound(U, {})
         /\ DOMAIN U.sub = DOMAIN V.sub /\ U.store = V.store /\ U.live = V.live
<1> DEFINE P == Only(n)
<1>1. /\ Minus(P, n) = {} /\ MayAdd(V, P, s, n) /\ n \in DOMAIN V.node
  BY DEF Only, Good, Minus, MayAdd
<1>2. Fits(V, s, V.node[n])
  OBVIOUS
<1> HIDE DEF P
<1>3. Good(V, P) /\ U = AddNode(V, s, n) /\ s \in DOMAIN V.sub
  BY DEF P
<1>4. /\ Good(U, Minus(P, n)) /\ Grows(V, U) /\ n \in NodesOf(U, s)
      /\ Sound(V, P) /\ s \in V.live => Sound(U, Minus(P, n))
      /\ DOMAIN U.node = DOMAIN V.node
      /\ DOMAIN U.sub = DOMAIN V.sub /\ U.store = V.store /\ U.live = V.live
  <2>1. Good(U, Minus(P, n)) /\ Grows(V, U)
    BY ONLY <1>1, <1>2, <1>3, AddNodeKeeps
  <2>2. n \in NodesOf(U, s) /\ DOMAIN U.node = DOMAIN V.node
    BY ONLY <1>1, <1>2, <1>3, AddNodeKeeps
  <2>3. Sound(V, P) /\ s \in V.live => Sound(U, Minus(P, n))
    BY ONLY <1>1, <1>2, <1>3, AddNodeKeeps
  <2>4. DOMAIN U.sub = DOMAIN V.sub /\ U.store = V.store /\ U.live = V.live
    BY ONLY <1>1, <1>2, <1>3, AddNodeKeeps
  <2> QED BY <2>1, <2>2, <2>3, <2>4
<1> QED BY <1>1, <1>4 DEF P

\* NewNode makes a node that is in no list; the first one that is made.
LEMMA NewNodeOk ==
  ASSUME NEW T, Good(T, {}), NEW nd, FreshNode(nd), NEW U, U = NewNode(T, nd)
  PROVE  /\ Good(U, Only(Len(T.node) + 1)) /\ Widens(T, U) /\ (~nd.fmt => Grows(T, U))
         /\ Sound(T, {}) => Sound(U, Only(Len(T.node) + 1))
         /\ Len(T.node) \in Nat /\ Len(U.node) = Len(T.node) + 1
         /\ U.node[Len(T.node) + 1] = nd
         /\ U.sub = T.sub /\ U.store = T.store /\ U.live = T.live
<1> DEFINE P == {}
           Q == Plus(P, Len(T.node) + 1)
<1>1. Q = Only(Len(T.node) + 1) /\ Good(T, P)
  BY DEF Only, Plus
<1> HIDE DEF P
<1>2. /\ Good(U, Plus(P, Len(T.node) + 1)) /\ Widens(T, U) /\ (~nd.fmt => Grows(T, U))
      /\ Sound(T, P) => Sound(U, Plus(P, Len(T.node) + 1))
      /\ Len(T.node) \in Nat /\ Len(U.node) = Len(T.node) + 1
      /\ U.node[Len(T.node) + 1] = nd
      /\ U.sub = T.sub /\ U.store = T.store /\ U.live = T.live
  BY <1>1, NewNodeKeeps
<1> QED BY <1>1, <1>2 DEF P

\* ThroughTopic makes a sink and then a source: if set-up will format the
\* sink's name, they are a pair.
LEMMA PairMade ==
  ASSUME NEW T, Good(T, {}), Pairs(T), NEW sink, FreshNode(sink),
         NEW X, X = NewNode(T, sink), NEW B, Good(B, {}), Grows(X, B), Len(B.node) = Len(X.node),
         NEW source, FreshNode(source), source.kind = "kSource",
         sink.fmt => PairedWith(sink, source),
         NEW M, M = NewNode(B, source), NEW U, Grows(M, U)
  PROVE  Pairs(U)
<1> DEFINE n == Len(T.node) + 1
<1>1. /\ Len(T.node) \in Nat /\ Len(X.node) = n /\ X.node[n] = sink
      /\ X.node = Append(T.node, sink) /\ T.node \in Seq(Range(T.node))
  BY NewNodeKeeps DEF NewNode, Good, Shape, TopologyFields
<1>2. DOMAIN X.node = DOMAIN T.node \cup {n} /\ \A m \in DOMAIN T.node : X.node[m] = T.node[m]
  BY <1>1, AppendAny
<1>3. M.node = Append(B.node, source) /\ B.node \in Seq(Range(B.node)) /\ Len(B.node) = n
  BY <1>1 DEF NewNode, Good, Shape, TopologyFields
<1>4. /\ DOMAIN M.node = DOMAIN B.node \cup {n + 1} /\ M.node[n + 1] = source
      /\ \A m \in DOMAIN B.node : M.node[m] = B.node[m]
  BY <1>3, AppendAny
<1>5. \A m \in DOMAIN X.node : /\ m \in DOMAIN U.node /\ U.node[m].kind = X.node[m].kind
                               /\ U.node[m].topic = X.node[m].topic
                               /\ U.node[m].fmt = X.node[m].fmt /\ U.node[m].auto = X.node[m].auto
  BY <1>4 DEF Grows, Widens
<1>6. /\ n + 1 \in DOMAIN U.node /\ U.node[n + 1].kind = source.kind
      /\ U.node[n + 1].topic = source.topic
      /\ U.node[n + 1].fmt = source.fmt /\ U.node[n + 1].auto = source.auto
  BY <1>4 DEF Grows, Widens
<1> HIDE DEF n
<1> SUFFICES ASSUME NEW m \in DOMAIN U.node, U.node[m].kind = "sink", U.node[m].fmt
             PROVE  m + 1 \in DOMAIN U.node /\ PairedWith(U.node[m], U.node[m + 1])
  BY DEF Pairs
<1>7. m \in DOMAIN M.node /\ M.node[m].kind = "sink" /\ M.node[m].fmt
  BY DEF Grows, Widens
<1>8. m \in DOMAIN B.node /\ B.node[m].kind = "sink" /\ B.node[m].fmt
  BY <1>4, <1>7
<1>9. m \in DOMAIN X.node /\ X.node[m].kind = "sink" /\ X.node[m].fmt
  BY <1>8 DEF Grows, Widens
<1>10. CASE m = n
  BY <1>1, <1>2, <1>5, <1>6, <1>9, <1>10 DEF PairedWith
<1>11. CASE m \in DOMAIN T.node
  <2>1. m + 1 \in DOMAIN T.node /\ PairedWith(T.node[m], T.node[m + 1])
    BY <1>2, <1>9, <1>11 DEF Pairs
  <2> QED BY <1>2, <1>5, <1>11, <2>1 DEF PairedWith
<1> QED BY <1>2, <1>9, <1>10, <1>11

\* ThroughTopic: a sink below the handle, a source that starts a sub-topology.
LEMMA ThroughTopicKeeps ==
  ASSUME GraphInv, NEW h \in DOMAIN stream,
         NEW sink, FreshNode(sink), sink.kind = "sink", sink.fmt => ~stream[h].global,
         NEW source, FreshNode(source), source.kind = "kSource",
         sink.fmt => PairedWith(sink, source),
         NEW U, U = ThroughTopic(h, sink, source)
  PROVE  /\ Good(U, {}) /\ Widens(tp, U) /\ (Pairs(tp) => Pairs(U))
         /\ ~stale /\ stream[h].stp \in tp.live => Sound(U, {})
         /\ Len(tp.sub) + 1 \in DOMAIN U.sub /\ Last1(tp) + 2 \in DOMAIN U.node
         /\ Last1(tp) + 2 \in NodesOf(U, Len(tp.sub) + 1)
         /\ U.sub[Len(tp.sub) + 1].kind = "stream"
<1> DEFINE B == Below(h, sink)
           M == NewNode(B, source)
           V == NewSub(M, "stream")
           n == Last1(tp) + 2
           m == Len(B.node) + 1
           s == Len(tp.sub) + 1
<1>1. U = AddNode(V, Len(V.sub), n)
  BY DEF ThroughTopic
<1>20. sink.kind \notin NeedsStore \cup {"kSource"} /\ source.kind \notin NeedsStore
  BY DEF NeedsStore
<1>2. /\ Good(B, {}) /\ Widens(tp, B) /\ Grows(NewNode(tp, sink), B)
      /\ ~stale /\ stream[h].stp \in tp.live => Sound(B, {})
      /\ Last1(tp) \in Nat /\ Len(B.node) = Last1(tp) + 1 /\ Len(B.sub) = Len(tp.sub)
  BY <1>20, BelowWidens
<1> HIDE DEF B
<1>3. n = m
  BY <1>2
<1> HIDE DEF n
<1>4. /\ Good(M, Only(m)) /\ Widens(B, M) /\ (Sound(B, {}) => Sound(M, Only(m)))
      /\ M.node[m] = source /\ M.sub = B.sub
  BY <1>2, NewNodeOk
<1>12. M = NewNode(B, source)
  OBVIOUS
<1> HIDE DEF M, m
<1>5. Good(M, Only(m)) /\ "stream" \in {"stream", "global-table"} /\ V = NewSub(M, "stream")
  BY <1>4
<1> HIDE DEF V
<1>6. /\ Good(V, Only(m)) /\ Grows(M, V) /\ (Sound(M, Only(m)) => Sound(V, Only(m)))
      /\ V.node = M.node
      /\ Len(M.sub) \in Nat /\ Len(V.sub) = Len(M.sub) + 1
      /\ Len(M.sub) + 1 \in DOMAIN V.sub /\ Len(M.sub) + 1 \in V.live
      /\ V.sub[Len(M.sub) + 1].kind = "stream"
  BY ONLY <1>5, NewSubKeeps
<1>7. s = Len(V.sub) /\ s \in DOMAIN V.sub /\ s \in V.live /\ V.sub[s].kind = "stream"
  BY <1>2, <1>4, <1>6
<1> HIDE DEF s
<1>8. Fits(V, s, V.node[m]) /\ U = AddNode(V, s, m)
  BY <1>1, <1>3, <1>4, <1>6, <1>7, <1>20 DEF Fits
<1>9. /\ Good(U, {}) /\ Grows(V, U) /\ m \in NodesOf(U, s) /\ m \in DOMAIN U.node
      /\ Sound(V, Only(m)) /\ s \in V.live => Sound(U, {})
      /\ DOMAIN U.sub = DOMAIN V.sub
  BY <1>6, <1>7, <1>8, PlacedOk
<1>10. Grows(M, U) /\ Widens(tp, U) /\ U.sub[s].kind = "stream"
  <2>1. Grows(M, U)
    BY <1>6, <1>9, GrowsTransitive
  <2>2. Widens(B, U)
    BY <1>4, <2>1, GrowsWidens, WidensTransitive
  <2>3. Widens(tp, U)
    BY <1>2, <2>2, WidensTransitive
  <2> QED BY <1>7, <1>9, <2>1, <2>3 DEF Grows, Widens
<1>11. ~stale /\ stream[h].stp \in tp.live => Sound(U, {})
  BY <1>2, <1>4, <1>6, <1>7, <1>9
<1>13. ASSUME Pairs(tp)
       PROVE  Pairs(U)
  <2> DEFINE X == NewNode(tp, sink)
  <2>1. Good(tp, {})
    BY DEF GraphInv, GraphOk
  <2>2. Len(X.node) = Len(tp.node) + 1
    BY <2>1, NewNodeKeeps
  <2>3. Len(B.node) = Len(X.node) /\ Grows(X, B)
    BY <1>2, <2>2 DEF Last1
  <2>4. X = NewNode(tp, sink)
    OBVIOUS
  <2> HIDE DEF X
  <2> QED BY <1>2, <1>10, <1>12, <1>13, <2>1, <2>3, <2>4, PairMade
<1> QED BY <1>3, <1>7, <1>9, <1>10, <1>11, <1>13 DEF n, s

LEMMA ThroughKeeps ==
  ASSUME GraphInv, NEW h \in DOMAIN stream, NEW topic, Through(h, topic)
  PROVE  CallKept
<1> DEFINE a == Sink(<<topic, 0>>, FALSE)
           b == Source(<<topic, 0>>)
           U == ThroughTopic(h, a, b)
           c == Handle(Len(tp.sub) + 1, Last1(tp) + 2, Last1(tp) + 2)
<1>1. FreshNode(a) /\ a.kind = "sink" /\ ~a.fmt /\ FreshNode(b) /\ b.kind = "kSource"
  BY NodeFacts
<1>2. Returns(U, <<c>>, {h})
  BY DEF Through
<1> HIDE DEF a, b
<1>3. /\ Good(U, {}) /\ Widens(tp, U) /\ (Pairs(tp) => Pairs(U))
      /\ ~stale /\ stream[h].stp \in tp.live => Sound(U, {})
      /\ Len(tp.sub) + 1 \in DOMAIN U.sub /\ Last1(tp) + 2 \in DOMAIN U.node
      /\ Last1(tp) + 2 \in NodesOf(U, Len(tp.sub) + 1)
      /\ U.sub[Len(tp.sub) + 1].kind = "stream"
  BY <1>1, ThroughTopicKeeps
<1> HIDE DEF U
<1>4. c \in HandleRecords /\ KnownHandle(U, stream, c) /\ RootedHandle(U, stream, c)
  BY <1>3, RootHandleOk
<1> QED BY <1>2, <1>3, <1>4, OneHandleKept

LEMMA RepartitionKeeps ==
  ASSUME GraphInv, NEW h \in DOMAIN stream, ~stream[h].global, NEW topic, Repartition(h, topic)
  PROVE  CallKept
<1> DEFINE a == Sink(<<topic, 0>>, TRUE)
           src == Source(<<topic, 0>>)
           b == [src EXCEPT !.fmt = TRUE, !.auto = TRUE, !.as = stream[h].src]
           U == ThroughTopic(h, a, b)
           d == Handle(Len(tp.sub) + 1, Last1(tp) + 2, Last1(tp) + 2)
           c == [d EXCEPT !.rep = TRUE]
<1>1. /\ FreshNode(a) /\ a.kind = "sink" /\ FreshNode(src) /\ src.kind = "kSource"
      /\ a.topic = <<topic, 0>> /\ src.topic = <<topic, 0>>
  <2>1. a.topic = <<topic, 0>> /\ src.topic = <<topic, 0>>
    BY DEF Sink, Source, Node
  <2> QED BY <2>1, NodeFacts
<1>2. Returns(U, <<c>>, {h})
  BY DEF Repartition
<1> HIDE DEF a, src
<1>3. FreshNode(b) /\ b.kind = "kSource" /\ PairedWith(a, b)
  BY <1>1 DEF NodeFields, FreshNode, PairedWith
<1> HIDE DEF b
<1>4. /\ Good(U, {}) /\ Widens(tp, U) /\ (Pairs(tp) => Pairs(U))
      /\ ~stale /\ stream[h].stp \in tp.live => Sound(U, {})
      /\ Len(tp.sub) + 1 \in DOMAIN U.sub /\ Last1(tp) + 2 \in DOMAIN U.node
      /\ Last1(tp) + 2 \in NodesOf(U, Len(tp.sub) + 1)
      /\ U.sub[Len(tp.sub) + 1].kind = "stream"
  BY <1>1, <1>3, ThroughTopicKeeps
<1> HIDE DEF U
<1>5. d \in HandleRecords /\ KnownHandle(U, stream, d) /\ RootedHandle(U, stream, d)
  BY <1>4, RootHandleOk
<1> HIDE DEF d
<1>6. /\ c \in HandleRecords /\ c.stp = d.stp /\ c.root = d.root /\ c.src = d.src
      /\ c.table = d.table /\ c.split = d.split /\ c.global = d.global
  BY <1>5 DEF HandleRecords
<1> HIDE DEF c
<1>7. KnownHandle(U, stream, c) /\ RootedHandle(U, stream, c)
  BY <1>5, <1>6 DEF KnownHandle, RootedHandle
<1> QED BY <1>2, <1>4, <1>6, <1>7, OneHandleKept

\* The same with the sets of pending nodes named.
LEMMA NewNodeMore ==
  ASSUME NEW T, NEW P, Good(T, P), NEW nd, FreshNode(nd), ~nd.fmt, NEW U, U = NewNode(T, nd),
         NEW n, n = Len(T.node) + 1, NEW Q, Q = Plus(P, n)
  PROVE  /\ Good(U, Q) /\ Grows(T, U) /\ (Sound(T, P) => Sound(U, Q))
         /\ Len(T.node) \in Nat /\ Len(U.node) = n
         /\ U.node[n] = nd /\ \A m \in DOMAIN T.node : U.node[m] = T.node[m]
         /\ n \in DOMAIN U.node /\ n \notin DOMAIN T.node
         /\ U.sub = T.sub /\ U.store = T.store /\ U.live = T.live
<1>1. /\ Good(U, Plus(P, Len(T.node) + 1)) /\ Grows(T, U)
      /\ Sound(T, P) => Sound(U, Plus(P, Len(T.node) + 1))
      /\ Len(T.node) \in Nat /\ Len(U.node) = Len(T.node) + 1
      /\ U.node[Len(T.node) + 1] = nd /\ Len(T.node) + 1 \notin DOMAIN T.node
      /\ U.sub = T.sub /\ U.store = T.store /\ U.live = T.live
  BY NewNodeKeeps
<1>2. U.node = Append(T.node, nd) /\ T.node \in Seq(Range(T.node))
  BY DEF NewNode, Good, Shape, TopologyFields
<1>3. \A m \in DOMAIN T.node : U.node[m] = T.node[m]
  BY <1>2, AppendAny
<1>4. Good(U, Q) /\ n \in DOMAIN U.node
  BY <1>1 DEF Good, Plus
<1> QED BY <1>1, <1>3, <1>4

\* AddNodeWithEdge of a pending node.
LEMMA EdgeMore ==
  ASSUME NEW T, NEW P, Good(T, P), NEW s \in DOMAIN T.sub, NEW p \in DOMAIN T.node,
         NEW n, MayAdd(T, P, s, n),
         Fits(T, s, T.node[n]),
         NEW U, U = AddNodeWithEdge(T, s, p, n), NEW Q, Q = Minus(P, n)
  PROVE  /\ Good(U, Q) /\ Grows(T, U) /\ n \in NodesOf(U, s) /\ n \in DOMAIN U.node
         /\ Sound(T, P) /\ s \in T.live /\ p \in NodesOf(T, s) => Sound(U, Q)
         /\ DOMAIN U.node = DOMAIN T.node /\ DOMAIN U.sub = DOMAIN T.sub
         /\ U.store = T.store /\ U.live = T.live
<1>1. n \in DOMAIN T.node
  BY DEF Good, Listed, MayAdd
<1>2. /\ Good(U, Minus(P, n)) /\ Grows(T, U) /\ n \in NodesOf(U, s)
      /\ Sound(T, P) /\ s \in T.live /\ p \in NodesOf(T, s) => Sound(U, Minus(P, n))
      /\ DOMAIN U.node = DOMAIN T.node /\ DOMAIN U.sub = DOMAIN T.sub
      /\ U.store = T.store /\ U.live = T.live
  BY AddNodeWithEdgeKeeps, SMTT(30)
<1> QED BY <1>1, <1>2

\* A node that gets another parent: it is listed once more.
LEMMA AgainOk ==
  ASSUME NEW T, Good(T, {}), NEW s \in DOMAIN T.sub, NEW p \in DOMAIN T.node,
         NEW n, n \in NodesOf(T, s), T.node[n].kind \notin TopicKinds, NEW U, U = AddNodeWithEdge(T, s, p, n)
  PROVE  /\ Good(U, {}) /\ Grows(T, U) /\ Shape(U) /\ n \in NodesOf(U, s) /\ n \in DOMAIN U.node
         /\ Sound(T, {}) /\ s \in T.live /\ p \in NodesOf(T, s) => Sound(U, {})
         /\ DOMAIN U.node = DOMAIN T.node /\ DOMAIN U.sub = DOMAIN T.sub
         /\ U.store = T.store /\ U.live = T.live
<1> DEFINE P == {}
<1>1. P = Minus(P, n) /\ Good(T, P) /\ MayAdd(T, P, s, n)
  BY DEF Minus, MayAdd
<1>2. Fits(T, s, T.node[n])
  BY DEF Good, Stored, Fits, Tidy, OneGlobal, TopicKinds
<1> HIDE DEF P
<1>3. /\ Good(U, P) /\ Grows(T, U) /\ n \in NodesOf(U, s) /\ n \in DOMAIN U.node
      /\ Sound(T, P) /\ s \in T.live /\ p \in NodesOf(T, s) => Sound(U, P)
      /\ DOMAIN U.node = DOMAIN T.node /\ DOMAIN U.sub = DOMAIN T.sub
      /\ U.store = T.store /\ U.live = T.live
  BY <1>1, <1>2, EdgeMore
<1> QED BY <1>3 DEF P, Good

\* A call that starts a sub-topology of its own.
LEMMA RootCall ==
  ASSUME GraphInv, NEW U, Good(U, {}), Grows(tp, U), ~stale => Sound(U, {}),
         NEW c, c \in HandleRecords, KnownHandle(U, stream, c), RootedHandle(U, stream, c),
         Returns(U, <<c>>, {})
  PROVE  CallKept
<1>1. tp' = U /\ stream' = stream \o <<c>> /\ stale' \in BOOLEAN /\ (~stale' => ~stale)
  BY ReturnFacts
<1>2. GraphOk(tp, stream) /\ stream \in Seq(HandleRecords)
  BY DEF GraphInv, GraphOk, Handles
<1>3. stream' = Append(stream, c)
  BY <1>1, <1>2, HandsOut
<1>4. GraphOk(U, stream') /\ (NoneLost(tp, stream) /\ Sound(U, {}) => NoneLost(U, stream'))
  BY <1>2, <1>3, OneHandle, GrowsWidens
<1>5. Pairs(tp) => Pairs(U)
  BY PairsGrow
<1> QED BY <1>1, <1>4, <1>5 DEF GraphInv, CallKept

LEMMA KStreamKeeps ==
  ASSUME GraphInv, NEW topic, NEW auto, KStream(topic, auto)
  PROVE  CallKept
<1> DEFINE nd0 == Source(<<topic, 0>>)
           nd == [nd0 EXCEPT !.auto = auto]
           S == NewSub(tp, "stream")
           V == NewNode(S, nd)
           n == Len(tp.node) + 1
           s == Len(tp.sub) + 1
           U == AddNode(V, s, n)
           c == Handle(s, n, n)
<1>1. Panics \/ Returns(U, <<c>>, {})
  BY DEF KStream, Last1
<1>2. FreshNode(nd0) /\ ~nd0.fmt /\ nd0.kind \notin NeedsStore
  BY NodeFacts DEF NeedsStore
<1> HIDE DEF nd0
<1>3. FreshNode(nd) /\ ~nd.fmt /\ nd.kind \notin NeedsStore
  BY <1>2 DEF NodeFields, FreshNode
<1> HIDE DEF nd
<1>4. Good(tp, {}) /\ (~stale => Sound(tp, {}))
  BY DEF GraphInv, GraphOk, NoneLost
<1>5. /\ Good(S, {}) /\ Grows(tp, S) /\ (Sound(tp, {}) => Sound(S, {}))
      /\ S.node = tp.node /\ s \in DOMAIN S.sub /\ s \in S.live
      /\ S.sub[s].kind = "stream"
  BY <1>4, NewSubKeeps
<1> HIDE DEF S, s
<1>6. n = Len(S.node) + 1
  BY <1>5
<1> HIDE DEF n
<1>7. /\ Good(V, Only(n)) /\ Grows(S, V) /\ (Sound(S, {}) => Sound(V, Only(n)))
      /\ V.node[n] = nd /\ V.sub = S.sub /\ V.live = S.live
  BY <1>3, <1>5, <1>6, NewNodeOk
<1> HIDE DEF V
<1>8. s \in DOMAIN V.sub /\ V.sub[s].kind = "stream" /\ Fits(V, s, V.node[n])
  BY <1>3, <1>5, <1>7 DEF Fits
<1>9. /\ Good(U, {}) /\ Grows(V, U) /\ n \in NodesOf(U, s) /\ n \in DOMAIN U.node
      /\ Sound(V, Only(n)) /\ s \in V.live => Sound(U, {})
      /\ DOMAIN U.sub = DOMAIN V.sub
  BY <1>7, <1>8, PlacedOk
<1> HIDE DEF U
<1>10. Grows(tp, V) /\ Grows(tp, U)
  BY <1>5, <1>7, <1>9, GrowsTransitive
<1>11. s \in DOMAIN U.sub /\ U.sub[s].kind = "stream"
  BY <1>8, <1>9 DEF Grows, Widens
<1>12. c \in HandleRecords /\ KnownHandle(U, stream, c) /\ RootedHandle(U, stream, c)
  BY <1>9, <1>11, RootHandleOk
<1> HIDE DEF c
<1>13. CASE Returns(U, <<c>>, {})
  <2>1. ~stale => Sound(U, {})
    BY <1>4, <1>5, <1>7, <1>9
  <2> QED BY <1>9, <1>10, <1>12, <1>13, <2>1, RootCall
<1>14. CASE Panics
  BY <1>14, GraphStutters DEF Panics
<1> QED BY <1>1, <1>13, <1>14

\* The global table's store is made with its two nodes.
LEMMA GlobalTableKeeps ==
  ASSUME GraphInv, NEW topic, NEW store, GlobalTable(topic, store)
  PROVE  CallKept
<1> DEFINE a == Source(<<topic, 0>>)
           g == WithStore("global_table_processor", store)
           sb == StoreBuilder(store, <<topic, 0>>)
           n == Len(tp.node) + 1
           m == n + 1
           s == Len(tp.sub) + 1
           b == Len(tp.store) + 1
           S == NewSub(tp, "global-table")
           V == NewNode(S, a)
           W == NewNode(V, g)
           X == [W EXCEPT !.store = Append(W.store, sb)]
           Y == AddNode(X, s, n)
           Z == AddStore(Y, s, b)
           U == AddNodeWithEdge(Z, s, n, m)
           d == Handle(s, n, n)
           c == [[d EXCEPT !.global = TRUE] EXCEPT !.table = b]
           P == Plus(Only(n), m)
<1>1. Returns(U, <<c>>, {})
  BY DEF GlobalTable, Last1
<1>2. /\ FreshNode(a) /\ ~a.fmt /\ a.kind \notin NeedsStore
      /\ FreshNode(g) /\ ~g.fmt /\ g.kind \notin NeedsStore \cup {"kSource"}
      /\ DOMAIN sb = StoreFields /\ sb.name = store
  BY NodeFacts, StoreBuilderFields DEF NeedsStore
<1> HIDE DEF a, g, sb
<1>3. Good(tp, {}) /\ (~stale => Sound(tp, {}))
  BY DEF GraphInv, GraphOk, NoneLost
<1>4. /\ Good(S, {}) /\ Grows(tp, S) /\ (Sound(tp, {}) => Sound(S, {}))
      /\ S.node = tp.node /\ S.store = tp.store /\ s \in DOMAIN S.sub /\ s \in S.live
      /\ NodesOf(S, s) = {}
  <2> DEFINE P0 == {}
  <2>1. Good(tp, P0) /\ "global-table" \in {"stream", "global-table"} /\ S = NewSub(tp, "global-table")
    BY <1>3
  <2> HIDE DEF P0, S
  <2>2. /\ Good(S, P0) /\ Grows(tp, S) /\ (Sound(tp, P0) => Sound(S, P0))
        /\ S.node = tp.node /\ S.store = tp.store /\ s \in DOMAIN S.sub /\ s \in S.live
        /\ NodesOf(S, s) = {}
    BY ONLY <2>1, NewSubKeeps
  <2> QED BY <2>2 DEF P0
<1> HIDE DEF S, s
<1>5. n = Len(S.node) + 1 /\ b = Len(S.store) + 1
  BY <1>4
<1> HIDE DEF n
<1>6. /\ Good(V, Only(n)) /\ Grows(S, V) /\ (Sound(S, {}) => Sound(V, Only(n)))
      /\ V.node[n] = a /\ V.sub = S.sub /\ V.live = S.live /\ V.store = S.store
      /\ Len(V.node) = n /\ n \in Nat
  BY <1>2, <1>4, <1>5, NewNodeOk
<1>7. m = Len(V.node) + 1 /\ n # m /\ n \in DOMAIN V.node
  BY <1>6 DEF Good, Only
<1> HIDE DEF V, m, P
<1>8. P = Plus(Only(n), m)
  BY DEF P
<1>9. /\ Good(W, P) /\ Grows(V, W) /\ (Sound(V, Only(n)) => Sound(W, P))
      /\ W.node[m] = g /\ W.node[n] = a /\ m \in DOMAIN W.node
      /\ W.sub = V.sub /\ W.store = V.store /\ W.live = V.live
  BY <1>2, <1>6, <1>7, <1>8, NewNodeMore
<1> HIDE DEF W
<1>10. b = Len(W.store) + 1
  BY <1>5, <1>6, <1>9
<1> HIDE DEF b
<1>11. X = [W EXCEPT !.store = Append(W.store, sb)]
  OBVIOUS
<1> HIDE DEF X
<1>12. /\ SameLists(W, X) /\ (Sound(W, P) => Sound(X, P))
       /\ X.node = W.node /\ X.sub = W.sub /\ b \in DOMAIN X.store /\ X.store[b] = sb
  BY <1>2, <1>9, <1>10, <1>11, NewStoreKeeps
<1>13. Good(X, P) /\ Grows(W, X) /\ X.live = W.live
  BY <1>9, <1>12, SameListsKeeps DEF SameLists, SamePlaces
<1>14. s \in DOMAIN X.sub /\ MayAdd(X, P, s, n) /\ Minus(P, n) = Only(m)
  BY <1>4, <1>6, <1>7, <1>8, <1>9, <1>12 DEF Only, Plus, Minus, MayAdd
<1>15. Fits(X, s, X.node[n])
  <2>1. NodesOf(X, s) = {}
    BY <1>4, <1>6, <1>9, <1>12 DEF NodesOf
  <2> QED BY <2>1, <1>2, <1>9, <1>12 DEF Fits
<1>16. /\ Good(Y, Minus(P, n)) /\ Grows(X, Y) /\ n \in NodesOf(Y, s)
       /\ Sound(X, P) /\ s \in X.live => Sound(Y, Minus(P, n))
       /\ DOMAIN Y.node = DOMAIN X.node /\ DOMAIN Y.sub = DOMAIN X.sub
       /\ Y.store = X.store /\ Y.live = X.live
  BY <1>13, <1>14, <1>15, AddNodeKeeps, SMTT(30)
<1> HIDE DEF Y
<1>17. /\ Good(Y, Only(m)) /\ (Sound(X, P) /\ s \in X.live => Sound(Y, Only(m)))
       /\ s \in DOMAIN Y.sub /\ b \in DOMAIN Y.store
  BY <1>12, <1>14, <1>16
<1>18. /\ SameLists(Y, Z) /\ (Sound(Y, Only(m)) => Sound(Z, Only(m)))
       /\ Z.node = Y.node /\ Z.store = Y.store
       /\ StoreExists(Z, s, Y.store[b].name)
  BY <1>17, AddStoreKeeps
<1> HIDE DEF Z, U
<1>19. /\ Good(Z, Only(m)) /\ Grows(Y, Z) /\ NodesOf(Z, s) = NodesOf(Y, s) /\ Z.live = Y.live
       /\ s \in DOMAIN Z.sub
  BY <1>17, <1>18, SameListsKeeps DEF SameLists, SamePlaces
<1>20. /\ n \in DOMAIN Z.node /\ MayAdd(Z, Only(m), s, m) /\ {} = Minus(Only(m), m)
  BY <1>7, <1>9, <1>12, <1>16, <1>18 DEF Only, Minus, MayAdd, Grows, Widens
<1>21. Fits(Z, s, Z.node[m])
  <2>1. m \in DOMAIN X.node /\ X.node[m] = g
    BY <1>9, <1>12
  <2>2. Y.node[m].kind = X.node[m].kind /\ Y.node[m].fmt = X.node[m].fmt
    BY <2>1, <1>16 DEF Grows, Widens
  <2> QED BY <2>1, <2>2, <1>2, <1>18 DEF Fits
<1>22. /\ Good(U, {}) /\ Grows(Z, U)
       /\ Sound(Z, Only(m)) /\ s \in Z.live /\ n \in NodesOf(Z, s) => Sound(U, {})
       /\ DOMAIN U.node = DOMAIN Z.node /\ DOMAIN U.sub = DOMAIN Z.sub
       /\ U.store = Z.store /\ U.live = Z.live
  <2>1. U = AddNodeWithEdge(Z, s, n, m)
    BY DEF U
  <2>2. Good(U, Minus(Only(m), m))
    BY ONLY <2>1, <1>19, <1>20, <1>21, AddNodeWithEdgeKeeps
  <2>5. Grows(Z, U)
    BY ONLY <2>1, <1>19, <1>20, <1>21, EdgeMore
  <2>3. Sound(Z, Only(m)) /\ s \in Z.live /\ n \in NodesOf(Z, s) => Sound(U, {})
    BY ONLY <2>1, <1>19, <1>20, <1>21, EdgeMore
  <2>4. /\ DOMAIN U.node = DOMAIN Z.node /\ DOMAIN U.sub = DOMAIN Z.sub
        /\ U.store = Z.store /\ U.live = Z.live
    BY ONLY <2>1, <1>19, <1>20, <1>21, EdgeMore
  <2> QED BY <1>20, <2>2, <2>3, <2>4, <2>5
<1>23. Grows(tp, V) /\ Grows(tp, W) /\ Grows(tp, X) /\ Grows(tp, Y) /\ Grows(tp, Z) /\ Grows(tp, U)
  BY <1>4, <1>6, <1>9, <1>13, <1>16, <1>19, <1>22, GrowsTransitive
<1>24. n \in NodesOf(Z, s) /\ s \in Z.live
  BY <1>4, <1>6, <1>9, <1>13, <1>16, <1>19
<1>25. /\ s \in DOMAIN U.sub /\ n \in DOMAIN U.node /\ n \in NodesOf(U, s)
       /\ b \in DOMAIN U.store /\ StoreExists(U, s, U.store[b].name)
  BY <1>17, <1>18, <1>19, <1>20, <1>22, <1>24 DEF Grows, Widens
<1> DEFINE e == [d EXCEPT !.global = TRUE]
<1>27. e \in HandleRecords /\ KnownHandle(U, stream, e) /\ RootedHandle(U, stream, e) /\ e.stp = s /\ e.split = 0
  <2>1. s \in Nat /\ n \in Nat
    BY <1>22, <1>25 DEF Good, Shape
  <2>2. /\ e \in HandleRecords /\ e.stp = s /\ e.root = n /\ e.src = n
        /\ e.table = 0 /\ e.split = 0 /\ e.global
    BY <2>1 DEF Handle, HandleRecords
  <2> QED BY <2>2, <1>25 DEF KnownHandle, RootedHandle, Reaches
<1>28. c = [e EXCEPT !.table = b]
  OBVIOUS
<1> HIDE DEF e, c
<1>29. c \in HandleRecords /\ KnownHandle(U, stream, c) /\ RootedHandle(U, stream, c)
  BY <1>22, <1>25, <1>27, <1>28, ChildOfTableOk DEF Good
<1>30. ~stale => Sound(U, {})
  BY <1>3, <1>4, <1>6, <1>9, <1>12, <1>13, <1>17, <1>18, <1>22, <1>24
<1> QED BY <1>1, <1>22, <1>23, <1>29, <1>30, RootCall

\* What precedes a merge: marking a source and adding a store.
Alike(T, U) ==
  /\ Good(U, {}) /\ Grows(T, U)
  /\ Sound(T, {}) => Sound(U, {})
  /\ U.live = T.live /\ DOMAIN U.sub = DOMAIN T.sub
  /\ Len(U.node) = Len(T.node) /\ DOMAIN U.node = DOMAIN T.node
  /\ \A q \in DOMAIN T.sub : NodesOf(U, q) = NodesOf(T, q)

\* Marking a source for co-partitioning is such a step.
LEMMA AlikeCoPartition ==
  ASSUME NEW T, Good(T, {}), NEW n \in DOMAIN T.node, NEW m, NEW U, U = ShouldCoPartitionedWith(T, n, m)
  PROVE  Alike(T, U) /\ U.store = T.store
<1>1. /\ SameLists(T, U) /\ (Sound(T, {}) => Sound(U, {}))
      /\ Len(U.node) = Len(T.node) /\ U.sub = T.sub /\ U.store = T.store
  BY CoPartitionKeeps
<1>2. /\ Good(U, {}) /\ Grows(T, U) /\ \A s \in DOMAIN T.sub : NodesOf(U, s) = NodesOf(T, s)
  BY <1>1, SameListsKeeps
<1> QED BY <1>1, <1>2 DEF Alike, SameLists, SamePlaces

\* So is adding a store, which is there afterwards.
LEMMA AlikeStore ==
  ASSUME NEW T, NEW V, Alike(T, V), NEW s \in DOMAIN T.sub, NEW b \in DOMAIN V.store,
         NEW U, U = AddStore(V, s, b)
  PROVE  Alike(T, U) /\ U.store = V.store /\ StoreExists(U, s, V.store[b].name)
<1>1. Good(V, {}) /\ s \in DOMAIN V.sub
  BY DEF Alike
<1>2. /\ SameLists(V, U) /\ (Sound(V, {}) => Sound(U, {}))
      /\ U.node = V.node /\ U.store = V.store
      /\ StoreExists(U, s, V.store[b].name)
  BY <1>1, AddStoreKeeps
<1>3. /\ Good(U, {}) /\ Grows(V, U) /\ \A q \in DOMAIN V.sub : NodesOf(U, q) = NodesOf(V, q)
  BY <1>1, <1>2, SameListsKeeps
<1>4. Grows(T, U)
  BY <1>3, GrowsTransitive DEF Alike
<1> QED BY <1>2, <1>3, <1>4 DEF Alike, SameLists, SamePlaces

\* The merge itself: both roots are in the list that stays, and the handle of
\* the sub-topology that goes is moved along.
MergesRoots(U, h, o) ==
  /\ stream[h].stp \in U.live
  /\ stream[h].root \in NodesOf(U, stream[h].stp) /\ stream[o].root \in NodesOf(U, stream[h].stp)
BothLive(h, o) == ~stale /\ stream[h].stp \in tp.live /\ stream[o].stp \in tp.live

\* What a call has before it adds its nodes: the merged topology and the handles
\* as kStream.merge moved them.
LEMMA MergeCallKeeps ==
  ASSUME GraphInv, NEW h \in DOMAIN stream, ~stream[h].global, NEW o \in DOMAIN stream,
         NEW T, Alike(tp, T), NEW U, U = Merged(T, stream[h].stp, stream[o].stp),
         NEW ks, ks = [stream EXCEPT ![o].stp = stream[h].stp]
  PROVE  /\ Good(U, {}) /\ Grows(T, U) /\ Grows(tp, U) /\ GraphOk(U, ks)
         /\ Len(U.node) = Len(tp.node) /\ U.sub[stream[h].stp].kind = "stream"
         /\ stream[h].stp \in DOMAIN U.sub /\ stream[h].root \in DOMAIN U.node
         /\ stream[o].root \in DOMAIN U.node
         /\ KnownHandle(tp, ks, stream[h]) /\ ks \in Seq(HandleRecords)
         /\ BothLive(h, o) => Sound(U, {}) /\ NoneLost(U, ks) /\ MergesRoots(U, h, o)
<1> DEFINE s == stream[h].stp
           q == stream[o].stp
<1>1. /\ KnownHandle(tp, stream, stream[h])
      /\ s \in DOMAIN tp.sub /\ stream[h].root \in DOMAIN tp.node
      /\ q \in DOMAIN tp.sub /\ stream[o].root \in DOMAIN tp.node
      /\ ~stale /\ s \in tp.live => stream[h].root \in NodesOf(tp, s)
      /\ ~stale /\ q \in tp.live => stream[o].root \in NodesOf(tp, q)
  BY HandleFacts
<1>2. /\ GraphOk(tp, stream) /\ (~stale => NoneLost(tp, stream)) /\ (NoneLost(tp, stream) => Sound(tp, {}))
      /\ stream \in Seq(HandleRecords)
  BY DEF GraphInv, NoneLost, GraphOk, Handles
<1>3. U = Merged(T, s, q) /\ ks = [stream EXCEPT ![o].stp = s] /\ q = stream[o].stp
  OBVIOUS
<1> HIDE DEF s, q
<1>4. /\ Good(T, {}) /\ Grows(tp, T) /\ (Sound(tp, {}) => Sound(T, {}))
      /\ T.live = tp.live /\ s \in DOMAIN T.sub /\ q \in DOMAIN T.sub
      /\ Len(T.node) = Len(tp.node) /\ DOMAIN T.node = DOMAIN tp.node
      /\ NodesOf(T, s) = NodesOf(tp, s) /\ NodesOf(T, q) = NodesOf(tp, q)
      /\ T.sub[s].kind = "stream"
  <2>1. tp.sub[stream[h].stp].kind = "stream"
    BY <1>1 DEF KnownHandle
  <2>2. tp.sub[s].kind = "stream"
    BY <2>1 DEF s
  <2> QED BY <1>1, <2>2 DEF Alike, Grows, Widens
<1> DEFINE P == {}
<1>0. Good(T, P) /\ P = {}
  BY <1>4
<1> HIDE DEF P
<1>5. TakesIn(T, P, s, q, U)
  BY ONLY <1>0, <1>3, <1>4, MergedKeeps
<1>6. /\ Good(U, {}) /\ Grows(T, U)
      /\ Len(U.node) = Len(T.node) /\ DOMAIN U.node = DOMAIN T.node /\ DOMAIN U.sub = DOMAIN T.sub
  BY <1>0, <1>5 DEF TakesIn
<1>7. /\ NodesOf(T, q) \subseteq NodesOf(U, s)
      /\ \A name : StoreExists(T, q, name) => StoreExists(U, s, name)
  BY <1>0, <1>5 DEF TakesIn
<1>8. /\ s \in T.live => s \in U.live
      /\ Sound(T, {}) /\ s \in T.live => Sound(U, {})
  BY <1>0, <1>5 DEF TakesIn
<1>9. Grows(tp, U)
  BY <1>4, <1>6, GrowsTransitive
<1>10. /\ NodesOf(tp, q) \subseteq NodesOf(U, s)
       /\ \A name : StoreExists(tp, q, name) => StoreExists(U, s, name)
       /\ s \in DOMAIN U.sub /\ U.sub[s].kind = "stream" /\ Widens(tp, U)
  BY <1>1, <1>4, <1>6, <1>7, <1>9 DEF Grows, Widens
<1>11. /\ GraphOk(U, ks)
       /\ NoneLost(tp, stream) /\ Sound(U, {}) /\ q \in tp.live => NoneLost(U, ks)
  BY <1>2, <1>3, <1>6, <1>9, <1>10, MovedHandle
<1>12. KnownHandle(tp, ks, stream[h])
  <2>1. DOMAIN ks = DOMAIN stream
    BY <1>3
  <2> QED BY <1>1, <2>1 DEF KnownHandle
<1>13. ASSUME BothLive(h, o)
       PROVE  Sound(U, {}) /\ NoneLost(U, ks) /\ MergesRoots(U, h, o)
  <2>1. ~stale /\ s \in tp.live /\ q \in tp.live
    BY <1>13 DEF BothLive, s, q
  <2>2. Sound(U, {}) /\ NoneLost(U, ks) /\ s \in U.live
    BY <2>1, <1>2, <1>4, <1>8, <1>11
  <2>3. stream[h].root \in NodesOf(U, s)
    BY <2>1, <2>2, <1>1, <1>4, <1>6 DEF Grows, Widens
  <2>4. stream[o].root \in NodesOf(U, s)
    BY <2>1, <1>1, <1>10
  <2> QED BY <2>2, <2>3, <2>4 DEF MergesRoots, s, q
<1>14. ks \in Seq(HandleRecords)
  BY <1>11 DEF GraphOk, Handles
<1> QED BY <1>1, <1>4, <1>6, <1>9, <1>10, <1>11, <1>12, <1>13, <1>14 DEF s, q

\* The child of a call that merged: what is left to show of such a call.
LEMMA MergedCall ==
  ASSUME GraphInv, NEW h \in DOMAIN stream, NEW o \in DOMAIN stream,
         NEW U, NEW ks, GraphOk(U, ks), NEW W, Good(W, {}), Grows(U, W), Grows(tp, W),
         BothLive(h, o) => NoneLost(U, ks) /\ Sound(W, {}),
         NEW c, c \in HandleRecords, KnownHandle(W, ks, c), RootedHandle(W, ks, c),
         tp' = W, stream' = Append(ks, c), stale' = (stale \/ Stale(h) \/ Stale(o))
  PROVE  CallKept
<1>1. stale' \in BOOLEAN /\ (~stale' => BothLive(h, o))
  BY DEF GraphInv, BothLive, Stale
<1>2. GraphOk(W, stream') /\ (NoneLost(U, ks) /\ Sound(W, {}) => NoneLost(W, stream'))
  BY OneHandle, GrowsWidens
<1>3. Pairs(tp) => Pairs(W)
  BY PairsGrow
<1> QED BY <1>1, <1>2, <1>3 DEF GraphInv, CallKept

\* kStream.JoinTable: the joiner finds the table's store, which was added first.
LEMMA JoinTableKeeps ==
  ASSUME GraphInv, NEW h \in DOMAIN stream, ~stream[h].global, NEW t \in DOMAIN stream, stream[t].table # 0,
         JoinTable(h, t)
  PROVE  CallKept
<1> DEFINE k == stream[h]
           s == stream[h].stp
           q == stream[t].stp
           b == stream[t].table
           S == ShouldCoPartitionedWith(tp, stream[t].src, stream[h].src)
           T == AddStore(S, s, b)
           U == Merged(T, s, q)
           nd == WithStore("joiner", tp.store[b].name)
           n == Len(tp.node) + 1
           W == AddNodeWithEdge(NewNode(U, nd), s, stream[h].root, n)
           ks == [stream EXCEPT ![t].stp = s]
           c == newChildStream(k, n)
<1>1. \/ Panics
      \/ tp' = W /\ stream' = Append(ks, c) /\ stale' = (stale \/ Stale(h) \/ Stale(t))
  BY DEF JoinTable, Last1
<1>2. /\ k \in HandleRecords /\ KnownHandle(tp, stream, stream[t])
      /\ s \in DOMAIN tp.sub /\ stream[h].root \in DOMAIN tp.node /\ stream[t].src \in DOMAIN tp.node
  BY HandleFacts
<1>3. b \in DOMAIN tp.store /\ Good(tp, {})
  BY <1>2 DEF KnownHandle, GraphInv, GraphOk
<1>4. Alike(tp, S) /\ S.store = tp.store
  BY <1>2, <1>3, AlikeCoPartition
<1> HIDE DEF S, b
<1>5. b \in DOMAIN S.store
  BY <1>3, <1>4
<1>6. Alike(tp, T) /\ T.store = tp.store /\ StoreExists(T, s, tp.store[b].name)
  BY <1>2, <1>4, <1>5, AlikeStore
<1>7. U = Merged(T, stream[h].stp, stream[t].stp) /\ ks = [stream EXCEPT ![t].stp = stream[h].stp]
  OBVIOUS
<1> HIDE DEF T, U, ks
<1>8. /\ Good(U, {}) /\ Grows(T, U) /\ Grows(tp, U) /\ GraphOk(U, ks)
      /\ Len(U.node) = Len(tp.node) /\ U.sub[stream[h].stp].kind = "stream"
      /\ stream[h].stp \in DOMAIN U.sub /\ stream[h].root \in DOMAIN U.node
      /\ KnownHandle(tp, ks, stream[h])
      /\ BothLive(h, t) => Sound(U, {}) /\ NoneLost(U, ks) /\ MergesRoots(U, h, t)
  BY ONLY GraphInv, ~stream[h].global, h \in DOMAIN stream, t \in DOMAIN stream, <1>6, <1>7, MergeCallKeeps
<1>9. FreshNode(nd) /\ ~nd.fmt /\ nd.store = tp.store[b].name
  BY NodeFacts
<1> HIDE DEF nd
<1>10. Fits(U, s, nd)
  BY <1>2, <1>6, <1>8, <1>9 DEF Fits, Alike, Grows, Widens
<1>11. W = AddNodeWithEdge(NewNode(U, nd), s, stream[h].root, Len(U.node) + 1) /\ n = Len(U.node) + 1
  BY <1>8
<1> HIDE DEF W, n
<1>12. /\ Good(W, {}) /\ Grows(U, W) /\ Shape(W) /\ n \in NodesOf(W, s) /\ n \in DOMAIN W.node
       /\ Sound(U, {}) /\ s \in U.live /\ stream[h].root \in NodesOf(U, s) => Sound(W, {})
  BY <1>8, <1>9, <1>10, <1>11, AttachOk
<1>13. Grows(tp, W) /\ Widens(tp, W)
  BY <1>8, <1>12, GrowsTransitive, GrowsWidens
<1>14. c = newChildStream(k, n) /\ KnownHandle(tp, ks, k) /\ n \in NodesOf(W, k.stp)
  BY <1>8, <1>12
<1> HIDE DEF k, c
<1>15. c \in HandleRecords /\ KnownHandle(W, ks, c) /\ RootedHandle(W, ks, c)
  BY <1>2, <1>12, <1>13, <1>14, ChildStreamOk
<1>16. BothLive(h, t) => NoneLost(U, ks) /\ Sound(W, {})
  BY <1>8, <1>12 DEF MergesRoots
<1>17. CASE tp' = W /\ stream' = Append(ks, c) /\ stale' = (stale \/ Stale(h) \/ Stale(t))
  BY <1>8, <1>12, <1>13, <1>15, <1>16, <1>17, MergedCall
<1>18. CASE Panics
  BY <1>18, GraphStutters DEF Panics
<1> QED BY <1>1, <1>17, <1>18

\* kStream.Merge: the merger is listed below both roots.
LEMMA MergeKeeps ==
  ASSUME GraphInv, NEW h \in DOMAIN stream, ~stream[h].global, NEW o \in DOMAIN stream, Merge(h, o)
  PROVE  CallKept
<1> DEFINE k == stream[h]
           s == stream[h].stp
           q == stream[o].stp
           T == ShouldCoPartitionedWith(tp, stream[o].src, stream[h].src)
           U == Merged(T, s, q)
           nd == Node("merger")
           n == Len(tp.node) + 1
           V == AddNodeWithEdge(NewNode(U, nd), s, stream[h].root, n)
           W == AddNodeWithEdge(V, s, stream[o].root, n)
           ks == [stream EXCEPT ![o].stp = s]
           c == newChildStream(k, n)
<1>1. tp' = W /\ stream' = Append(ks, c) /\ stale' = (stale \/ Stale(h) \/ Stale(o))
  BY DEF Merge, Last1
<1>2. /\ k \in HandleRecords /\ stream[o].src \in DOMAIN tp.node
      /\ s \in DOMAIN tp.sub
  BY HandleFacts
<1>3. Good(tp, {})
  BY DEF GraphInv, GraphOk
<1>4. Alike(tp, T)
  BY <1>2, <1>3, AlikeCoPartition
<1>7. U = Merged(T, stream[h].stp, stream[o].stp) /\ ks = [stream EXCEPT ![o].stp = stream[h].stp]
  OBVIOUS
<1> HIDE DEF T, U, ks
<1>8. /\ Good(U, {}) /\ Grows(T, U) /\ Grows(tp, U) /\ GraphOk(U, ks)
      /\ Len(U.node) = Len(tp.node) /\ U.sub[stream[h].stp].kind = "stream"
      /\ stream[h].stp \in DOMAIN U.sub /\ stream[h].root \in DOMAIN U.node
      /\ stream[o].root \in DOMAIN U.node
      /\ KnownHandle(tp, ks, stream[h])
      /\ BothLive(h, o) => Sound(U, {}) /\ NoneLost(U, ks) /\ MergesRoots(U, h, o)
  BY ONLY GraphInv, ~stream[h].global, h \in DOMAIN stream, o \in DOMAIN stream, <1>4, <1>7, MergeCallKeeps
<1>9. FreshNode(nd) /\ ~nd.fmt /\ nd.kind \notin NeedsStore \cup TopicKinds
  BY NodeFacts DEF NeedsStore, TopicKinds
<1> HIDE DEF nd
<1>10. Fits(U, s, nd)
  BY <1>8, <1>9 DEF Fits
<1>11. V = AddNodeWithEdge(NewNode(U, nd), s, stream[h].root, Len(U.node) + 1) /\ n = Len(U.node) + 1
  BY <1>8
<1> HIDE DEF V, n
<1>12. /\ Good(V, {}) /\ Grows(U, V) /\ n \in NodesOf(V, s)
       /\ Sound(U, {}) /\ s \in U.live /\ stream[h].root \in NodesOf(U, s) => Sound(V, {})
       /\ DOMAIN V.sub = DOMAIN U.sub /\ V.live = U.live /\ V.node[n].kind = nd.kind
  BY <1>8, <1>9, <1>10, <1>11, AttachOk
<1>13. s \in DOMAIN V.sub /\ stream[o].root \in DOMAIN V.node
  BY <1>8, <1>12 DEF Grows, Widens
<1> HIDE DEF W
<1>14. /\ Good(W, {}) /\ Grows(V, W) /\ Shape(W) /\ n \in NodesOf(W, s) /\ n \in DOMAIN W.node
       /\ Sound(V, {}) /\ s \in V.live /\ stream[o].root \in NodesOf(V, s) => Sound(W, {})
  <2>1. W = AddNodeWithEdge(V, s, stream[o].root, n)
    BY DEF W
  <2> QED BY <1>9, <1>12, <1>13, <2>1, AgainOk
<1>15. Grows(U, W) /\ Grows(tp, W) /\ Widens(tp, W)
  BY <1>8, <1>12, <1>14, GrowsTransitive, GrowsWidens
<1>16. c = newChildStream(k, n) /\ KnownHandle(tp, ks, k) /\ n \in NodesOf(W, k.stp)
  BY <1>8, <1>14
<1> HIDE DEF k, c
<1>17. c \in HandleRecords /\ KnownHandle(W, ks, c) /\ RootedHandle(W, ks, c)
  BY <1>2, <1>14, <1>15, <1>16, ChildStreamOk
<1>18. BothLive(h, o) => NoneLost(U, ks) /\ Sound(W, {})
  BY <1>8, <1>12, <1>14 DEF MergesRoots, Grows, Widens
<1> QED BY <1>1, <1>8, <1>14, <1>15, <1>17, <1>18, MergedCall

\* An edge to one of the pending nodes.
LEMMA PendingEdge ==
  ASSUME NEW C, NEW T, NEW P, Good(T, P), Grows(C, T), NEW s \in DOMAIN C.sub, s \in DOMAIN T.sub,
         NEW p \in DOMAIN T.node, NEW n \in DOMAIN C.node, n \in P, Fits(C, s, C.node[n]),
         C.node[n].kind # "kSource",
         NEW Q, Q = Minus(P, n), NEW U, U = AddNodeWithEdge(T, s, p, n)
  PROVE  /\ Good(U, Q) /\ Grows(C, U) /\ n \in NodesOf(U, s) /\ s \in DOMAIN U.sub
         /\ DOMAIN U.node = DOMAIN T.node /\ U.live = T.live /\ Grows(T, U)
         /\ Sound(T, P) /\ s \in T.live /\ p \in NodesOf(T, s) => Sound(U, Q)
<1>1. Fits(T, s, T.node[n]) /\ MayAdd(T, P, s, n)
  BY DEF Grows, Widens, Fits, MayAdd
<1>2. Grows(T, U)
  BY <1>1, EdgeMore
<1>3. Grows(C, U)
  BY <1>2, GrowsTransitive
<1>4. /\ Good(U, Q) /\ n \in NodesOf(U, s)
      /\ Sound(T, P) /\ s \in T.live /\ p \in NodesOf(T, s) => Sound(U, Q)
      /\ DOMAIN U.node = DOMAIN T.node /\ DOMAIN U.sub = DOMAIN T.sub /\ U.live = T.live
  BY <1>1, EdgeMore
<1> QED BY <1>2, <1>3, <1>4

\* Three nodes that are made first: two joiners below the roots, and the
\* merger below both.
WithJoiners(U, s, p, r, x, y, z, n) ==
  LET C == NewNode(NewNode(NewNode(U, x), y), z)
      V == AddNodeWithEdge(AddNodeWithEdge(C, s, p, n), s, r, n + 1)
  IN AddNodeWithEdge(AddNodeWithEdge(V, s, n, n + 2), s, n + 1, n + 2)
Attachable(U, s, nd) == FreshNode(nd) /\ ~nd.fmt /\ nd.kind \notin TopicKinds /\ Fits(U, s, nd)
Joined(U, s, p, r, m, W) ==
  /\ Good(W, {}) /\ Grows(U, W) /\ Shape(W) /\ m \in NodesOf(W, s) /\ m \in DOMAIN W.node
  /\ Sound(U, {}) /\ s \in U.live /\ p \in NodesOf(U, s) /\ r \in NodesOf(U, s) => Sound(W, {})
LEMMA JoinersKeep ==
  ASSUME NEW U, Good(U, {}), NEW s \in DOMAIN U.sub, NEW p \in DOMAIN U.node, NEW r \in DOMAIN U.node,
         NEW x, Attachable(U, s, x), NEW y, Attachable(U, s, y), NEW z, Attachable(U, s, z),
         NEW n, n = Len(U.node) + 1, NEW W, W = WithJoiners(U, s, p, r, x, y, z, n)
  PROVE  Joined(U, s, p, r, n + 2, W)
<1>0. /\ FreshNode(x) /\ ~x.fmt /\ x.kind \notin TopicKinds /\ Fits(U, s, x)
      /\ FreshNode(y) /\ ~y.fmt /\ y.kind \notin TopicKinds /\ Fits(U, s, y)
      /\ FreshNode(z) /\ ~z.fmt /\ z.kind \notin TopicKinds /\ Fits(U, s, z)
  BY DEF Attachable
<1> DEFINE i == n + 1
           j == n + 2
           A == NewNode(U, x)
           B == NewNode(A, y)
           C == NewNode(B, z)
           D == AddNodeWithEdge(C, s, p, n)
           V == AddNodeWithEdge(D, s, r, i)
           F == AddNodeWithEdge(V, s, n, j)
           P1 == Only(n)
           P2 == Plus(P1, i)
           P3 == Plus(P2, j)
           Q2 == Minus(P3, n)
           Q1 == Minus(Q2, i)
<1>1. /\ C = NewNode(B, z) /\ V = AddNodeWithEdge(D, s, r, i)
      /\ W = AddNodeWithEdge(F, s, i, j)
  BY DEF WithJoiners
<1> HIDE DEF C, V
<1>2. /\ Good(A, P1) /\ Grows(U, A) /\ (Sound(U, {}) => Sound(A, P1))
      /\ n \in Nat /\ Len(A.node) = n /\ A.node[n] = x /\ A.sub = U.sub /\ A.store = U.store
      /\ A.live = U.live
  BY <1>0, NewNodeOk
<1>3. i = Len(A.node) + 1 /\ i # n /\ i \in Nat /\ j = i + 1 /\ j # n /\ j # i
  BY <1>2
<1> HIDE DEF i, j, A, P1
<1>4. P2 = Plus(P1, i)
  OBVIOUS
<1> HIDE DEF P2
<1>5. /\ Good(B, P2) /\ Grows(A, B) /\ (Sound(A, P1) => Sound(B, P2))
      /\ Len(B.node) = i /\ B.node[i] = y
      /\ \A m \in DOMAIN A.node : B.node[m] = A.node[m]
      /\ B.sub = A.sub /\ B.store = A.store /\ B.live = A.live
  BY <1>0, <1>2, <1>3, <1>4, NewNodeMore
<1> HIDE DEF B
<1>6. P3 = Plus(P2, j) /\ j = Len(B.node) + 1
  BY <1>3, <1>5
<1> HIDE DEF P3
<1>7. /\ Good(C, P3) /\ Grows(B, C) /\ (Sound(B, P2) => Sound(C, P3))
      /\ C.node[j] = z
      /\ \A m \in DOMAIN B.node : C.node[m] = B.node[m]
      /\ C.sub = B.sub /\ C.store = B.store /\ C.live = B.live
  BY <1>0, <1>1, <1>5, <1>6, NewNodeMore
<1>8. n \in P3 /\ i \in P3 /\ j \in P3
  BY <1>4, <1>6 DEF Plus, Only, P1
<1>9. n \in DOMAIN A.node /\ i \in DOMAIN B.node /\ n \in DOMAIN B.node
  BY <1>2, <1>4, <1>5 DEF Good, Plus, Only, P1
<1>10. /\ n \in DOMAIN C.node /\ i \in DOMAIN C.node /\ j \in DOMAIN C.node
       /\ C.node[n] = x /\ C.node[i] = y /\ C.node[j] = z
  BY <1>2, <1>5, <1>7, <1>8, <1>9 DEF Good
<1>11. Grows(U, C) /\ s \in DOMAIN C.sub /\ p \in DOMAIN C.node /\ r \in DOMAIN C.node
  <2>1. Grows(U, B)
    BY <1>2, <1>5, GrowsTransitive
  <2>2. Grows(U, C)
    BY <2>1, <1>7, GrowsTransitive
  <2> QED BY <2>2 DEF Grows, Widens
<1>12. /\ Fits(C, s, C.node[n]) /\ Fits(C, s, C.node[i]) /\ Fits(C, s, C.node[j])
       /\ C.node[n].kind # "kSource" /\ C.node[i].kind # "kSource" /\ C.node[j].kind \notin TopicKinds
       /\ C.node[j].kind # "kSource"
  BY <1>0, <1>10, <1>11 DEF Fits, Grows, Widens, TopicKinds
<1>13. Grows(C, C)
  BY DEF Grows, Widens
<1>14. Q2 = Minus(P3, n) /\ Q1 = Minus(Q2, i) /\ {} = Minus(Q1, j) /\ i \in Q2 /\ j \in Q1
  BY <1>3, <1>4, <1>6, <1>8 DEF Minus, Plus, Only, P1
<1> HIDE DEF Q1, Q2, D
<1>15. D = AddNodeWithEdge(C, s, p, n)
  BY DEF D
<1>16. /\ Good(D, Q2) /\ Grows(C, D) /\ n \in NodesOf(D, s) /\ s \in DOMAIN D.sub
       /\ DOMAIN D.node = DOMAIN C.node /\ D.live = C.live
       /\ Sound(C, P3) /\ s \in C.live /\ p \in NodesOf(C, s) => Sound(D, Q2)
  BY ONLY <1>7, <1>8, <1>10, <1>11, <1>12, <1>13, <1>14, <1>15, PendingEdge
<1>17. /\ Good(V, Q1) /\ Grows(C, V) /\ Grows(D, V) /\ i \in NodesOf(V, s) /\ s \in DOMAIN V.sub
       /\ DOMAIN V.node = DOMAIN D.node /\ V.live = D.live
       /\ Sound(D, Q2) /\ s \in D.live /\ r \in NodesOf(D, s) => Sound(V, Q1)
  BY ONLY <1>1, <1>8, <1>10, <1>11, <1>12, <1>14, <1>16, PendingEdge
<1> DEFINE Q0 == {}
<1>18. F = AddNodeWithEdge(V, s, n, j) /\ Q0 = Minus(Q1, j) /\ Q0 = {}
  BY <1>14
<1> HIDE DEF F, Q0
<1>19. /\ Good(F, Q0) /\ Grows(C, F) /\ Grows(V, F) /\ j \in NodesOf(F, s) /\ s \in DOMAIN F.sub
       /\ DOMAIN F.node = DOMAIN V.node /\ F.live = V.live
       /\ Sound(V, Q1) /\ s \in V.live /\ n \in NodesOf(V, s) => Sound(F, Q0)
  <2>1. /\ Good(V, Q1) /\ Grows(C, V) /\ s \in DOMAIN C.sub /\ s \in DOMAIN V.sub
        /\ n \in DOMAIN V.node /\ j \in DOMAIN C.node /\ j \in Q1 /\ Fits(C, s, C.node[j])
        /\ C.node[j].kind # "kSource"
        /\ Q0 = Minus(Q1, j) /\ F = AddNodeWithEdge(V, s, n, j)
    BY <1>10, <1>11, <1>12, <1>14, <1>16, <1>17, <1>18
  <2> QED BY ONLY <2>1, PendingEdge
<1>20. Good(F, {}) /\ i \in DOMAIN F.node /\ F.node[j].kind \notin TopicKinds
  <2>1. i \in DOMAIN F.node
    BY ONLY <1>10, <1>16, <1>17, <1>19
  <2>2. Good(F, {})
    BY ONLY <1>18, <1>19
  <2>3. F.node[j].kind \notin TopicKinds
    BY <1>10, <1>12, <1>19 DEF Grows, Widens
  <2> QED BY <2>1, <2>2, <2>3
<1>21. /\ Good(W, {}) /\ Grows(F, W) /\ Shape(W) /\ j \in NodesOf(W, s) /\ j \in DOMAIN W.node
       /\ Sound(F, {}) /\ s \in F.live /\ i \in NodesOf(F, s) => Sound(W, {})
  BY <1>1, <1>19, <1>20, AgainOk
<1>22. Grows(U, W)
  <2>1. Grows(U, F)
    BY <1>11, <1>19, GrowsTransitive
  <2> QED BY <2>1, <1>21, GrowsTransitive
<1>23. ASSUME Sound(U, {}), s \in U.live, p \in NodesOf(U, s), r \in NodesOf(U, s)
       PROVE  Sound(W, {})
  <2>1. Sound(C, P3) /\ C.live = U.live /\ p \in NodesOf(C, s) /\ r \in NodesOf(C, s)
    BY <1>23, <1>2, <1>5, <1>7 DEF NodesOf
  <2>2. Sound(D, Q2) /\ s \in D.live /\ r \in NodesOf(D, s)
    BY <1>23, <2>1, <1>11, <1>16 DEF Grows, Widens
  <2>3. Sound(V, Q1) /\ s \in V.live /\ n \in NodesOf(V, s)
    BY <2>2, <1>16, <1>17 DEF Grows, Widens
  <2>4. Sound(F, {}) /\ s \in F.live /\ i \in NodesOf(F, s)
    BY <2>3, <1>17, <1>18, <1>19 DEF Grows, Widens
  <2> QED BY <2>4, <1>21
<1> QED BY <1>21, <1>22, <1>23 DEF j, Joined

\* kTableStream.Join: either joiner finds the other side's store.
LEMMA TableJoinKeeps ==
  ASSUME GraphInv, NEW h \in DOMAIN stream, ~stream[h].global, stream[h].table # 0,
         NEW o \in DOMAIN stream, stream[o].table # 0, TableJoin(h, o)
  PROVE  CallKept
<1> DEFINE k == stream[h]
           s == stream[h].stp
           q == stream[o].stp
           b == stream[o].table
           a == stream[h].table
           S == ShouldCoPartitionedWith(tp, stream[o].src, stream[h].src)
           T == AddStore(S, s, b)
           U == Merged(T, s, q)
           x == WithStore("joiner", tp.store[b].name)
           y == WithStore("joiner", tp.store[a].name)
           z == Node("merger")
           n == Len(tp.node) + 1
           W == WithJoiners(U, s, stream[h].root, stream[o].root, x, y, z, n)
           ks == [stream EXCEPT ![o].stp = s]
           c == newChildTable(k, n + 2)
<1>1. tp' = W /\ stream' = Append(ks, c) /\ stale' = (stale \/ Stale(h) \/ Stale(o))
  BY DEF TableJoin, Last1, WithJoiners
<1>2. /\ k \in HandleRecords /\ KnownHandle(tp, stream, stream[o]) /\ KnownHandle(tp, stream, k)
      /\ s \in DOMAIN tp.sub /\ stream[o].src \in DOMAIN tp.node
  BY HandleFacts
<1>3. /\ b \in DOMAIN tp.store /\ Good(tp, {})
      /\ k.split = 0 /\ StoreExists(tp, s, tp.store[a].name)
  BY <1>2 DEF KnownHandle, GraphInv, GraphOk
<1>4. Alike(tp, S) /\ S.store = tp.store
  BY <1>2, <1>3, AlikeCoPartition
<1> HIDE DEF S, a, b
<1>5. b \in DOMAIN S.store
  BY <1>3, <1>4
<1>6. Alike(tp, T) /\ T.store = tp.store /\ StoreExists(T, s, tp.store[b].name)
  BY <1>2, <1>4, <1>5, AlikeStore
<1>7. U = Merged(T, stream[h].stp, stream[o].stp) /\ ks = [stream EXCEPT ![o].stp = stream[h].stp]
  OBVIOUS
<1> HIDE DEF T, U, ks
<1>8. /\ Good(U, {}) /\ Grows(T, U) /\ Grows(tp, U) /\ GraphOk(U, ks)
      /\ Len(U.node) = Len(tp.node) /\ U.sub[stream[h].stp].kind = "stream"
      /\ stream[h].stp \in DOMAIN U.sub /\ stream[h].root \in DOMAIN U.node
      /\ stream[o].root \in DOMAIN U.node
      /\ KnownHandle(tp, ks, stream[h])
      /\ BothLive(h, o) => Sound(U, {}) /\ NoneLost(U, ks) /\ MergesRoots(U, h, o)
  BY ONLY GraphInv, ~stream[h].global, h \in DOMAIN stream, o \in DOMAIN stream, <1>6, <1>7, MergeCallKeeps
<1>9. /\ FreshNode(x) /\ ~x.fmt /\ x.kind \notin TopicKinds /\ x.store = tp.store[b].name
      /\ FreshNode(y) /\ ~y.fmt /\ y.kind \notin TopicKinds /\ y.store = tp.store[a].name
      /\ FreshNode(z) /\ ~z.fmt /\ z.kind \notin TopicKinds \cup NeedsStore
  BY NodeFacts DEF NeedsStore, TopicKinds
<1> HIDE DEF x, y, z
<1>10. Fits(U, s, x) /\ Fits(U, s, y) /\ Fits(U, s, z)
  BY <1>2, <1>3, <1>6, <1>8, <1>9 DEF Fits, Alike, Grows, Widens
<1>11. Attachable(U, s, x) /\ Attachable(U, s, y) /\ Attachable(U, s, z)
  BY <1>9, <1>10 DEF Attachable
<1> DEFINE p == stream[h].root
           r == stream[o].root
<1>12. W = WithJoiners(U, s, p, r, x, y, z, n) /\ n = Len(U.node) + 1
  BY <1>8
<1> HIDE DEF n, W
<1>13. /\ s \in DOMAIN U.sub /\ p \in DOMAIN U.node /\ r \in DOMAIN U.node /\ Good(U, {})
  BY <1>8
<1> HIDE DEF s, p, r
<1> DEFINE m == n + 2
<1>14. Joined(U, s, p, r, m, W)
  BY ONLY <1>11, <1>12, <1>13, JoinersKeep
<1>15. /\ Good(W, {}) /\ Grows(U, W) /\ Shape(W) /\ m \in NodesOf(W, s) /\ m \in DOMAIN W.node
       /\ Sound(U, {}) /\ s \in U.live /\ stream[h].root \in NodesOf(U, s)
            /\ stream[o].root \in NodesOf(U, s) => Sound(W, {})
  BY <1>14 DEF Joined, p, r
<1>16. Grows(tp, W) /\ Widens(tp, W)
  BY <1>8, <1>15, GrowsTransitive, GrowsWidens
<1>17. c = newChildTable(k, m) /\ KnownHandle(tp, ks, k) /\ m \in NodesOf(W, k.stp) /\ m \in DOMAIN W.node
  BY <1>8, <1>15 DEF s
<1> HIDE DEF k, c, m
<1>18. c \in HandleRecords /\ KnownHandle(W, ks, c) /\ RootedHandle(W, ks, c)
  BY <1>2, <1>3, <1>15, <1>16, <1>17, ChildTableOk
<1>19. BothLive(h, o) => NoneLost(U, ks) /\ Sound(W, {})
  BY <1>8, <1>15 DEF MergesRoots, s
<1> QED BY <1>1, <1>8, <1>15, <1>16, <1>18, <1>19, MergedCall

-----------------------------------------------------------------------------
(* The specification keeps the graph's invariant.                          *)

LEMMA StreamCallKeeps ==
  ASSUME GraphInv, NEW h \in Streams, StreamCall(h)
  PROVE  CallKept
<1>1. h \in DOMAIN stream /\ stream[h].split = 0 /\ ~stream[h].global
  BY DEF Streams
<1>2. \A kind \in Processors \cup Rekeyers : kind \notin NeedsStore \cup {"kSource"}
  BY TopologyAssumption DEF OneToOne, NeedsStore
<1>3. ASSUME NEW kind \in Processors, Process(h, kind)
      PROVE  CallKept
  BY <1>1, <1>2, <1>3, ProcessKeeps
<1>4. ASSUME NEW kind \in Rekeyers, NEW d \in BOOLEAN, Rekey(h, kind, d)
      PROVE  CallKept
  BY <1>1, <1>2, <1>4, RekeyKeeps
<1>5. CASE Branch(h)
  BY <1>1, <1>5, BranchKeeps
<1>6. CASE Split(h)
  BY <1>1, <1>6, SplitKeeps
<1>7. ASSUME NEW s \in Stores, Aggregate(h, s)
      PROVE  CallKept
  BY <1>1, <1>7, AggregateKeeps
<1>8. ASSUME NEW s \in Stores, AddStateStore(h, s)
      PROVE  CallKept
  BY <1>1, <1>8, AddStateStoreKeeps
<1>9. ASSUME NEW s \in Stores, NEW c \in BOOLEAN, ToTable(h, s, c)
      PROVE  CallKept
  BY <1>1, <1>9, ToTableKeeps
<1>10. ASSUME NEW g \in Globals, JoinGlobalTable(h, g)
       PROVE  CallKept
  BY <1>1, <1>10, JoinGlobalTableKeeps
<1>11. ASSUME NEW t \in Tables, JoinTable(h, t)
       PROVE  CallKept
  <2>1. t \in DOMAIN stream /\ stream[t].table # 0
    BY DEF Tables
  <2> QED BY <1>1, <1>11, <2>1, JoinTableKeeps
<1>12. ASSUME NEW t \in Topics, Through(h, t)
       PROVE  CallKept
  BY <1>1, <1>12, ThroughKeeps
<1>13. ASSUME NEW t \in Topics, To(h, t)
       PROVE  CallKept
  BY <1>1, <1>13, ToKeeps
<1>14. ASSUME NEW t \in RepTopics, Repartition(h, t)
       PROVE  CallKept
  BY <1>1, <1>14, RepartitionKeeps
<1>15. ASSUME NEW o \in Streams, Merge(h, o)
       PROVE  CallKept
  <2>1. o \in DOMAIN stream
    BY DEF Streams
  <2> QED BY <1>1, <1>15, <2>1, MergeKeeps
<1> QED BY <1>3, <1>4, <1>5, <1>6, <1>7, <1>8, <1>9, <1>10, <1>11, <1>12, <1>13, <1>14, <1>15
        DEF StreamCall

LEMMA TableCallKeeps ==
  ASSUME GraphInv, NEW h \in Tables, TableCall(h)
  PROVE  CallKept
<1>1. h \in DOMAIN stream /\ stream[h].table # 0 /\ ~stream[h].global
  BY DEF Tables
<1>2. stream[h].split = 0
  BY <1>1, HandleFacts DEF KnownHandle
<1>3. \A kind \in Processors : kind \notin NeedsStore \cup {"kSource"}
  BY TopologyAssumption DEF OneToOne, NeedsStore
<1>4. ASSUME NEW kind \in Processors, TableProcess(h, kind)
      PROVE  CallKept
  BY <1>1, <1>2, <1>3, <1>4, TableProcessKeeps
<1>5. CASE ToStream(h)
  BY <1>1, <1>5, ToStreamKeeps
<1>6. ASSUME NEW g \in Globals, JoinGlobalTable(h, g)
      PROVE  CallKept
  BY <1>1, <1>2, <1>6, JoinGlobalTableKeeps
<1>7. ASSUME NEW o \in Tables, TableJoin(h, o)
      PROVE  CallKept
  <2>1. o \in DOMAIN stream /\ stream[o].table # 0
    BY DEF Tables
  <2> QED BY <1>1, <1>7, <2>1, TableJoinKeeps
<1> QED BY <1>4, <1>5, <1>6, <1>7 DEF TableCall

\* Every DSL call.
LEMMA DslKeeps ==
  ASSUME GraphInv, Dsl
  PROVE  CallKept
<1>1. ASSUME NEW t \in Topics, NEW auto \in BOOLEAN, KStream(t, auto)
      PROVE  CallKept
  BY <1>1, KStreamKeeps
<1>2. ASSUME NEW t \in Topics, NEW s \in GStores, GlobalTable(t, s)
      PROVE  CallKept
  BY <1>2, GlobalTableKeeps
<1>3. ASSUME NEW h \in Streams, StreamCall(h)
      PROVE  CallKept
  BY <1>3, StreamCallKeeps
<1>4. ASSUME NEW h \in Splits, SplitNew(h)
      PROVE  CallKept
  BY <1>4, SplitNewKeeps
<1>5. ASSUME NEW t \in Tables, TableCall(t)
      PROVE  CallKept
  BY <1>5, TableCallKeeps
<1> QED BY <1>1, <1>2, <1>3, <1>4, <1>5 DEF Dsl

\* A set-up renames topics and changelogs and sets counts: no list changes.
SameNode(x, y) ==
  \A f \in {"kind", "sub", "id", "fmt", "auto", "as", "cop", "marks", "store"} : y[f] = x[f]
LEMMA LeavesFacts ==
  ASSUME GraphInv, NEW S, Leaves(S)
  PROVE  /\ SamePlaces(tp, tp') /\ tp'.sub = tp.sub /\ tp'.live = tp.live
         /\ DOMAIN tp'.node = DOMAIN tp.node
         /\ \A n \in DOMAIN tp.node :
              /\ SameNode(tp.node[n], tp'.node[n])
              /\ tp'.node[n].topic = S.tp.node[n].topic /\ tp'.node[n].count = S.tp.node[n].count
<1> DEFINE N(n) == [tp.node[n] EXCEPT !.topic = S.tp.node[n].topic, !.count = S.tp.node[n].count]
           B(b) == [tp.store[b] EXCEPT !.changelog = S.tp.store[b].changelog,
                                       !.internal = S.tp.store[b].internal]
           nodes == [n \in DOMAIN tp.node |-> N(n)]
           stores == [b \in DOMAIN tp.store |-> B(b)]
<1>1. GraphOk(tp, stream) /\ Good(tp, {}) /\ Shape(tp)
  BY DEF GraphInv, GraphOk, Good
<1>2. /\ DOMAIN tp' = TopologyFields /\ tp'.node = nodes /\ tp'.store = stores
      /\ tp'.sub = tp.sub /\ tp'.live = tp.live
  BY <1>1 DEF Leaves, Shape, TopologyFields
<1>3. ASSUME NEW n \in DOMAIN tp.node
      PROVE  /\ DOMAIN N(n) = NodeFields
             /\ SameNode(tp.node[n], N(n))
             /\ N(n).topic = S.tp.node[n].topic /\ N(n).count = S.tp.node[n].count
  <2> DEFINE x == tp.node[n]
             y == [x EXCEPT !.topic = S.tp.node[n].topic, !.count = S.tp.node[n].count]
  <2>1. DOMAIN x = NodeFields
    BY <1>1 DEF Shape
  <2> HIDE DEF x
  <2>2. /\ DOMAIN y = NodeFields /\ SameNode(x, y)
        /\ y.topic = S.tp.node[n].topic /\ y.count = S.tp.node[n].count
    BY <2>1 DEF NodeFields, SameNode
  <2> QED BY <2>2 DEF x
<1>4. ASSUME NEW b \in DOMAIN tp.store
      PROVE  DOMAIN B(b) = StoreFields /\ B(b).name = tp.store[b].name
  <2> DEFINE x == tp.store[b]
             y == [x EXCEPT !.changelog = S.tp.store[b].changelog, !.internal = S.tp.store[b].internal]
  <2>1. DOMAIN x = StoreFields
    BY <1>1 DEF Shape
  <2> HIDE DEF x
  <2>2. DOMAIN y = StoreFields /\ y.name = x.name
    BY <2>1 DEF StoreFields
  <2> QED BY <2>2 DEF x
<1> HIDE DEF N, B
<1>5. /\ DOMAIN nodes = DOMAIN tp.node
       /\ \A n \in DOMAIN tp.node :
            /\ DOMAIN nodes[n] = NodeFields
            /\ SameNode(tp.node[n], nodes[n])
            /\ nodes[n].topic = S.tp.node[n].topic /\ nodes[n].count = S.tp.node[n].count
  BY <1>3
<1>6. /\ DOMAIN stores = DOMAIN tp.store
       /\ \A b \in DOMAIN tp.store : DOMAIN stores[b] = StoreFields /\ stores[b].name = tp.store[b].name
  BY <1>4
<1>7. nodes \in Seq(Range(nodes)) /\ stores \in Seq(Range(stores))
  <2>1. nodes \in [DOMAIN tp.node -> Range(nodes)] /\ stores \in [DOMAIN tp.store -> Range(stores)]
    BY DEF Range
  <2>2. /\ DOMAIN tp.node = 1 .. Len(tp.node) /\ Len(tp.node) \in Nat
        /\ DOMAIN tp.store = 1 .. Len(tp.store) /\ Len(tp.store) \in Nat
    BY <1>1, SeqFacts DEF Shape
  <2> QED BY <2>1, <2>2
<1> HIDE DEF nodes, stores
<1>8. Shape(tp')
  BY <1>1, <1>2, <1>5, <1>6, <1>7 DEF Shape
<1>9. \A s \in DOMAIN tp.sub : \A name : StoreExists(tp, s, name) => StoreExists(tp', s, name)
  BY <1>1, <1>2, <1>6 DEF StoreExists, Shape
<1>10. MarksOk(tp')
  BY <1>1, <1>2, <1>5 DEF Good, Tidy, MarksOk, SameNode
<1>11. SamePlaces(tp, tp')
  BY <1>2, <1>5, <1>6, <1>8, <1>9, <1>10 DEF SamePlaces, SameNode
<1> QED BY <1>2, <1>5, <1>11

LEMMA LeavesKeeps ==
  ASSUME GraphInv, NEW S, Leaves(S), UNCHANGED <<stream, stale>>
  PROVE  GraphInv'
<1> DEFINE U == tp'
<1>1. GraphOk(tp, stream) /\ Good(tp, {})
  BY DEF GraphInv, GraphOk
<1>2. SamePlaces(tp, U) /\ \A s \in DOMAIN tp.sub : U.sub[s].edges = tp.sub[s].edges
  BY LeavesFacts
<1> HIDE DEF U
<1>3. Good(U, {}) /\ Widens(tp, U) /\ (Sound(tp, {}) => Sound(U, {}))
  BY <1>1, <1>2, SamePlacesKeeps
<1>4. GraphOk(U, stream) /\ (NoneLost(tp, stream) /\ Sound(U, {}) => NoneLost(U, stream))
  BY <1>1, <1>3, NoHandle
<1> QED BY <1>3, <1>4 DEF GraphInv, NoneLost, U

LEMMA GraphInit == Init => GraphInv
<1> SUFFICES ASSUME Init
             PROVE  GraphInv
  OBVIOUS
<1>1. tp = EmptyTopology /\ stream = <<>> /\ stale = FALSE
  BY DEF Init, DslInit
<1>2. Shape(tp)
  BY <1>1 DEF Shape, EmptyTopology, TopologyFields
<1>3. /\ DOMAIN tp.node = {} /\ DOMAIN tp.sub = {} /\ tp.live = {}
      /\ DOMAIN stream = {} /\ stream \in Seq(HandleRecords)
  BY <1>1 DEF EmptyTopology
<1>4. Tidy(tp)
  BY <1>3 DEF Tidy, MarksOk, OnePlace, OneGlobal
<1>5. Good(tp, {}) /\ Sound(tp, {}) /\ Handles(tp, stream) /\ Rooted(tp, stream)
  BY <1>2, <1>3, <1>4 DEF Good, Listed, Stored, Sound, Homed, EdgesIn, Handles, Rooted
<1> QED BY <1>1, <1>5 DEF GraphInv, GraphOk, NoneLost

LEMMA GraphNext == GraphInv /\ [Next]_vars => GraphInv'
<1> SUFFICES ASSUME GraphInv, [Next]_vars
             PROVE  GraphInv'
  OBVIOUS
<1>1. CASE Dsl /\ UNCHANGED setupVars
  BY <1>1, DslKeeps DEF CallKept
<1>2. CASE Build
  BY <1>2, LeavesKeeps DEF Build
<1>3. CASE Reset
  BY <1>3, LeavesKeeps DEF Reset
<1>4. CASE MetadataSpreads
  BY <1>4, GraphStutters DEF CallKept, MetadataSpreads, dslVars
<1>5. CASE \E up \in BOOLEAN : StartInstance(up)
  BY <1>5, GraphStutters DEF CallKept, StartInstance, dslVars
<1>6. CASE UNCHANGED vars
  BY <1>6, GraphStutters DEF CallKept, vars, dslVars
<1> QED BY <1>1, <1>2, <1>3, <1>4, <1>5, <1>6 DEF Next

\* The graph's invariant holds of every program.
LEMMA GraphInvariant == Spec => []GraphInv
<1> QED BY GraphInit, GraphNext, PTL DEF Spec

-----------------------------------------------------------------------------
(* What the invariant says of the program's topology.                      *)

\* Every node's store is in its list, so none is missing.
LEMMA InvStores == GraphInv => StoresPresent
<1> SUFFICES ASSUME GraphInv, NEW s \in tp.live,
                    NEW n \in NodesOf(tp, s), tp.node[n].kind \in NeedsStore
             PROVE  StoreExists(tp, s, tp.node[n].store)
  BY DEF StoresPresent, MissingStores, NodesOf
<1>1. s \in DOMAIN tp.sub /\ Stored(tp)
  BY DEF GraphInv, GraphOk, Good, Shape
<1> QED BY <1>1 DEF Stored

\* An edge's end is where its id points.
LEMMA PlaceFacts ==
  ASSUME GraphInv, NEW s \in DOMAIN tp.sub, NEW n \in NodesOf(tp, s)
  PROVE  /\ ~(tp.node[n].id >= Len(tp.sub[s].nodes))
         /\ tp.sub[s].nodes[tp.node[n].id + 1] = n
         /\ tp.node[n].sub = s
<1>1. KnowsPlace(tp, s, n)
  BY DEF GraphInv, GraphOk, Good, Listed
<1>2. Len(tp.sub[s].nodes) \in Nat /\ DOMAIN tp.sub[s].nodes = 1 .. Len(tp.sub[s].nodes)
  <2>1. tp.sub[s].nodes \in Seq(Nat)
    BY SubFacts DEF GraphInv, GraphOk, Good
  <2> QED BY <2>1, SeqFacts
<1>3. tp.node[n].id \in Nat /\ tp.node[n].id + 1 \in 1 .. Len(tp.sub[s].nodes)
  BY <1>1, <1>2 DEF KnowsPlace
<1>4. \A a, b \in Nat : a + 1 \in 1 .. b => ~(a >= b)
  OBVIOUS
<1>5. ~(tp.node[n].id >= Len(tp.sub[s].nodes))
  BY ONLY <1>2, <1>3, <1>4
<1> QED BY <1>1, <1>5 DEF KnowsPlace

\* Nodes that are homed and listed are in one live list, where their ids say.
LEMMA InvLost == GraphInv => NothingLost
<1> SUFFICES ASSUME GraphInv, ~stale
             PROVE  (\A s \in tp.live : Wired(s)) /\ (\A n \in DOMAIN tp.node : InOneLive(n))
  BY DEF NothingLost, GraphInv
<1>1. Shape(tp) /\ Good(tp, {}) /\ EdgesIn(tp) /\ Homed(tp, {})
  BY DEF GraphInv, GraphOk, Good, NoneLost, Sound
<1>2. ASSUME NEW s \in tp.live
      PROVE  Wired(s)
  <2> DEFINE e == tp.sub[s].edges
  <2>1. s \in DOMAIN tp.sub
    BY <1>1, <1>2 DEF Shape
  <2>2. \A i \in DOMAIN e : e[i][1] \in NodesOf(tp, s) /\ e[i][2] \in NodesOf(tp, s)
    BY <1>1, <2>1 DEF EdgesIn
  <2> HIDE DEF e
  <2>3. \A i \in DOMAIN e : \A j \in {1, 2} :
          /\ ~(tp.node[e[i][j]].id >= Len(tp.sub[s].nodes))
          /\ tp.sub[s].nodes[tp.node[e[i][j]].id + 1] = e[i][j]
    <3> SUFFICES ASSUME NEW i \in DOMAIN e, NEW j \in {1, 2}
                 PROVE  /\ ~(tp.node[e[i][j]].id >= Len(tp.sub[s].nodes))
                        /\ tp.sub[s].nodes[tp.node[e[i][j]].id + 1] = e[i][j]
      OBVIOUS
    <3>1. e[i][j] \in NodesOf(tp, s)
      BY <2>2
    <3> QED BY <2>1, <3>1, PlaceFacts
  <2>4. ~Dangling(tp, s)
    <3>1. Dangling(tp, s) <=> \E i \in DOMAIN e : \E j \in {1, 2} :
                                tp.node[e[i][j]].id >= Len(tp.sub[s].nodes)
      BY DEF Dangling, e
    <3> QED BY ONLY <2>3, <3>1
  <2>5. ASSUME NEW i \in DOMAIN e, NEW j \in {1, 2}
        PROVE  BuiltEdges(tp, s)[i][j] = tp.node[e[i][j]].id + 1
    <3>1. BuiltEdges(tp, s)[i] = <<tp.node[e[i][1]].id + 1, tp.node[e[i][2]].id + 1>>
      BY Zenon DEF BuiltEdges, e
    <3>2. CASE j = 1
      BY <3>1, <3>2
    <3>3. CASE j = 2
      BY <3>1, <3>3
    <3> QED BY <3>2, <3>3
  <2>6. \A i \in DOMAIN DeclaredEdges(tp, s), j \in {1, 2} :
          tp.sub[s].nodes[BuiltEdges(tp, s)[i][j]] = DeclaredEdges(tp, s)[i][j]
    <3>1. DeclaredEdges(tp, s) = e
      BY DEF DeclaredEdges, e
    <3>2. ASSUME NEW i \in DOMAIN e, NEW j \in {1, 2}
          PROVE  tp.sub[s].nodes[BuiltEdges(tp, s)[i][j]] = e[i][j]
      BY <2>3, <2>5
    <3> QED BY ONLY <3>1, <3>2
  <2> QED BY <2>4, <2>6 DEF Wired
<1>3. ASSUME NEW n \in DOMAIN tp.node
      PROVE  InOneLive(n)
  <2> DEFINE L == {s \in tp.live : n \in Range(tp.sub[s].nodes)}
  <2>1. tp.node[n].sub \in tp.live /\ n \in NodesOf(tp, tp.node[n].sub)
    BY <1>1, <1>3 DEF Homed
  <2>2. ASSUME NEW s \in tp.live, n \in NodesOf(tp, s)
        PROVE  s = tp.node[n].sub
    <3>1. s \in DOMAIN tp.sub
      BY <1>1, <2>2 DEF Shape
    <3> QED BY <2>2, <3>1, PlaceFacts
  <2>3. L = {tp.node[n].sub}
    BY <2>1, <2>2 DEF NodesOf
  <2>4. Cardinality(L) = 1
    BY <2>3, FS_Singleton
  <2> QED BY <2>4 DEF InOneLive
<1> QED BY <1>2, <1>3

\* No node of a sub-topology that will be built asks it for a store that is not
\* there (KSubTopology.Store panics otherwise), after any chain of joins, merges
\* and set-ups: what kSubTopologyBuilder.MergeSubTopology moves keeps its stores.
THEOREM StoresPresentHolds == Spec => []StoresPresent
<1> QED BY GraphInvariant, InvStores, PTL

\* The DSL loses nothing (kSubTopologyBuilder.AddNode, AddEdge, MergeSubTopology,
\* kTopologyBuilder.RemoveSubTopology): unless the program went on with a handle
\* of a merged-away sub-topology, every node is in exactly one sub-topology that
\* will be built, and the ids by which Build wires nodes lead to the ends that
\* the program declared.
THEOREM NothingLostHolds == Spec => []NothingLost
<1> QED BY GraphInvariant, InvLost, PTL

-----------------------------------------------------------------------------
(* The tasks of the instances.                                             *)

\* The program calls the DSL before it builds.
LEMMA DslPhase == Dsl => phase = "dsl" /\ phase' \in {"dsl", "panic"}
<1> SUFFICES ASSUME Dsl
             PROVE  phase = "dsl" /\ phase' \in {"dsl", "panic"}
  OBVIOUS
<1>0. /\ \A name : Call(name) => phase = "dsl"
      /\ \A T, hs, through : Returns(T, hs, through) => phase' = phase
      /\ Panics => phase' = "panic"
  BY DEF Call, Returns, Panics
<1>1. CASE \E t \in Topics, auto \in BOOLEAN : KStream(t, auto)
  BY <1>0, <1>1 DEF KStream
<1>2. CASE \E t \in Topics, s \in GStores : GlobalTable(t, s)
  BY <1>0, <1>2 DEF GlobalTable
<1>3. ASSUME NEW h \in Streams, StreamCall(h)
      PROVE  phase = "dsl" /\ phase' \in {"dsl", "panic"}
  <2>1. CASE \E kind \in Processors : Process(h, kind)
    BY <1>0, <2>1 DEF Process
  <2>2. CASE \E kind \in Rekeyers, d \in BOOLEAN : Rekey(h, kind, d)
    BY <1>0, <2>2 DEF Rekey
  <2>3. CASE Branch(h)
    BY <1>0, <2>3 DEF Branch
  <2>4. CASE Split(h)
    BY <1>0, <2>4 DEF Split
  <2>5. CASE \E s \in Stores : Aggregate(h, s) \/ AddStateStore(h, s)
    BY <1>0, <2>5 DEF Aggregate, AddStateStore
  <2>6. CASE \E s \in Stores, c \in BOOLEAN : ToTable(h, s, c)
    BY <1>0, <2>6 DEF ToTable
  <2>7. CASE \E g \in Globals : JoinGlobalTable(h, g)
    BY <1>0, <2>7 DEF JoinGlobalTable
  <2>8. CASE \E t \in Tables : JoinTable(h, t)
    BY <1>0, <2>8 DEF JoinTable
  <2>9. CASE \E t \in Topics : Through(h, t) \/ To(h, t)
    BY <1>0, <2>9 DEF Through, To
  <2>10. CASE \E t \in RepTopics : Repartition(h, t)
    BY <1>0, <2>10 DEF Repartition
  <2>11. CASE \E o \in Streams : Merge(h, o)
    BY <1>0, <2>11 DEF Merge
  <2> QED BY <1>3, <2>1, <2>2, <2>3, <2>4, <2>5, <2>6, <2>7, <2>8, <2>9, <2>10, <2>11 DEF StreamCall
<1>4. CASE \E h \in Splits : SplitNew(h)
  BY <1>0, <1>4 DEF SplitNew
<1>5. ASSUME NEW t \in Tables, TableCall(t)
      PROVE  phase = "dsl" /\ phase' \in {"dsl", "panic"}
  BY <1>0, <1>5 DEF TableCall, TableProcess, ToStream, JoinGlobalTable, TableJoin
<1> QED BY <1>1, <1>2, <1>3, <1>4, <1>5 DEF Dsl

LEMMA TaskInit == Init => TaskInv
<1> SUFFICES ASSUME Init
             PROVE  TaskInv
  OBVIOUS
<1>1. gens = <<>>
  BY DEF Init
<1> QED BY <1>1 DEF TaskInv

\* What a step before the first instance, or after Build, leaves.
LEMMA NoTasksYet ==
  ASSUME TaskInv, phase # "built", gens' = gens
  PROVE  TaskInv'
<1>1. gens = <<>>
  BY DEF TaskInv
<1> QED BY <1>1 DEF TaskInv

\* After Build neither the sources nor the broker change.
LEMMA TasksStay ==
  ASSUME TaskInv, UNCHANGED <<gens, phase, tp, broker>>
  PROVE  TaskInv'
<1>1. /\ SourceTopics' = SourceTopics /\ StreamSources(tp)' = StreamSources(tp)
      /\ \A u : PartitionsBut(u)' = PartitionsBut(u)
  BY DEF SourceTopics, SourceTopicsOf, StreamSources, SourcesOf, PartitionsBut
<1> QED BY <1>1 DEF TaskInv

LEMMA TaskNext == TaskInv /\ [Next]_vars => TaskInv'
<1> SUFFICES ASSUME TaskInv, [Next]_vars
             PROVE  TaskInv'
  OBVIOUS
<1>1. CASE Dsl /\ UNCHANGED setupVars
  BY <1>1, DslPhase, NoTasksYet DEF setupVars
<1>2. CASE Build
  BY <1>2, NoTasksYet DEF Build
<1>3. CASE Reset
  BY <1>3, NoTasksYet DEF Reset
<1>4. CASE MetadataSpreads
  BY <1>4, TasksStay DEF MetadataSpreads, dslVars
<1>5. ASSUME NEW up \in BOOLEAN, StartInstance(up)
      PROVE  TaskInv'
  <2> DEFINE g == Generate(StreamSources(tp), KnownPartitions, up)
             u == unknown \cap SourceTopics
  <2>1. UNCHANGED <<phase, tp, broker>> /\ phase = "built" /\ gens' = Append(gens, g)
    BY <1>5 DEF StartInstance, dslVars
  <2>2. /\ SourceTopics' = SourceTopics /\ StreamSources(tp)' = StreamSources(tp)
        /\ \A v : PartitionsBut(v)' = PartitionsBut(v)
    BY <2>1 DEF SourceTopics, SourceTopicsOf, StreamSources, SourcesOf, PartitionsBut
  <2>3. KnownPartitions = PartitionsBut(u) /\ u \in SUBSET SourceTopics
    <3>1. (SourceTopics \cap DOMAIN broker) \ unknown = (SourceTopics \cap DOMAIN broker) \ u
      OBVIOUS
    <3> QED BY <3>1 DEF KnownPartitions, PartitionsBut
  <2>4. g = Generate(StreamSources(tp), PartitionsBut(u), up)
    BY <2>3
  <2> HIDE DEF g, u
  <2>5. /\ gens' \in Seq(Range(gens')) /\ DOMAIN gens' = DOMAIN gens \cup {Len(gens) + 1}
        /\ gens'[Len(gens) + 1] = g /\ \A i \in DOMAIN gens : gens'[i] = gens[i]
    BY <2>1, AppendAny DEF TaskInv
  <2>6. \A i \in DOMAIN gens' : \E v \in SUBSET SourceTopics, w \in BOOLEAN :
          gens'[i] = Generate(StreamSources(tp), PartitionsBut(v), w)
    BY <2>3, <2>4, <2>5 DEF TaskInv
  <2> QED BY <2>1, <2>2, <2>5, <2>6 DEF TaskInv
<1>6. CASE UNCHANGED vars
  BY <1>6, TasksStay DEF vars, dslVars, setupVars
<1> QED BY <1>1, <1>2, <1>3, <1>4, <1>5, <1>6 DEF Next

\* Every instance's task list is what Generate made of the one topology.
LEMMA TaskInvariant == Spec => []TaskInv
<1> QED BY TaskInit, TaskNext, PTL DEF Spec

\* Which way the map of mappings was iterated does not show in the ids, if no
\* two tasks have the same hash.
Precedes(A, m) == {n \in A : HashLess(HashOf(n), HashOf(m))}
LEMMA GenerateByHash ==
  ASSUME NEW sources, DOMAIN sources \subseteq Nat, NEW tps, NEW up,
         NEW A, A = TasksOf(sources, tps), \A m, n \in A : m # n => HashOf(m) # HashOf(n)
  PROVE  Generate(sources, tps, up) = [m \in A |-> Cardinality(Precedes(A, m))]
<1> DEFINE h == [m \in A |-> HashOf(m)]
           B(m, n) == \/ HashLess(h[m], h[n])
                      \/ h[m] = h[n] /\ IF up THEN m.sub < n.sub ELSE m.sub > n.sub
<1>1. Generate(sources, tps, up) = [m \in A |-> Cardinality({n \in A : B(n, m)})]
  BY DEF Generate
<1>2. \A m \in A : m.sub \in Nat
  BY DEF TasksOf
<1>3. ASSUME NEW m \in A, NEW n \in A
      PROVE  B(n, m) <=> HashLess(HashOf(n), HashOf(m))
  <2>1. h[n] = HashOf(n) /\ h[m] = HashOf(m)
    OBVIOUS
  <2>2. h[n] = h[m] => n = m
    BY <2>1
  <2>3. \A a \in Nat : ~(a < a) /\ ~(a > a)
    OBVIOUS
  <2>4. ~(h[n] = h[m] /\ IF up THEN n.sub < m.sub ELSE n.sub > m.sub)
    BY <1>2, <2>2, <2>3
  <2> QED BY <2>1, <2>4
<1> HIDE DEF B
<1>4. \A m \in A : {n \in A : B(n, m)} = Precedes(A, m)
  BY <1>3 DEF Precedes
<1> QED BY <1>1, <1>4

\* The range strategy looks at a partition's number and at how many there are.
InShare(n, c, i, p) ==
  LET extra == c % n
      size == c \div n
      first == (i - 1) * size + (IF i - 1 < extra THEN i - 1 ELSE extra)
  IN first <= p /\ p < first + size + (IF i - 1 < extra THEN 1 ELSE 0)
LEMMA RangeShares ==
  ASSUME NEW n, NEW counts, NEW i
  PROVE  /\ \A t, p : <<t, p>> \in RangeAssign(n, counts, i) <=>
              t \in DOMAIN counts /\ p \in 0 .. (counts[t] - 1) /\ InShare(n, counts[t], i, p)
         /\ \A x \in RangeAssign(n, counts, i) : x = <<x[1], x[2]>>
<1> DEFINE All == UNION {{t} \X (0 .. (counts[t] - 1)) : t \in DOMAIN counts}
<1>1. /\ \A t, p : <<t, p>> \in All <=> t \in DOMAIN counts /\ p \in 0 .. (counts[t] - 1)
      /\ \A x \in All : x = <<x[1], x[2]>>
  OBVIOUS
<1> HIDE DEF All
<1>2. RangeAssign(n, counts, i) = {x \in All : InShare(n, counts[x[1]], i, x[2])}
  BY DEF RangeAssign, InShare, All
<1> QED BY <1>1, <1>2

\* A task's topics are those of its sub-topology that have its partition.
LEMMA TaskFacts ==
  ASSUME NEW sources, NEW tps, NEW m \in TasksOf(sources, tps)
  PROVE  /\ m.sub \in DOMAIN sources
         /\ m.topics = {t \in sources[m.sub] : <<t, m.part>> \in tps}
         /\ \A t : <<t, m.part>> \in TPs(m) <=> t \in m.topics
         /\ \A x \in TPs(m) : x = <<x[1], m.part>>
BY DEF TasksOf, TPs

\* Every known partition of a source is in a task.
LEMMA TaskOfPartition ==
  ASSUME NEW sources, NEW tps, NEW t, NEW p, <<t, p>> \in tps,
         NEW s \in DOMAIN sources, t \in sources[s]
  PROVE  \E m \in TasksOf(sources, tps) : <<t, p>> \in TPs(m)
<1> DEFINE m == [sub |-> s, part |-> p, topics |-> {u \in sources[s] : <<u, p>> \in tps}]
           x == <<s, p>>
<1>1. x \in (DOMAIN sources) \X {z[2] : z \in tps} /\ x[1] = s /\ x[2] = p
  OBVIOUS
<1>2. m \in TasksOf(sources, tps)
  BY <1>1 DEF TasksOf
<1>3. <<t, p>> \in TPs(m)
  BY DEF TPs
<1> QED BY <1>2, <1>3

\* An assignment that goes by partition numbers gives whole tasks.
LEMMA WholeTasks ==
  ASSUME NEW sources, NEW tps, NEW gen, DOMAIN gen = TasksOf(sources, tps),
         NEW A, A \subseteq tps, \A x \in A : x = <<x[1], x[2]>>,
         \A x \in A : \E s \in DOMAIN sources : x[1] \in sources[s],
         \A s \in DOMAIN sources : \A t, u \in sources[s] : \A p :
           <<t, p>> \in A /\ <<u, p>> \in tps => <<u, p>> \in A
  PROVE  /\ ~InvalidAssignment(gen, A)
         /\ \A t \in A : FindMappingByTP(gen, t) \subseteq Assign(gen, A)
         /\ UNION {TPs(m) : m \in Assign(gen, A)} = A
<1>1. ASSUME NEW m \in Assign(gen, A)
      PROVE  TPs(m) \subseteq A
  <2>1. m \in TasksOf(sources, tps) /\ TPs(m) \cap A # {}
    BY DEF Assign
  <2>2. PICK y \in TPs(m) : y \in A
    BY <2>1
  <2>3. y = <<y[1], m.part>> /\ y[1] \in m.topics
    BY <2>1, <2>2, TaskFacts
  <2>4. ASSUME NEW x \in TPs(m)
        PROVE  x \in A
    <3>1. x = <<x[1], m.part>> /\ x[1] \in m.topics
      BY <2>1, TaskFacts
    <3>2. m.topics = {t \in sources[m.sub] : <<t, m.part>> \in tps} /\ m.sub \in DOMAIN sources
      BY <2>1, TaskFacts
    <3>3. <<y[1], m.part>> \in A /\ <<x[1], m.part>> \in tps
      BY <2>2, <2>3, <3>1, <3>2
    <3> QED BY <2>3, <3>1, <3>2, <3>3
  <2> QED BY <2>4
<1>2. ~InvalidAssignment(gen, A)
  BY <1>1 DEF InvalidAssignment
<1>3. ASSUME NEW t \in A, NEW m \in FindMappingByTP(gen, t)
      PROVE  m \in Assign(gen, A)
  BY <1>3 DEF FindMappingByTP, Assign
<1>4. ASSUME NEW x \in A
      PROVE  \E m \in Assign(gen, A) : x \in TPs(m)
  <2>1. PICK s \in DOMAIN sources : x[1] \in sources[s]
    OBVIOUS
  <2>2. <<x[1], x[2]>> \in tps /\ x = <<x[1], x[2]>>
    BY <1>4
  <2>3. PICK m \in TasksOf(sources, tps) : <<x[1], x[2]>> \in TPs(m)
    BY <2>1, <2>2, TaskOfPartition
  <2> QED BY <1>4, <2>2, <2>3 DEF Assign
<1>5. UNION {TPs(m) : m \in Assign(gen, A)} = A
  BY <1>1, <1>4
<1> QED BY <1>2, <1>3, <1>5

\* The instances agree, and range shares are whole tasks.
LEMMA InvTasks == GraphInv /\ TaskInv => AgreedTasks
<1> SUFFICES ASSUME GraphInv, TaskInv, gens # <<>>, unknown = {}, Regular
             PROVE  /\ \A i, j \in DOMAIN gens : DOMAIN gens[i] = DOMAIN gens[j] => gens[i] = gens[j]
                    /\ \A i \in DOMAIN gens :
                         DOMAIN gens[i] = TasksOf(StreamSources(tp), KnownPartitions) =>
                           /\ ~InvalidAssignment(gens[i], AssignedTo(i))
                           /\ \A t \in AssignedTo(i) :
                                FindMappingByTP(gens[i], t) \subseteq Assign(gens[i], AssignedTo(i))
                           /\ UNION {TPs(m) : m \in Assign(gens[i], AssignedTo(i))} = AssignedTo(i)
  BY DEF AgreedTasks
<1> DEFINE srcs == StreamSources(tp)
           known == SourceTopics \cap DOMAIN broker
           counts == [t \in known |-> broker[t]]
           tps == KnownPartitions
<1>1. DOMAIN srcs \subseteq Nat
  <2>1. tp.live \subseteq DOMAIN tp.sub /\ tp.sub \in Seq(SubRecords)
    BY DEF GraphInv, GraphOk, Good, Shape
  <2>2. DOMAIN tp.sub = 1 .. Len(tp.sub)
    BY <2>1, SeqFacts
  <2> QED BY <2>1, <2>2 DEF StreamSources
<1>2. SourceTopics = UNION Range(srcs)
  BY DEF SourceTopics, SourceTopicsOf
<1>3. tps = UNION {{t} \X (0 .. (broker[t] - 1)) : t \in known}
  BY DEF KnownPartitions
<1>4. \A i : AssignedTo(i) = RangeAssign(Len(gens), counts, i)
  BY DEF AssignedTo
<1>5. /\ \A s \in DOMAIN srcs : \A t, u \in srcs[s] : broker[t] = broker[u]
      /\ \A i \in DOMAIN gens : \A m, n \in DOMAIN gens[i] : m # n => HashOf(m) # HashOf(n)
  BY DEF Regular
<1> HIDE DEF srcs
<1>6. ASSUME NEW i \in DOMAIN gens
      PROVE  gens[i] = [m \in DOMAIN gens[i] |-> Cardinality(Precedes(DOMAIN gens[i], m))]
  <2>1. PICK u \in SUBSET SourceTopics, up \in BOOLEAN : gens[i] = Generate(srcs, PartitionsBut(u), up)
    BY DEF TaskInv, srcs
  <2> DEFINE A == TasksOf(srcs, PartitionsBut(u))
  <2>2. DOMAIN gens[i] = A
    BY <2>1 DEF Generate
  <2>3. \A m, n \in A : m # n => HashOf(m) # HashOf(n)
    BY <1>5, <2>2
  <2>4. A = TasksOf(srcs, PartitionsBut(u))
    OBVIOUS
  <2> HIDE DEF A
  <2>5. Generate(srcs, PartitionsBut(u), up) = [m \in A |-> Cardinality(Precedes(A, m))]
    BY ONLY <1>1, <2>3, <2>4, GenerateByHash
  <2> QED BY <2>1, <2>2, <2>5
<1>7. ASSUME NEW i \in DOMAIN gens, NEW j \in DOMAIN gens, DOMAIN gens[i] = DOMAIN gens[j]
      PROVE  gens[i] = gens[j]
  BY <1>6, <1>7
<1>8. ASSUME NEW i \in DOMAIN gens, DOMAIN gens[i] = TasksOf(srcs, tps)
      PROVE  /\ ~InvalidAssignment(gens[i], AssignedTo(i))
             /\ \A t \in AssignedTo(i) :
                  FindMappingByTP(gens[i], t) \subseteq Assign(gens[i], AssignedTo(i))
             /\ UNION {TPs(m) : m \in Assign(gens[i], AssignedTo(i))} = AssignedTo(i)
  <2> DEFINE A == AssignedTo(i)
             n == Len(gens)
             gen == gens[i]
  <2>1. /\ \A t, p : <<t, p>> \in A <=>
             t \in known /\ p \in 0 .. (broker[t] - 1) /\ InShare(n, broker[t], i, p)
        /\ \A x \in A : x = <<x[1], x[2]>>
    <3>1. /\ \A t, p : <<t, p>> \in A <=>
               t \in DOMAIN counts /\ p \in 0 .. (counts[t] - 1) /\ InShare(n, counts[t], i, p)
          /\ \A x \in A : x = <<x[1], x[2]>>
      BY <1>4, RangeShares
    <3> QED BY <3>1
  <2>2. \A t, p : <<t, p>> \in tps <=> t \in known /\ p \in 0 .. (broker[t] - 1)
    BY <1>3
  <2> HIDE DEF A, n, tps
  <2>3. A \subseteq tps /\ \A x \in A : x[1] \in known
    BY <2>1, <2>2
  <2>4. \A x \in A : \E s \in DOMAIN srcs : x[1] \in srcs[s]
    BY <1>2, <2>3 DEF Range
  <2>5. ASSUME NEW s \in DOMAIN srcs, NEW t \in srcs[s], NEW u \in srcs[s], NEW p,
               <<t, p>> \in A, <<u, p>> \in tps
        PROVE  <<u, p>> \in A
    <3>1. broker[t] = broker[u]
      BY <1>5
    <3>2. InShare(n, broker[t], i, p) /\ u \in known /\ p \in 0 .. (broker[u] - 1)
      BY <2>1, <2>2, <2>5
    <3> QED BY <2>1, <3>1, <3>2
  <2>6. DOMAIN gen = TasksOf(srcs, tps)
    BY <1>8 DEF tps
  <2> HIDE DEF gen
  <2>7. /\ ~InvalidAssignment(gen, A)
        /\ \A t \in A : FindMappingByTP(gen, t) \subseteq Assign(gen, A)
        /\ UNION {TPs(m) : m \in Assign(gen, A)} = A
    BY ONLY <2>1, <2>3, <2>4, <2>5, <2>6, WholeTasks
  <2> QED BY <2>7 DEF A, gen
<1> QED BY <1>7, <1>8 DEF srcs

\* Instances that computed their tasks from the same metadata number them alike,
\* in whatever order the map of mappings was iterated (taskAssigner.Generate),
\* and the coordinator's range assignment, which goes by partition numbers,
\* gives each of them whole tasks and leaves none out (taskAssigner.Assign).
THEOREM AgreedTasksHolds == Spec => []AgreedTasks
<1> QED BY GraphInvariant, TaskInvariant, InvTasks, PTL
=============================================================================
