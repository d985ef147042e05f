---------------------------- MODULE TopologySetup ----------------------------
(***************************************************************************)
(* What becomes of the topology that the DSL built: kTopologyBuilder.setup *)
(* with the Setup of its sources, sinks, changelogs and sub-topologies,    *)
(* Build and Reset over the admin client (kafka/adaptors/sarama/           *)
(* kafka_admin.go), and the start of the group-consumer instances over the *)
(* generated tasks (streams/stream_consumer.go).                           *)
(*                                                                         *)
(* The broker is external: topics with their partition counts.  A topic    *)
(* that was created is not at once known to every metadata request.        *)
(***************************************************************************)
EXTENDS Pipeline, TaskAssigner

CONSTANTS
  Brokers,        \* the partition counts of the topics that may exist at the start
  MaxInstances,   \* group-consumer instances
  MaxResets       \* bound: calls of Reset

ASSUME SetupAssumption ==
  /\ {MaxInstances, MaxResets} \subseteq Nat
  /\ \A f \in Brokers : DOMAIN f \subseteq Topics /\ Range(f) \subseteq Nat \ {0}

VARIABLES
  broker,    \* partition count of every topic that exists
  unknown,   \* source topics created and not yet known to metadata requests
  temp,      \* kAdmin.tempTopicConfigs: topics marked for creation
  registry,  \* names of the offset stores in the store registry
  resets,
  gens       \* the generation each started instance computed

setupVars == <<broker, unknown, temp, registry, resets, gens>>
vars == <<dslVars, setupVars>>

ChangelogTag == 9  \* the name formatted as that of a store's changelog
Formatted(topic) == <<topic[1], topic[2] + 1>>
Max2(a, b) == IF a > b THEN a ELSE b
Put(f, x, v) == [y \in DOMAIN f \cup {x} |-> IF y = x THEN v ELSE f[y]]

-----------------------------------------------------------------------------
(* setup.  S is the state of a set-up: the topology, what was marked for   *)
(* creation, the registry, the topic map, and how it ends.                 *)

StreamSubs(T) == {s \in T.live : T.sub[s].kind # "global-table"}
\* the places of nodes in the lists, and their order in a loop over all of them
Places(T) == UNION {{s} \X DOMAIN T.sub[s].nodes : s \in StreamSubs(T)}
NodeAt(T, p) == T.node[T.sub[p[1]].nodes[p[2]]]
NotAfter(p, q) == p[1] < q[1] \/ (p[1] = q[1] /\ p[2] <= q[2])
MappedTopics(T) ==
  {NodeAt(T, p).topic : p \in {q \in Places(T) : NodeAt(T, q).kind \in {"kSource", "sink"}}}

\* every source of the topic overwrites the entry, a sink only creates it
SourcePlaces(T, t) == {p \in Places(T) : NodeAt(T, p).kind = "kSource" /\ NodeAt(T, p).topic = t}
AutoTopics(T) ==
  {t \in MappedTopics(T) : \E p \in SourcePlaces(T, t) :
                            /\ NodeAt(T, p).auto
                            /\ \A q \in SourcePlaces(T, t) : NotAfter(q, p)}
FetchedTopics(T) == MappedTopics(T) \ AutoTopics(T)

Ends(S, how) == [S EXCEPT !.out = how]

\* partition counts of a sub-topology: the largest of the topics that exist,
\* or of those its auto-created topics are partitioned as
NoCounts(S) == [max |-> 0, auto |-> 0, meta |-> S.meta, panic |-> FALSE]
CountNode(fetched, T, C, n) ==
  LET nd == T.node[n]
      as == T.node[nd.as].topic
      exists == nd.topic \in fetched
  IN CASE C.panic \/ nd.kind # "kSource" \/ (~exists /\ nd.as = 0) -> C
       [] ~C.panic /\ nd.kind = "kSource" /\ exists -> [C EXCEPT !.max = Max2(@, broker[nd.topic])]
       [] OTHER ->
            IF as \notin fetched
            THEN [C EXCEPT !.panic = TRUE]
            ELSE [C EXCEPT !.auto = Max2(@, broker[as]),
                           !.meta = Put(@, nd.topic, Max2(C.auto, broker[as]))]
Counted(S, nodes) ==
  LET after[i \in 0 .. Len(nodes)] ==
        IF i = 0 THEN NoCounts(S) ELSE CountNode(S.fetched, S.tp, after[i - 1], nodes[i])
  IN after[Len(nodes)]

StoreConfigs(S, topic, n) ==
  IF topic \in DOMAIN S.temp THEN Ends(S, "error") ELSE [S EXCEPT !.temp = Put(@, topic, n)]

SetupSource(S, n, count) ==
  LET nd == S.tp.node[n]
      name == IF nd.fmt THEN Formatted(nd.topic) ELSE nd.topic
      parts == IF count < 1 /\ nd.as # 0 THEN S.tp.node[nd.as].count ELSE count
  IN IF nd.auto
     THEN StoreConfigs([S EXCEPT !.tp.node[n].topic = name, !.tp.node[n].count = count], name, parts)
     ELSE [S EXCEPT !.tp.node[n].count = S.meta[nd.topic]]

\* Mutant: only the source's name is formatted.
SinkKeepsName(S, n) == S
SetupSink(S, n) ==
  IF S.tp.node[n].fmt THEN [S EXCEPT !.tp.node[n].topic = Formatted(@)] ELSE S

SetupNode(S, n, count) ==
  IF S.out # "ok" THEN S
  ELSE CASE S.tp.node[n].kind = "kSource" -> SetupSource(S, n, count)
         [] S.tp.node[n].kind = "sink" -> SetupSink(S, n)
         [] OTHER -> S
NodesSetUp(S, nodes, count) ==
  LET after[i \in 0 .. Len(nodes)] ==
        IF i = 0 THEN S ELSE SetupNode(after[i - 1], nodes[i], count)
  IN after[Len(nodes)]

\* Mutant: more partitions than the other side are taken for enough.
CoPartitionedAtLeast(T, s) ==
  \A n \in SourcesOf(T, s) :
    T.node[n].cop # 0 => T.node[n].count >= T.node[T.node[n].cop].count
\* the check looks at one source per topic, the last of the node list
CoPartitioned(T, s) ==
  LET nodes == T.sub[s].nodes
      OfTopic(t) == {i \in DOMAIN nodes : T.node[nodes[i]].kind = "kSource" /\ T.node[nodes[i]].topic = t}
      checked == {n \in SourcesOf(T, s) :
                    \E i \in OfTopic(T.node[n].topic) :
                      nodes[i] = n /\ \A j \in OfTopic(T.node[n].topic) : j <= i}
  IN \A n \in checked :
       T.node[n].cop # 0 => T.node[n].count = T.node[T.node[n].cop].count

\* changelogBuilder.Setup: create the changelog unless it has a name, then
\* register the offset store
SetupChangelog(S, b, count) ==
  LET st == S.tp.store[b]
      topic == <<st.name, ChangelogTag>>
      named == IF st.changelog # NoTopic THEN S
               ELSE StoreConfigs([S EXCEPT !.tp.store[b] = [@ EXCEPT !.changelog = topic, !.internal = TRUE]],
                                 topic, count)
  IN IF S.out # "ok" THEN S
     ELSE IF named.out # "ok" THEN named
     ELSE IF st.name \in S.registry THEN Ends(named, "error")
     ELSE [named EXCEPT !.registry = @ \cup {st.name}]

\* the stores are a Go map: their order shows only in what a failed set-up leaves
ChangelogsSetUp(S, stores, count) ==
  LET after[b \in 0 .. Len(S.tp.store)] ==
        IF b = 0 THEN S
        ELSE IF b \in stores THEN SetupChangelog(after[b - 1], b, count) ELSE after[b - 1]
  IN after[Len(S.tp.store)]

SetupSub(S, s) ==
  LET global == S.tp.sub[s].kind = "global-table"
      nodes == IF global THEN <<>> ELSE S.tp.sub[s].nodes
      C == Counted(S, nodes)
      count == IF C.max < 1 THEN C.auto ELSE C.max
      N == NodesSetUp([S EXCEPT !.meta = C.meta], nodes, count)
  IN IF S.out # "ok" THEN S
     ELSE IF C.panic THEN Ends(S, "panic")
     ELSE IF N.out # "ok" THEN N
     ELSE IF ~CoPartitioned(N.tp, s) THEN Ends(N, "error")
     ELSE ChangelogsSetUp(N, S.tp.sub[s].stores, count)

StartOfSetup(T) ==
  LET fetched == FetchedTopics(T)
  IN [tp |-> T, temp |-> temp, registry |-> registry, fetched |-> fetched, out |-> "ok",
      meta |-> [t \in MappedTopics(T) |-> IF t \in fetched \cap DOMAIN broker THEN broker[t] ELSE 0]]

Setup(T) ==
  LET S0 == StartOfSetup(T)
      after[s \in 0 .. Len(T.sub)] ==
        IF s = 0 THEN S0
        ELSE IF s \in T.live THEN SetupSub(after[s - 1], s) ELSE after[s - 1]
  IN IF S0.fetched \subseteq DOMAIN broker THEN after[Len(T.sub)] ELSE Ends(S0, "error")

\* what a set-up leaves, whether or not it succeeds: names and counts of topics
Leaves(S) ==
  /\ tp' = [tp EXCEPT
              !.node = [n \in DOMAIN @ |-> [@[n] EXCEPT !.topic = S.tp.node[n].topic,
                                                       !.count = S.tp.node[n].count]],
              !.store = [b \in DOMAIN @ |-> [@[b] EXCEPT !.changelog = S.tp.store[b].changelog,
                                                        !.internal = S.tp.store[b].internal]]]
  /\ temp' = S.temp /\ registry' = S.registry

StreamSources(T) ==
  [s \in {x \in T.live : T.sub[x].kind \in {"stream", "table"}} |->
     {T.node[n].topic : n \in SourcesOf(T, s)}]
SourceTopicsOf(T) == UNION Range(StreamSources(T))
SourceTopics == SourceTopicsOf(tp)

-----------------------------------------------------------------------------
(* Build and Reset.                                                        *)

\* ApplyConfigs creates what was ever marked; an existing topic is left alone,
\* a topic of no partitions is refused
Refused(marked) == \E t \in DOMAIN marked \ DOMAIN broker : marked[t] < 1
Created(marked) == [t \in DOMAIN broker \cup DOMAIN marked |->
                      IF t \in DOMAIN broker THEN broker[t] ELSE marked[t]]

Build ==
  LET S == Setup(tp)
  IN /\ phase \in {"dsl", "reset"} /\ tp.live # {}
     /\ Leaves(S)
     /\ phase' = IF S.out # "ok" THEN S.out ELSE IF Refused(S.temp) THEN "error" ELSE "built"
     /\ broker' = IF phase' = "built" THEN Created(S.temp) ELSE broker
     /\ unknown' = SourceTopicsOf(S.tp) \cap (DOMAIN broker' \ DOMAIN broker)
     /\ UNCHANGED <<stream, calls, stale, resets, gens>>

\* the internal topics of a set-up topology
InternalTopics(T) ==
  UNION {{T.store[b].changelog : b \in {c \in T.sub[s].stores : T.store[c].internal}}
           \cup {T.node[n].topic : n \in {m \in SourcesOf(T, s) : T.node[m].auto}} : s \in T.live}

Reset ==
  LET S == Setup(tp)
  IN /\ phase = "dsl" /\ resets < MaxResets /\ tp.live # {}
     /\ Leaves(S)
     /\ resets' = resets + 1
     /\ phase' = IF S.out = "ok" THEN "reset" ELSE S.out
     /\ broker' = IF S.out = "ok"
                  THEN [t \in DOMAIN broker \ InternalTopics(S.tp) |-> broker[t]]
                  ELSE broker
     /\ UNCHANGED <<stream, calls, stale, unknown, gens>>

-----------------------------------------------------------------------------
(* The started topology.                                                   *)

MetadataSpreads ==
  /\ phase = "built" /\ unknown # {}
  /\ unknown' = {}
  /\ UNCHANGED <<dslVars, broker, temp, registry, resets, gens>>

\* streamConsumer.Run: the metadata of the source topics, then the task list
KnownPartitions ==
  UNION {{t} \X (0 .. (broker[t] - 1)) : t \in (SourceTopics \cap DOMAIN broker) \ unknown}
StartInstance(up) ==
  /\ phase = "built" /\ Len(gens) < MaxInstances /\ SourceTopics # {}
  /\ gens' = Append(gens, Generate(StreamSources(tp), KnownPartitions, up))
  /\ UNCHANGED <<dslVars, broker, unknown, temp, registry, resets>>

\* the partitions the coordinator gives instance i when all that started joined
AssignedTo(i) ==
  RangeAssign(Len(gens), [t \in SourceTopics \cap DOMAIN broker |-> broker[t]], i)

-----------------------------------------------------------------------------
Init ==
  /\ DslInit
  /\ \E f \in Brokers : broker = [t \in (DOMAIN f) \X {0} |-> f[t[1]]]
  /\ unknown = {}
  /\ temp = <<>>
  /\ registry = {}
  /\ resets = 0
  /\ gens = <<>>

Next ==
  \/ Dsl /\ UNCHANGED setupVars
  \/ Build
  \/ Reset
  \/ MetadataSpreads
  \/ \E up \in BOOLEAN : StartInstance(up)

Spec == Init /\ [][Next]_vars

-----------------------------------------------------------------------------
(* Properties.                                                             *)

\* The DSL loses nothing: merging renumbers the nodes it moves, so that the
\* ids by which Build wires the nodes lead to the declared ends, and every
\* node that was made is in exactly one sub-topology that will be built
\* (kSubTopologyBuilder.MergeSubTopology, kTopologyBuilder.RemoveSubTopology).
\* The exception is a program that calls a handle left on a merged-away
\* sub-topology: its nodes are lost there, and if that sub-topology is merged
\* once more, edges lead from one sub-topology into another.
Wired(s) ==
  /\ ~Dangling(tp, s)
  /\ \A i \in DOMAIN DeclaredEdges(tp, s), j \in {1, 2} :
       tp.sub[s].nodes[BuiltEdges(tp, s)[i][j]] = DeclaredEdges(tp, s)[i][j]
InOneLive(n) == Cardinality({s \in tp.live : n \in Range(tp.sub[s].nodes)}) = 1
NothingLost ==
  stale \/ /\ \A s \in tp.live : Wired(s)
           /\ \A n \in DOMAIN tp.node : InOneLive(n)

\* No node asks its sub-topology for a store that is not there (KSubTopology.
\* Store panics when the task is initialised), whatever was merged before.
StoresPresent == \A s \in tp.live : MissingStores(tp, s) = {}

\* What was joined or merged is co-partitioned once Build has succeeded: the
\* topics of the two sources have equally many partitions at the broker,
\* unless a source was marked twice, in which case only the last mark is
\* checked, or a topic to be auto-created already existed with another count,
\* or a source reads a topic by the name of one that another source creates.
Marked(s) == {n \in SourcesOf(tp, s) : tp.node[n].marks # {}}
CheckedOnce(s) ==
  /\ \A n \in SourcesOf(tp, s) : Cardinality(tp.node[n].marks) <= 1
  /\ \A n, m \in SourcesOf(tp, s) : tp.node[n].topic = tp.node[m].topic => n = m
  /\ \A n \in SourcesOf(tp, s) :
       tp.node[n].auto => broker[tp.node[n].topic] = temp[tp.node[n].topic]
\* Set-up decides by the unformatted name whether a topic has still to be created
\* (ktopology_builder.go:178), so it never counts a source that it takes for one.
NamedApart(s) ==
  \A n \in SourcesOf(tp, s), p \in Places(tp) :
    ~tp.node[n].auto /\ NodeAt(tp, p).auto => tp.node[n].topic[1] # NodeAt(tp, p).topic[1]
CountsAsMarked(s) ==
  \A n \in Marked(s), m \in SourcesOf(tp, s) :
    m \in tp.node[n].marks => broker[tp.node[n].topic] = broker[tp.node[m].topic]
JoinedSourcesCoPartitioned ==
  phase = "built" /\ ~stale =>
    \A s \in tp.live : CheckedOnce(s) /\ NamedApart(s) => CountsAsMarked(s)

\* A formatted sink and the source that Repartition paired it with name the
\* same topic after set-up, also after a Reset has formatted both before,
\* and the topic exists when the tasks are made.
RepartitionTopicsMeet ==
  phase = "built" /\ ~stale =>
    \A s \in tp.live : \A n \in Range(tp.sub[s].nodes) :
      tp.node[n].kind = "sink" /\ tp.node[n].fmt =>
        tp.node[n].topic \in SourceTopics \cap DOMAIN broker

\* A record reaches each node of the built sub-topology as often as the
\* node's parents pass one on (a splitter to its first matching branch only),
\* and a failure ends the run at the failing node: what was visited is a
\* prefix of the run that does not fail (DefaultNode.Forward, Branch.Run).
Passes(T, s, o, n, m) ==
  IF n \in o.drop THEN 0
  ELSE CASE T.node[n].kind = "splitter" ->
              LET rivals == {i \in DOMAIN DeclaredEdges(T, s) :
                               DeclaredEdges(T, s)[i][1] = n /\ DeclaredEdges(T, s)[i][2] \in o.take}
              IN IF \E i \in rivals : DeclaredEdges(T, s)[i][2] = m /\ \A j \in rivals : i <= j
                 THEN 1 ELSE 0
         [] OTHER ->
              Cardinality({i \in DOMAIN DeclaredEdges(T, s) : DeclaredEdges(T, s)[i] = <<n, m>>})
                * (IF T.node[n].kind \in {"flatmap", "flatmap_values"} THEN o.copies ELSE 1)
Times(seq, x) == Cardinality({i \in DOMAIN seq : seq[i] = x})
FollowsPaths(s, p) ==
  \A o \in {x \in Outcomes(tp, s) : x.fail = 0} :
    LET seq == Run(tp, s, o)[p].visits
        nodes == Range(tp.sub[s].nodes)
        Handed(n, m) == Times(seq, n) * Passes(tp, s, o, n, m)
    IN /\ Run(tp, s, o)[p].ok
       /\ \A m \in nodes : tp.node[m].kind # "kSource" =>
            Times(seq, m) = FoldSet(LAMBDA n, sum: sum + Handed(n, m), 0, nodes)
       /\ \A f \in nodes :
            LET failed == Run(tp, s, [o EXCEPT !.fail = f])[p]
            IN /\ IsPrefix(failed.visits, seq)
               /\ failed.ok <=> f \notin Range(seq)
               /\ ~failed.ok => Last(failed.visits) = f /\ Times(failed.visits, f) = 1
RecordsFollowPaths ==
  phase = "built" /\ gens = <<>> =>
    \A s \in tp.live : \A p \in DOMAIN tp.sub[s].nodes :
      tp.node[tp.sub[s].nodes[p]].kind = "kSource" => FollowsPaths(s, p)

\* Instances that computed their tasks from the same metadata agree on the
\* transactional ids, no partition is in two tasks of a sub-topology, and the
\* range strategy gives each instance whole tasks, all of them to someone
\* (taskAssigner.Assign panics otherwise): provided the sources of each
\* sub-topology have equally many partitions, no topic feeds two of them and
\* names joined without a separator do not coincide.
Regular ==
  /\ \A s \in DOMAIN StreamSources(tp) : \A t, u \in StreamSources(tp)[s] : broker[t] = broker[u]
  /\ \A s, r \in DOMAIN StreamSources(tp) : s # r => StreamSources(tp)[s] \cap StreamSources(tp)[r] = {}
  /\ \A i \in DOMAIN gens : \A m, n \in DOMAIN gens[i] : m # n => HashOf(m) # HashOf(n)
AgreedTasks ==
  gens # <<>> /\ unknown = {} /\ Regular =>
    /\ \A i, j \in DOMAIN gens : DOMAIN gens[i] = DOMAIN gens[j] => gens[i] = gens[j]
    /\ \A i \in DOMAIN gens :
         DOMAIN gens[i] = TasksOf(StreamSources(tp), KnownPartitions) =>
           /\ ~InvalidAssignment(gens[i], AssignedTo(i))
           /\ \A t \in AssignedTo(i) : FindMappingByTP(gens[i], t) \subseteq Assign(gens[i], AssignedTo(i))
           /\ UNION {TPs(m) : m \in Assign(gens[i], AssignedTo(i))} = AssignedTo(i)
=============================================================================
