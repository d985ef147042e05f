----------------------------- MODULE SetupProofs -----------------------------
(***************************************************************************)
(* Proofs about what kTopologyBuilder.setup leaves, and so about Build and *)
(* Reset: the topics of a Repartition meet, and what was joined is         *)
(* co-partitioned.  set-up is four loops, one in the other or one after    *)
(* the other; each is an instance of Loops, with an invariant that its     *)
(* rounds keep.  T is the topology that is set up, S a state of its        *)
(* set-up.                                                                 *)
(***************************************************************************)
EXTENDS TopologyProofs

-----------------------------------------------------------------------------
(* The loops.                                                              *)

CountStart(c) == NoCounts(c[1])
CountRound(c, C, i) == CountNode(c[1].fetched, c[1].tp, C, c[2][i])
Counting == INSTANCE Loops WITH Start <- CountStart, Round <- CountRound

NodesStart(c) == c[1]
NodesRound(c, S, i) == SetupNode(S, c[2][i], c[3])
Naming == INSTANCE Loops WITH Start <- NodesStart, Round <- NodesRound

StoresStart(c) == c[1]
StoresRound(c, S, b) == IF b \in c[2] THEN SetupChangelog(S, b, c[3]) ELSE S
Logging == INSTANCE Loops WITH Start <- StoresStart, Round <- StoresRound

SubsStart(T) == StartOfSetup(T)
SubsRound(T, S, s) == IF s \in T.live THEN SetupSub(S, s) ELSE S
Settling == INSTANCE Loops WITH Start <- SubsStart, Round <- SubsRound

\* Each loop of the model is such a loop.
LEMMA CountedLoop ==
  ASSUME NEW S, NEW nodes, Len(nodes) \in Nat
  PROVE  \E f : /\ f[0] = NoCounts(S) /\ Counted(S, nodes) = f[Len(nodes)]
                /\ \A i \in 1 .. Len(nodes) : f[i] = CountNode(S.fetched, S.tp, f[i - 1], nodes[i])
<1>1. ASSUME NEW c, Len(c[2]) \in Nat
      PROVE  /\ Counting!After(c, Len(c[2]))[0] = NoCounts(c[1])
             /\ Counted(c[1], c[2]) = Counting!After(c, Len(c[2]))[Len(c[2])]
             /\ \A i \in 1 .. Len(c[2]) : Counting!After(c, Len(c[2]))[i] =
                  CountNode(c[1].fetched, c[1].tp, Counting!After(c, Len(c[2]))[i - 1], c[2][i])
  <2>1. Counted(c[1], c[2]) = Counting!After(c, Len(c[2]))[Len(c[2])]
    BY DEF Counted, Counting!After, CountStart, CountRound
  <2>2. /\ Counting!After(c, Len(c[2]))[0] = CountStart(c)
        /\ \A i \in 1 .. Len(c[2]) : Counting!After(c, Len(c[2]))[i] =
             CountRound(c, Counting!After(c, Len(c[2]))[i - 1], i)
    BY <1>1, Counting!Unfold
  <2> QED BY <2>1, <2>2 DEF CountStart, CountRound
<1>2. <<S, nodes>>[1] = S /\ <<S, nodes>>[2] = nodes
  OBVIOUS
<1> DEFINE d == <<S, nodes>>
<1>3. d[1] = S /\ d[2] = nodes
  BY <1>2
<1> HIDE DEF d
<1>4. /\ Counting!After(d, Len(nodes))[0] = NoCounts(S)
      /\ Counted(S, nodes) = Counting!After(d, Len(nodes))[Len(nodes)]
      /\ \A i \in 1 .. Len(nodes) : Counting!After(d, Len(nodes))[i] =
           CountNode(S.fetched, S.tp, Counting!After(d, Len(nodes))[i - 1], nodes[i])
  BY <1>1, <1>3
<1> QED BY <1>4

NamedBy(f, S, nodes, count) ==
  /\ f[0] = S /\ NodesSetUp(S, nodes, count) = f[Len(nodes)]
  /\ \A i \in 1 .. Len(nodes) : f[i] = SetupNode(f[i - 1], nodes[i], count)
LEMMA NamedLoop ==
  ASSUME NEW S, NEW nodes, Len(nodes) \in Nat, NEW count
  PROVE  \E f : NamedBy(f, S, nodes, count)
<1>1. ASSUME NEW c, Len(c[2]) \in Nat
      PROVE  /\ Naming!After(c, Len(c[2]))[0] = c[1]
             /\ NodesSetUp(c[1], c[2], c[3]) = Naming!After(c, Len(c[2]))[Len(c[2])]
             /\ \A i \in 1 .. Len(c[2]) : Naming!After(c, Len(c[2]))[i] =
                  SetupNode(Naming!After(c, Len(c[2]))[i - 1], c[2][i], c[3])
  <2>1. NodesSetUp(c[1], c[2], c[3]) = Naming!After(c, Len(c[2]))[Len(c[2])]
    BY DEF NodesSetUp, Naming!After, NodesStart, NodesRound
  <2>2. /\ Naming!After(c, Len(c[2]))[0] = NodesStart(c)
        /\ \A i \in 1 .. Len(c[2]) : Naming!After(c, Len(c[2]))[i] =
             NodesRound(c, Naming!After(c, Len(c[2]))[i - 1], i)
    BY <1>1, Naming!Unfold
  <2> QED BY <2>1, <2>2 DEF NodesStart, NodesRound
<1> DEFINE d == <<S, nodes, count>>
<1>2. d[1] = S /\ d[2] = nodes /\ d[3] = count
  OBVIOUS
<1> HIDE DEF d
<1>3. NamedBy(Naming!After(d, Len(nodes)), S, nodes, count)
  BY <1>1, <1>2 DEF NamedBy
<1> QED BY <1>3

LoggedBy(f, S, stores, count) ==
  /\ f[0] = S /\ ChangelogsSetUp(S, stores, count) = f[Len(S.tp.store)]
  /\ \A b \in 1 .. Len(S.tp.store) :
       f[b] = IF b \in stores THEN SetupChangelog(f[b - 1], b, count) ELSE f[b - 1]
LEMMA LoggedLoop ==
  ASSUME NEW S, NEW stores, Len(S.tp.store) \in Nat, NEW count
  PROVE  \E f : LoggedBy(f, S, stores, count)
<1>1. ASSUME NEW c, Len(c[1].tp.store) \in Nat
      PROVE  /\ Logging!After(c, Len(c[1].tp.store))[0] = c[1]
             /\ ChangelogsSetUp(c[1], c[2], c[3])
                  = Logging!After(c, Len(c[1].tp.store))[Len(c[1].tp.store)]
             /\ \A b \in 1 .. Len(c[1].tp.store) : Logging!After(c, Len(c[1].tp.store))[b] =
                  IF b \in c[2] THEN SetupChangelog(Logging!After(c, Len(c[1].tp.store))[b - 1], b, c[3])
                  ELSE Logging!After(c, Len(c[1].tp.store))[b - 1]
  <2>1. ChangelogsSetUp(c[1], c[2], c[3]) = Logging!After(c, Len(c[1].tp.store))[Len(c[1].tp.store)]
    BY DEF ChangelogsSetUp, Logging!After, StoresStart, StoresRound
  <2>2. /\ Logging!After(c, Len(c[1].tp.store))[0] = StoresStart(c)
        /\ \A b \in 1 .. Len(c[1].tp.store) : Logging!After(c, Len(c[1].tp.store))[b] =
             StoresRound(c, Logging!After(c, Len(c[1].tp.store))[b - 1], b)
    BY <1>1, Logging!Unfold
  <2> QED BY <2>1, <2>2 DEF StoresStart, StoresRound
<1> DEFINE d == <<S, stores, count>>
<1>2. d[1] = S /\ d[2] = stores /\ d[3] = count
  OBVIOUS
<1> HIDE DEF d
<1> DEFINE f == Logging!After(d, Len(S.tp.store))
<1>3. LoggedBy(f, S, stores, count)
  BY <1>1, <1>2 DEF LoggedBy
<1> HIDE DEF f
<1> QED BY <1>3

SettledBy(f, T) ==
  /\ f[0] = StartOfSetup(T) /\ Setup(T) = f[Len(T.sub)]
  /\ \A s \in 1 .. Len(T.sub) :
       f[s] = IF s \in T.live THEN SetupSub(f[s - 1], s) ELSE f[s - 1]
LEMMA SettledLoop ==
  ASSUME NEW T, Len(T.sub) \in Nat, FetchedTopics(T) \subseteq DOMAIN broker
  PROVE  \E f : SettledBy(f, T)
<1>1. StartOfSetup(T).fetched = FetchedTopics(T)
  BY DEF StartOfSetup
<1>2. Setup(T) = Settling!After(T, Len(T.sub))[Len(T.sub)]
  BY <1>1 DEF Setup, Settling!After, SubsStart, SubsRound
<1>3. /\ Settling!After(T, Len(T.sub))[0] = SubsStart(T)
      /\ \A s \in 1 .. Len(T.sub) : Settling!After(T, Len(T.sub))[s] =
           SubsRound(T, Settling!After(T, Len(T.sub))[s - 1], s)
  BY Settling!Unfold
<1>4. SettledBy(Settling!After(T, Len(T.sub)), T)
  BY <1>2, <1>3 DEF SettledBy, SubsStart, SubsRound
<1> QED BY <1>4

-----------------------------------------------------------------------------
(* States of a set-up.                                                     *)

SetupFields == {"tp", "temp", "registry", "fetched", "out", "meta"}
Outs == {"ok", "error", "panic"}

\* only topics, counts and changelogs differ from the topology's; what is known
\* of the topics that exist stays known
SetupOf(T, S) ==
  /\ DOMAIN S = SetupFields
  /\ DOMAIN S.tp = TopologyFields
  /\ S.tp.sub = T.sub /\ S.tp.live = T.live
  /\ DOMAIN S.tp.node = DOMAIN T.node
  /\ \A n \in DOMAIN T.node : DOMAIN S.tp.node[n] = NodeFields /\ SameNode(T.node[n], S.tp.node[n])
  /\ S.tp.store \in Seq(Range(S.tp.store)) /\ DOMAIN S.tp.store = DOMAIN T.store
  /\ S.fetched = FetchedTopics(T)
  /\ \A t \in S.fetched : t \in DOMAIN S.meta /\ S.meta[t] = broker[t]
BrokerOk == \A t \in DOMAIN broker : broker[t] \in Nat \ {0}

\* a set-up that goes on marks more topics, and none anew
Marks(S, U) == \A t \in DOMAIN S.temp : t \in DOMAIN U.temp /\ U.temp[t] = S.temp[t]

\* what the Setup of a source or a sink leaves of it
SetName(nd) == IF nd.fmt THEN Formatted(nd.topic) ELSE nd.topic
SourceMade(S, x, y) ==
  /\ y.topic = SetName(x)
  /\ y.topic \in DOMAIN S.temp /\ S.temp[y.topic] = y.count
SourceFound(S, x, y) == y.topic = x.topic /\ (x.topic \in S.fetched => y.count = broker[x.topic])
NodeDone(T, S, n) ==
  LET x == T.node[n]
      y == S.tp.node[n]
  IN /\ x.kind = "kSource" /\ x.auto => SourceMade(S, x, y)
     /\ x.kind = "kSource" /\ ~x.auto => SourceFound(S, x, y)
     /\ x.kind = "sink" => y.topic = SetName(x)

\* It stays so while the node is left alone.
LEMMA DoneStays ==
  ASSUME NEW T, NEW S, NEW U, Marks(S, U), U.fetched = S.fetched,
         NEW n, U.tp.node[n] = S.tp.node[n], NodeDone(T, S, n)
  PROVE  NodeDone(T, U, n)
BY DEF NodeDone, SourceMade, SourceFound, Marks

LEMMA MarksTransitive ==
  ASSUME NEW S, NEW U, NEW V, Marks(S, U), Marks(U, V)
  PROVE  Marks(S, V)
BY DEF Marks

\* Marking a topic for creation: a second mark is an error.
LEMMA StoreConfigsFacts ==
  ASSUME NEW S, DOMAIN S = SetupFields, S.out = "ok", NEW topic, NEW c,
         NEW U, U = StoreConfigs(S, topic, c)
  PROVE  /\ U.out \in Outs
         /\ U.out = "ok" => /\ DOMAIN U = SetupFields /\ U.tp = S.tp /\ U.fetched = S.fetched
                            /\ U.meta = S.meta /\ U.registry = S.registry
                            /\ Marks(S, U) /\ topic \in DOMAIN U.temp /\ U.temp[topic] = c
<1>1. CASE topic \in DOMAIN S.temp
  <2>1. U.out = "error"
    BY <1>1 DEF StoreConfigs, Ends, SetupFields
  <2> QED BY <2>1 DEF Outs
<1>2. CASE topic \notin DOMAIN S.temp
  <2>1. U = [S EXCEPT !.temp = Put(S.temp, topic, c)]
    BY <1>2 DEF StoreConfigs
  <2>2. /\ DOMAIN U = SetupFields /\ U.tp = S.tp /\ U.fetched = S.fetched
        /\ U.meta = S.meta /\ U.registry = S.registry /\ U.out = S.out
        /\ U.temp = Put(S.temp, topic, c)
    BY <2>1 DEF SetupFields
  <2>3. Marks(S, U) /\ topic \in DOMAIN U.temp /\ U.temp[topic] = c
    BY <1>2, <2>2 DEF Marks, Put
  <2> QED BY <2>2, <2>3 DEF Outs
<1> QED BY <1>1, <1>2

\* A set-up that ends.
LEMMA Ended ==
  ASSUME NEW S, DOMAIN S = SetupFields, NEW how \in Outs, NEW U, U = Ends(S, how)
  PROVE  U.out = how
BY DEF Ends, SetupFields

\* A node gets another topic and count.
WithNode(S, n, e) == [S EXCEPT !.tp.node[n] = e]
LEMMA NodeChanged ==
  ASSUME NEW T, NEW S, SetupOf(T, S), NEW n \in DOMAIN T.node, NEW e, DOMAIN e = NodeFields,
         SameNode(T.node[n], e), NEW U, U = WithNode(S, n, e)
  PROVE  /\ SetupOf(T, U) /\ U.tp.node[n] = e
         /\ \A m \in DOMAIN T.node \ {n} : U.tp.node[m] = S.tp.node[m]
         /\ U.temp = S.temp /\ U.fetched = S.fetched /\ U.meta = S.meta
         /\ U.registry = S.registry /\ U.out = S.out /\ U.tp.store = S.tp.store
<1> DEFINE nodes == [S.tp.node EXCEPT ![n] = e]
           V == [S.tp EXCEPT !.node = nodes]
<1>1. U = [S EXCEPT !.tp = V]
  BY DEF WithNode
<1>2. /\ DOMAIN nodes = DOMAIN T.node /\ nodes[n] = e
      /\ \A m \in DOMAIN T.node \ {n} : nodes[m] = S.tp.node[m]
  BY DEF SetupOf
<1> HIDE DEF nodes
<1>3. /\ DOMAIN V = TopologyFields /\ V.node = nodes /\ V.sub = S.tp.sub
      /\ V.live = S.tp.live /\ V.store = S.tp.store
  BY DEF SetupOf, TopologyFields
<1> HIDE DEF V
<1>4. /\ DOMAIN U = SetupFields /\ U.tp = V /\ U.temp = S.temp /\ U.fetched = S.fetched
      /\ U.meta = S.meta /\ U.registry = S.registry /\ U.out = S.out
  BY <1>1 DEF SetupOf, SetupFields
<1>5. SetupOf(T, U)
  BY <1>2, <1>3, <1>4 DEF SetupOf
<1> QED BY <1>2, <1>3, <1>4, <1>5

-----------------------------------------------------------------------------
(* The loop over the nodes.                                                *)

\* what a round leaves of the state before it
NodeRound(T, S, n, U) ==
  /\ SetupOf(T, U) /\ NodeDone(T, U, n) /\ Marks(S, U)
  /\ U.fetched = S.fetched /\ U.tp.store = S.tp.store
  /\ \A m \in DOMAIN T.node \ {n} : U.tp.node[m] = S.tp.node[m]

\* A source that is created: its name is formatted if it is to be, and marked
\* for creation with the count of the sub-topology.
LEMMA SourceIsMade ==
  ASSUME NEW T, NEW S, SetupOf(T, S), S.out = "ok", NEW n \in DOMAIN T.node,
         T.node[n].kind = "kSource", T.node[n].auto,
         S.tp.node[n].topic = T.node[n].topic,
         NEW c \in Nat, T.node[n].as # 0 => c # 0,
         NEW U, U = SetupSource(S, n, c)
  PROVE  U.out \in Outs /\ (U.out = "ok" => NodeRound(T, S, n, U))
<1> DEFINE x == S.tp.node[n]
           name == SetName(x)
           e == [[x EXCEPT !.topic = name] EXCEPT !.count = c]
           V == [S EXCEPT !.tp.node[n] = e]
<1>1. DOMAIN x = NodeFields /\ SameNode(T.node[n], x)
  BY DEF SetupOf
<1>2. U = StoreConfigs(V, name, c)
  <2>1. x.auto /\ ~(c < 1 /\ x.as # 0)
    BY <1>1 DEF SameNode
  <2>2. V = [S EXCEPT !.tp.node[n].topic = name, !.tp.node[n].count = c]
    OBVIOUS
  <2> QED BY <2>1, <2>2 DEF SetupSource, SetName
<1>3. /\ DOMAIN e = NodeFields /\ SameNode(T.node[n], e) /\ e.topic = name /\ e.count = c
      /\ name = SetName(T.node[n])
  <2> HIDE DEF name
  <2>1. DOMAIN e = NodeFields /\ SameNode(T.node[n], e) /\ e.topic = name /\ e.count = c
    BY <1>1 DEF NodeFields, SameNode
  <2>2. name = SetName(T.node[n])
    BY <1>1 DEF name, SetName, SameNode
  <2> QED BY <2>1, <2>2
<1>7. V = WithNode(S, n, e)
  BY DEF WithNode
<1> HIDE DEF V, e, x, name
<1>4. /\ SetupOf(T, V) /\ V.tp.node[n] = e
      /\ \A m \in DOMAIN T.node \ {n} : V.tp.node[m] = S.tp.node[m]
      /\ V.temp = S.temp /\ V.fetched = S.fetched /\ V.meta = S.meta
      /\ V.out = S.out /\ V.tp.store = S.tp.store
  BY <1>3, <1>7, NodeChanged
<1>5. /\ U.out \in Outs
      /\ U.out = "ok" => /\ DOMAIN U = SetupFields /\ U.tp = V.tp /\ U.fetched = V.fetched
                         /\ U.meta = V.meta
                         /\ Marks(V, U) /\ name \in DOMAIN U.temp /\ U.temp[name] = c
  BY <1>2, <1>4, StoreConfigsFacts DEF SetupOf
<1>6. ASSUME U.out = "ok"
      PROVE  NodeRound(T, S, n, U)
  <2>1. SetupOf(T, U)
    BY <1>4, <1>5, <1>6 DEF SetupOf
  <2>2. NodeDone(T, U, n)
    BY <1>3, <1>4, <1>5, <1>6 DEF NodeDone, SourceMade
  <2>3. Marks(S, U)
    BY <1>4, <1>5, <1>6 DEF Marks
  <2> QED BY <1>4, <1>5, <1>6, <2>1, <2>2, <2>3 DEF NodeRound
<1> QED BY <1>5, <1>6

\* A source whose topic exists takes the count that was fetched for it.
LEMMA SourceIsFound ==
  ASSUME NEW T, NEW S, SetupOf(T, S), S.out = "ok", NEW n \in DOMAIN T.node,
         T.node[n].kind = "kSource", ~T.node[n].auto,
         S.tp.node[n].topic = T.node[n].topic,
         NEW c, NEW U, U = SetupSource(S, n, c)
  PROVE  U.out \in Outs /\ (U.out = "ok" => NodeRound(T, S, n, U))
<1> DEFINE x == S.tp.node[n]
           e == [x EXCEPT !.count = S.meta[x.topic]]
<1>1. DOMAIN x = NodeFields /\ SameNode(T.node[n], x)
  BY DEF SetupOf
<1>2. U = WithNode(S, n, e)
  BY <1>1 DEF SetupSource, SameNode, WithNode
<1>3. /\ DOMAIN e = NodeFields /\ SameNode(T.node[n], e)
      /\ e.topic = T.node[n].topic /\ e.count = S.meta[T.node[n].topic]
  BY <1>1 DEF NodeFields, SameNode
<1> HIDE DEF e, x
<1>4. /\ SetupOf(T, U) /\ U.tp.node[n] = e
      /\ \A m \in DOMAIN T.node \ {n} : U.tp.node[m] = S.tp.node[m]
      /\ U.temp = S.temp /\ U.fetched = S.fetched
      /\ U.out = S.out /\ U.tp.store = S.tp.store
  BY <1>2, <1>3, NodeChanged
<1>5. NodeDone(T, U, n) /\ Marks(S, U)
  BY <1>3, <1>4 DEF NodeDone, SourceFound, SetupOf, Marks
<1> QED BY <1>4, <1>5 DEF NodeRound, Outs

\* One node, of any kind.
LEMMA NodeKeeps ==
  ASSUME NEW T, NEW S, SetupOf(T, S), S.out = "ok", NEW n \in DOMAIN T.node,
         T.node[n].kind \in TopicKinds => S.tp.node[n].topic = T.node[n].topic,
         NEW c \in Nat, T.node[n].kind = "kSource" /\ T.node[n].as # 0 => c # 0,
         NEW U, U = SetupNode(S, n, c)
  PROVE  U.out \in Outs /\ (U.out = "ok" => NodeRound(T, S, n, U))
<1>1. S.tp.node[n].kind = T.node[n].kind /\ S.tp.node[n].fmt = T.node[n].fmt
      /\ DOMAIN S.tp.node[n] = NodeFields /\ SameNode(T.node[n], S.tp.node[n])
  BY DEF SetupOf, SameNode
<1>2. CASE T.node[n].kind = "kSource"
  <2>1. U = SetupSource(S, n, c) /\ S.tp.node[n].topic = T.node[n].topic
    BY <1>1, <1>2 DEF SetupNode, TopicKinds
  <2>2. CASE T.node[n].auto
    BY <1>2, <2>1, <2>2, SourceIsMade
  <2>3. CASE ~T.node[n].auto
    BY <1>2, <2>1, <2>3, SourceIsFound
  <2> QED BY <2>2, <2>3
<1>3. CASE T.node[n].kind = "sink"
  <2>1. U = SetupSink(S, n) /\ S.tp.node[n].topic = T.node[n].topic
    BY <1>1, <1>3 DEF SetupNode, TopicKinds
  <2>2. CASE T.node[n].fmt
    <3> DEFINE x == S.tp.node[n]
               name == Formatted(x.topic)
               e == [x EXCEPT !.topic = name]
    <3>1. U = WithNode(S, n, e)
      BY <1>1, <2>1, <2>2 DEF SetupSink, WithNode
    <3>2. name = SetName(T.node[n])
      BY <2>1, <2>2 DEF SetName
    <3>6. DOMAIN x = NodeFields /\ SameNode(T.node[n], x)
      BY <1>1
    <3> HIDE DEF name, x
    <3>3. DOMAIN e = NodeFields /\ SameNode(T.node[n], e) /\ e.topic = name
      BY <3>6 DEF NodeFields, SameNode
    <3> HIDE DEF e
    <3>4. /\ SetupOf(T, U) /\ U.tp.node[n] = e
          /\ \A m \in DOMAIN T.node \ {n} : U.tp.node[m] = S.tp.node[m]
          /\ U.temp = S.temp /\ U.fetched = S.fetched
          /\ U.out = S.out /\ U.tp.store = S.tp.store
      BY <3>1, <3>3, NodeChanged
    <3>5. NodeDone(T, U, n) /\ Marks(S, U)
      BY <1>3, <3>2, <3>3, <3>4 DEF NodeDone, Marks
    <3> QED BY <3>4, <3>5 DEF NodeRound, Outs
  <2>3. CASE ~T.node[n].fmt
    <3>1. U = S
      BY <1>1, <2>1, <2>3 DEF SetupSink
    <3> QED BY <1>3, <2>1, <2>3, <3>1 DEF NodeRound, NodeDone, SetName, Marks, Outs
  <2> QED BY <2>2, <2>3
<1>4. CASE T.node[n].kind \notin TopicKinds
  <2>1. U = S
    BY <1>1, <1>4 DEF SetupNode, TopicKinds
  <2> QED BY <1>4, <2>1 DEF NodeRound, NodeDone, Marks, Outs, TopicKinds
<1> QED BY <1>2, <1>3, <1>4 DEF TopicKinds

\* i nodes of the list are done, the others are as the loop found them
NodesLoop(T, S, nodes, i, U) ==
  /\ U.out \in Outs
  /\ U.out = "ok" =>
       /\ SetupOf(T, U) /\ Marks(S, U) /\ U.tp.store = S.tp.store
       /\ \A j \in 1 .. i : NodeDone(T, U, nodes[j])
       /\ \A n \in DOMAIN T.node : (\A j \in 1 .. i : nodes[j] # n) => U.tp.node[n] = S.tp.node[n]
\* what the loop needs of the list: a source or a sink is in it once
Listing(T, nodes) ==
  /\ Len(nodes) \in Nat
  /\ \A i \in 1 .. Len(nodes) : nodes[i] \in DOMAIN T.node
  /\ \A i, j \in 1 .. Len(nodes) :
       T.node[nodes[i]].kind \in TopicKinds /\ nodes[i] = nodes[j] => i = j

\* A round of the loop.
LEMMA NodesRoundKeeps ==
  ASSUME NEW T, NEW S, NEW nodes, Listing(T, nodes),
         \A i \in 1 .. Len(nodes) : T.node[nodes[i]].kind \in TopicKinds =>
           S.tp.node[nodes[i]].topic = T.node[nodes[i]].topic,
         NEW c \in Nat,
         \A i \in 1 .. Len(nodes) :
           T.node[nodes[i]].kind = "kSource" /\ T.node[nodes[i]].as # 0 => c # 0,
         NEW i \in 1 .. Len(nodes), NEW V, NodesLoop(T, S, nodes, i - 1, V),
         NEW U, U = SetupNode(V, nodes[i], c)
  PROVE  NodesLoop(T, S, nodes, i, U)
<1> DEFINE n == nodes[i]
<1>1. CASE V.out # "ok"
  <2>1. U = V
    BY <1>1 DEF SetupNode
  <2> QED BY <1>1, <2>1 DEF NodesLoop
<1>2. CASE V.out = "ok"
  <2>1. /\ SetupOf(T, V) /\ Marks(S, V) /\ V.tp.store = S.tp.store
        /\ \A j \in 1 .. (i - 1) : NodeDone(T, V, nodes[j])
        /\ \A m \in DOMAIN T.node : (\A j \in 1 .. (i - 1) : nodes[j] # m) =>
                                      V.tp.node[m] = S.tp.node[m]
    BY <1>2 DEF NodesLoop
  <2>2. n \in DOMAIN T.node
    BY DEF Listing
  <2>3. T.node[n].kind \in TopicKinds => \A j \in 1 .. (i - 1) : nodes[j] # n
    BY DEF Listing
  <2>4. T.node[n].kind \in TopicKinds => V.tp.node[n].topic = T.node[n].topic
    BY <2>1, <2>2, <2>3
  <2>5. T.node[n].kind = "kSource" /\ T.node[n].as # 0 => c # 0
    OBVIOUS
  <2>11. U = SetupNode(V, n, c)
    OBVIOUS
  <2> HIDE DEF n
  <2>6. U.out \in Outs /\ (U.out = "ok" => NodeRound(T, V, n, U))
    BY ONLY <1>2, <2>1, <2>2, <2>4, <2>5, <2>11, c \in Nat, NodeKeeps
  <2>7. ASSUME U.out = "ok"
        PROVE  /\ SetupOf(T, U) /\ Marks(S, U) /\ U.tp.store = S.tp.store
               /\ \A j \in 1 .. i : NodeDone(T, U, nodes[j])
               /\ \A m \in DOMAIN T.node : (\A j \in 1 .. i : nodes[j] # m) => U.tp.node[m] = S.tp.node[m]
    <3>1. /\ SetupOf(T, U) /\ NodeDone(T, U, n) /\ Marks(V, U)
          /\ U.fetched = V.fetched /\ U.tp.store = V.tp.store
          /\ \A m \in DOMAIN T.node \ {n} : U.tp.node[m] = V.tp.node[m]
      BY <2>6, <2>7 DEF NodeRound
    <3>2. Marks(S, U)
      BY <2>1, <3>1, MarksTransitive
    <3>3. ASSUME NEW j \in 1 .. i
          PROVE  NodeDone(T, U, nodes[j])
      <4>1. CASE nodes[j] = n
        BY <3>1, <4>1
      <4>2. CASE nodes[j] # n
        <5>1. j \in 1 .. (i - 1) /\ nodes[j] \in DOMAIN T.node \ {n}
          BY <4>2 DEF Listing, n
        <5>2. NodeDone(T, V, nodes[j]) /\ U.tp.node[nodes[j]] = V.tp.node[nodes[j]]
          BY <2>1, <3>1, <5>1
        <5> QED BY <3>1, <5>2, DoneStays
      <4> QED BY <4>1, <4>2
    <3>4. ASSUME NEW m \in DOMAIN T.node, \A j \in 1 .. i : nodes[j] # m
          PROVE  U.tp.node[m] = S.tp.node[m]
      <4>1. m # n /\ \A j \in 1 .. (i - 1) : nodes[j] # m
        BY <3>4 DEF n
      <4> QED BY <2>1, <3>1, <4>1
    <3> QED BY <2>1, <3>1, <3>2, <3>3, <3>4
  <2> QED BY <2>6, <2>7 DEF NodesLoop
<1> QED BY <1>1, <1>2

\* The whole loop.
LEMMA NodesKeep ==
  ASSUME NEW T, NEW S, SetupOf(T, S), S.out = "ok", NEW nodes, Listing(T, nodes),
         \A i \in 1 .. Len(nodes) : T.node[nodes[i]].kind \in TopicKinds =>
           S.tp.node[nodes[i]].topic = T.node[nodes[i]].topic,
         NEW c \in Nat,
         \A i \in 1 .. Len(nodes) :
           T.node[nodes[i]].kind = "kSource" /\ T.node[nodes[i]].as # 0 => c # 0,
         NEW U, U = NodesSetUp(S, nodes, c)
  PROVE  NodesLoop(T, S, nodes, Len(nodes), U)
<1>1. Len(nodes) \in Nat
  BY DEF Listing
<1>6. PICK f : NamedBy(f, S, nodes, c)
  BY <1>1, NamedLoop
<1>2. /\ f[0] = S /\ U = f[Len(nodes)]
      /\ \A i \in 1 .. Len(nodes) : f[i] = SetupNode(f[i - 1], nodes[i], c)
  BY <1>6 DEF NamedBy
<1> DEFINE I == {i \in 0 .. Len(nodes) : NodesLoop(T, S, nodes, i, f[i])}
<1>3. 0 \in I
  BY <1>1, <1>2 DEF NodesLoop, Outs, Marks
<1>4. ASSUME NEW i \in 1 .. Len(nodes), i - 1 \in I
      PROVE  i \in I
  <2>1. NodesLoop(T, S, nodes, i - 1, f[i - 1]) /\ f[i] = SetupNode(f[i - 1], nodes[i], c)
    BY <1>2, <1>4
  <2>2. NodesLoop(T, S, nodes, i, f[i])
    BY <2>1, NodesRoundKeeps
  <2> QED BY <1>1, <2>2
<1> HIDE DEF I
<1>5. \A i \in 0 .. Len(nodes) : i \in I
  BY <1>1, <1>3, <1>4, Naming!InductionUpTo
<1> QED BY <1>1, <1>2, <1>5 DEF I

-----------------------------------------------------------------------------
(* The loop that counts partitions.                                        *)

CountFields == {"max", "auto", "meta", "panic"}
AtLeastOne(C) == C.max >= 1 \/ C.auto >= 1
CountsLoop(S, nodes, i, C) ==
  /\ DOMAIN C = CountFields
  /\ C.max \in Nat /\ C.auto \in Nat
  /\ \A t \in S.fetched : t \in DOMAIN C.meta /\ C.meta[t] = S.meta[t]
  /\ ~C.panic => \A j \in 1 .. i :
       S.tp.node[nodes[j]].kind = "kSource" /\ S.tp.node[nodes[j]].as # 0 => AtLeastOne(C)

LEMMA MaxFacts ==
  ASSUME NEW a \in Nat, NEW b \in Nat \ {0}
  PROVE  Max2(a, b) \in Nat /\ Max2(a, b) >= 1 /\ Max2(a, b) >= a
BY DEF Max2

\* A round: a count only grows, and a source that is created as another one is
\* counted with it.
LEMMA CountKeeps ==
  ASSUME NEW S, S.fetched \subseteq DOMAIN broker, BrokerOk, NEW nodes, NEW i \in Nat \ {0},
         NEW C, CountsLoop(S, nodes, i - 1, C), NEW D, D = CountNode(S.fetched, S.tp, C, nodes[i])
  PROVE  CountsLoop(S, nodes, i, D)
<1> DEFINE nd == S.tp.node[nodes[i]]
           as == S.tp.node[nd.as].topic
<1>0. \A t \in S.fetched : broker[t] \in Nat \ {0}
  BY DEF BrokerOk
<1>1. CASE C.panic \/ nd.kind # "kSource"
  <2>1. D = C
    BY <1>1 DEF CountNode
  <2>2. \A j \in 1 .. i : j \in 1 .. (i - 1) \/ j = i
    OBVIOUS
  <2> QED BY <1>1, <2>1, <2>2 DEF CountsLoop
<1>2. CASE ~C.panic /\ nd.kind = "kSource" /\ nd.topic \in S.fetched
  <2> DEFINE m == Max2(C.max, broker[nd.topic])
  <2>1. D = [C EXCEPT !.max = m]
    BY <1>2 DEF CountNode
  <2>2. m \in Nat /\ m >= 1
    BY <1>0, <1>2, MaxFacts DEF CountsLoop
  <2> HIDE DEF m
  <2>3. DOMAIN D = CountFields /\ D.max = m /\ D.auto = C.auto /\ D.meta = C.meta
    BY <2>1 DEF CountsLoop, CountFields
  <2> QED BY <2>2, <2>3 DEF CountsLoop, AtLeastOne
<1>3. CASE ~C.panic /\ nd.kind = "kSource" /\ nd.topic \notin S.fetched /\ nd.as = 0
  <2>1. D = C
    BY <1>3 DEF CountNode
  <2>2. \A j \in 1 .. i : j \in 1 .. (i - 1) \/ j = i
    OBVIOUS
  <2> QED BY <1>3, <2>1, <2>2 DEF CountsLoop
<1>4. CASE ~C.panic /\ nd.kind = "kSource" /\ nd.topic \notin S.fetched /\ nd.as # 0 /\ as \notin S.fetched
  <2>1. D = [C EXCEPT !.panic = TRUE]
    BY <1>4 DEF CountNode
  <2>2. DOMAIN D = CountFields /\ D.max = C.max /\ D.auto = C.auto /\ D.meta = C.meta /\ D.panic
    BY <2>1 DEF CountsLoop, CountFields
  <2> QED BY <2>2 DEF CountsLoop
<1>5. CASE ~C.panic /\ nd.kind = "kSource" /\ nd.topic \notin S.fetched /\ nd.as # 0 /\ as \in S.fetched
  <2> DEFINE m == Max2(C.auto, broker[as])
             p == Put(C.meta, nd.topic, m)
  <2>1. D = [[C EXCEPT !.auto = m] EXCEPT !.meta = p]
    BY <1>5 DEF CountNode
  <2>2. m \in Nat /\ m >= 1
    BY <1>0, <1>5, MaxFacts DEF CountsLoop
  <2>3. \A t \in S.fetched : t \in DOMAIN p /\ p[t] = S.meta[t]
    BY <1>5 DEF CountsLoop, Put
  <2> HIDE DEF m, p
  <2>4. DOMAIN D = CountFields /\ D.max = C.max /\ D.auto = m /\ D.meta = p
    BY <2>1 DEF CountsLoop, CountFields
  <2> QED BY <2>2, <2>3, <2>4 DEF CountsLoop, AtLeastOne
<1> QED BY <1>1, <1>2, <1>3, <1>4, <1>5

LEMMA CountsKeep ==
  ASSUME NEW S, S.fetched \subseteq DOMAIN broker, BrokerOk, S.fetched \subseteq DOMAIN S.meta,
         NEW nodes, Len(nodes) \in Nat
  PROVE  CountsLoop(S, nodes, Len(nodes), Counted(S, nodes))
<1>1. PICK f : /\ f[0] = NoCounts(S) /\ Counted(S, nodes) = f[Len(nodes)]
               /\ \A i \in 1 .. Len(nodes) : f[i] = CountNode(S.fetched, S.tp, f[i - 1], nodes[i])
  BY CountedLoop
<1> DEFINE I == {i \in 0 .. Len(nodes) : CountsLoop(S, nodes, i, f[i])}
<1>2. 0 \in I
  BY <1>1 DEF CountsLoop, NoCounts, CountFields
<1>3. ASSUME NEW i \in 1 .. Len(nodes), i - 1 \in I
      PROVE  i \in I
  <2>1. CountsLoop(S, nodes, i - 1, f[i - 1]) /\ i \in Nat \ {0}
        /\ f[i] = CountNode(S.fetched, S.tp, f[i - 1], nodes[i])
    BY <1>1, <1>3
  <2>2. CountsLoop(S, nodes, i, f[i])
    BY <2>1, CountKeeps
  <2> QED BY <2>2
<1> HIDE DEF I
<1>4. \A i \in 0 .. Len(nodes) : i \in I
  BY <1>2, <1>3, Counting!InductionUpTo
<1> QED BY <1>1, <1>4 DEF I

-----------------------------------------------------------------------------
(* The loop over the changelogs.                                           *)

ChangelogsLoop(T, S, U) ==
  /\ U.out \in Outs
  /\ U.out = "ok" =>
       SetupOf(T, U) /\ Marks(S, U) /\ U.tp.node = S.tp.node

\* A store builder gets a changelog of its own.
WithChangelog(S, b, e) == [S EXCEPT !.tp.store[b] = e]
LEMMA ChangelogNamed ==
  ASSUME NEW T, NEW S, SetupOf(T, S), NEW b \in DOMAIN S.tp.store, NEW e,
         NEW U, U = WithChangelog(S, b, e)
  PROVE  SetupOf(T, U) /\ U.tp.node = S.tp.node /\ U.temp = S.temp /\ U.out = S.out
<1> DEFINE stores == [S.tp.store EXCEPT ![b] = e]
           V == [S.tp EXCEPT !.store = stores]
           A == Range(S.tp.store) \cup {e}
<1>1. U = [S EXCEPT !.tp = V]
  BY DEF WithChangelog
<1>2. S.tp.store \in Seq(A) /\ e \in A /\ stores = [S.tp.store EXCEPT ![b] = e]
  BY DEF SetupOf
<1> HIDE DEF A, stores
<1>3. stores \in Seq(A) /\ DOMAIN stores = DOMAIN S.tp.store
  BY <1>2, ReplaceIn
<1>4. stores \in Seq(Range(stores))
  BY <1>3, SeqFacts
<1>5. /\ DOMAIN V = TopologyFields /\ V.node = S.tp.node /\ V.sub = S.tp.sub
      /\ V.live = S.tp.live /\ V.store = stores
  BY DEF SetupOf, TopologyFields
<1> HIDE DEF V
<1>6. /\ DOMAIN U = SetupFields /\ U.tp = V /\ U.temp = S.temp /\ U.fetched = S.fetched
      /\ U.meta = S.meta /\ U.out = S.out
  BY <1>1 DEF SetupOf, SetupFields
<1> QED BY <1>3, <1>4, <1>5, <1>6 DEF SetupOf

\* One changelog.
LEMMA ChangelogKeeps ==
  ASSUME NEW T, NEW S, SetupOf(T, S), NEW b \in DOMAIN S.tp.store, NEW c, S.out = "ok",
         NEW U, U = SetupChangelog(S, b, c)
  PROVE  ChangelogsLoop(T, S, U)
<1> DEFINE st == S.tp.store[b]
           topic == <<st.name, ChangelogTag>>
           e == [[st EXCEPT !.changelog = topic] EXCEPT !.internal = TRUE]
           V == WithChangelog(S, b, e)
           N == IF st.changelog # NoTopic THEN S ELSE StoreConfigs(V, topic, c)
           r == N.registry \cup {st.name}
<1>1. U = IF N.out # "ok" THEN N
          ELSE IF st.name \in S.registry THEN Ends(N, "error") ELSE [N EXCEPT !.registry = r]
  BY DEF SetupChangelog, WithChangelog
<1>2. ChangelogsLoop(T, S, N)
  <2>1. CASE st.changelog # NoTopic
    <3>1. N = S
      BY <2>1
    <3> QED BY <3>1 DEF ChangelogsLoop, Outs, Marks
  <2>2. CASE st.changelog = NoTopic
    <3>1. N = StoreConfigs(V, topic, c)
      BY <2>2
    <3>2. V = WithChangelog(S, b, e)
      OBVIOUS
    <3> HIDE DEF V, e, topic
    <3>3. SetupOf(T, V) /\ V.tp.node = S.tp.node /\ V.temp = S.temp /\ V.out = S.out
      BY <3>2, ChangelogNamed
    <3> HIDE DEF N
    <3>4. /\ N.out \in Outs
          /\ N.out = "ok" => /\ DOMAIN N = SetupFields /\ N.tp = V.tp /\ N.fetched = V.fetched
                             /\ N.meta = V.meta /\ Marks(V, N)
      BY <3>1, <3>3, StoreConfigsFacts DEF SetupOf
    <3> QED BY <3>3, <3>4 DEF ChangelogsLoop, SetupOf, Marks
  <2> QED BY <2>1, <2>2
<1> HIDE DEF N, st, r
<1>3. CASE N.out = "ok" /\ st.name \notin S.registry
  <2>1. U = [N EXCEPT !.registry = r]
    BY <1>1, <1>3
  <2>2. SetupOf(T, N) /\ Marks(S, N) /\ N.tp.node = S.tp.node
    BY <1>2, <1>3 DEF ChangelogsLoop
  <2>3. /\ DOMAIN U = SetupFields /\ U.tp = N.tp /\ U.temp = N.temp /\ U.fetched = N.fetched
        /\ U.meta = N.meta /\ U.out = N.out
    BY <2>1, <2>2 DEF SetupOf, SetupFields
  <2> QED BY <1>3, <2>2, <2>3 DEF ChangelogsLoop, SetupOf, Marks, Outs
<1>4. CASE N.out = "ok" /\ st.name \in S.registry
  <2>1. U = Ends(N, "error") /\ DOMAIN N = SetupFields /\ "error" \in Outs
    BY <1>1, <1>2, <1>4 DEF ChangelogsLoop, SetupOf, Outs
  <2>2. U.out = "error"
    BY <2>1, Ended
  <2> QED BY <2>2 DEF ChangelogsLoop, Outs
<1>5. CASE N.out # "ok"
  BY <1>1, <1>2, <1>5
<1> QED BY <1>3, <1>4, <1>5

LEMMA ChangelogsKeep ==
  ASSUME NEW T, NEW S, SetupOf(T, S), S.out = "ok", NEW stores, stores \subseteq DOMAIN S.tp.store,
         NEW c, NEW U, U = ChangelogsSetUp(S, stores, c)
  PROVE  ChangelogsLoop(T, S, U)
<1> DEFINE l == Len(S.tp.store)
<1>1. l \in Nat
  BY SeqFacts DEF SetupOf
<1>6. PICK f : LoggedBy(f, S, stores, c)
  BY <1>1, LoggedLoop
<1>2. /\ f[0] = S /\ U = f[l]
      /\ \A b \in 1 .. l :
           f[b] = IF b \in stores THEN SetupChangelog(f[b - 1], b, c) ELSE f[b - 1]
  BY <1>6 DEF LoggedBy
<1> HIDE DEF l
<1> DEFINE I == {b \in 0 .. l : ChangelogsLoop(T, S, f[b])}
<1>3. 0 \in I
  BY <1>1, <1>2 DEF ChangelogsLoop, Outs, Marks
<1>4. ASSUME NEW b \in 1 .. l, b - 1 \in I
      PROVE  b \in I
  <2> DEFINE V == f[b - 1]
             W == f[b]
  <2>1. ChangelogsLoop(T, S, V) /\ W = (IF b \in stores THEN SetupChangelog(V, b, c) ELSE V)
    BY <1>2, <1>4
  <2> HIDE DEF V, W
  <2>2. ChangelogsLoop(T, S, W)
    <3>1. CASE b \notin stores
      BY <2>1, <3>1
    <3>2. CASE b \in stores /\ V.out # "ok"
      <4>1. W = V
        BY <2>1, <3>2 DEF SetupChangelog
      <4> QED BY <2>1, <4>1
    <3>3. CASE b \in stores /\ V.out = "ok"
      <4>1. SetupOf(T, V) /\ Marks(S, V) /\ V.tp.node = S.tp.node
        BY <2>1, <3>3 DEF ChangelogsLoop
      <4>2. b \in DOMAIN V.tp.store /\ W = SetupChangelog(V, b, c)
        BY <2>1, <3>3, <4>1 DEF SetupOf
      <4>3. ChangelogsLoop(T, V, W)
        BY ONLY <3>3, <4>1, <4>2, ChangelogKeeps
      <4>4. W.out = "ok" => Marks(S, W)
        BY <4>1, <4>3, MarksTransitive DEF ChangelogsLoop
      <4> QED BY <4>1, <4>3, <4>4 DEF ChangelogsLoop
    <3> QED BY <3>1, <3>2, <3>3
  <2>3. ChangelogsLoop(T, S, f[b])
    BY <2>2 DEF W
  <2> QED BY <1>1, <2>3
<1> HIDE DEF I
<1>5. \A b \in 0 .. l : b \in I
  BY <1>1, <1>3, <1>4, Logging!InductionUpTo
<1> QED BY <1>1, <1>2, <1>5 DEF I

-----------------------------------------------------------------------------
(* One sub-topology.                                                       *)

\* The check takes one source per topic: where topics differ, all of them.
CoCounted(T, S, s) ==
  (\A n, m \in SourcesOf(T, s) : S.tp.node[n].topic = S.tp.node[m].topic => n = m) =>
    \A n \in SourcesOf(T, s) : T.node[n].cop \in SourcesOf(T, s) =>
      S.tp.node[n].count = S.tp.node[T.node[n].cop].count
SubDone(T, S, s) == (\A n \in NodesOf(T, s) : NodeDone(T, S, n)) /\ CoCounted(T, S, s)
IsGlobal(T, s) == T.sub[s].kind = "global-table"
SubRound(T, S, s, U) ==
  /\ U.out \in Outs
  /\ U.out = "ok" =>
       /\ SetupOf(T, U) /\ Marks(S, U)
       /\ ~IsGlobal(T, s) => SubDone(T, U, s)
       /\ \A n \in DOMAIN T.node : IsGlobal(T, s) \/ n \notin NodesOf(T, s) =>
            U.tp.node[n] = S.tp.node[n]

LEMMA SourcesFacts ==
  ASSUME NEW T, NEW s
  PROVE  SourcesOf(T, s) = {n \in NodesOf(T, s) : n \in DOMAIN T.node /\ T.node[n].kind = "kSource"}
BY DEF SourcesOf, NodesOf, Range

LEMMA CheckedAll ==
  ASSUME NEW T, Good(T, {}), NEW S, SetupOf(T, S), NEW s \in DOMAIN T.sub, CoPartitioned(S.tp, s)
  PROVE  CoCounted(T, S, s)
<1> DEFINE X == S.tp
           nodes == X.sub[s].nodes
           OfTopic(t) == {i \in DOMAIN nodes : X.node[nodes[i]].kind = "kSource" /\ X.node[nodes[i]].topic = t}
           Checked(n) == \E i \in OfTopic(X.node[n].topic) :
                           nodes[i] = n /\ \A j \in OfTopic(X.node[n].topic) : j <= i
<1>1. X.sub = T.sub /\ DOMAIN X.node = DOMAIN T.node
      /\ \A n \in DOMAIN T.node : X.node[n].kind = T.node[n].kind /\ X.node[n].cop = T.node[n].cop
  BY DEF SetupOf, SameNode
<1>2. SourcesOf(X, s) = SourcesOf(T, s)
  BY <1>1 DEF SourcesOf
<1>3. \A n \in SourcesOf(X, s) : Checked(n) /\ X.node[n].cop # 0 =>
        X.node[n].count = X.node[X.node[n].cop].count
  BY DEF CoPartitioned
<1>4. SUFFICES ASSUME \A n, m \in SourcesOf(T, s) : X.node[n].topic = X.node[m].topic => n = m,
                      NEW n \in SourcesOf(T, s), T.node[n].cop \in SourcesOf(T, s)
               PROVE  X.node[n].count = X.node[T.node[n].cop].count
  BY DEF CoCounted
<1>5. n \in NodesOf(T, s) /\ n \in DOMAIN T.node /\ T.node[n].kind = "kSource"
      /\ T.node[n].cop \in DOMAIN T.node
  BY <1>4, SourcesFacts
<1>6. T.node[n].cop # 0
  <2>1. DOMAIN T.node = 1 .. Len(T.node) /\ Len(T.node) \in Nat
    BY SeqFacts DEF Good, Shape
  <2> QED BY <1>5, <2>1
<1>7. KnowsPlace(T, s, n)
  BY <1>5 DEF Good, Listed
<1> DEFINE p == T.node[n].id + 1
<1>8. p \in DOMAIN nodes /\ nodes[p] = n /\ \A i \in DOMAIN nodes : nodes[i] = n => i <= p
  BY <1>1, <1>7 DEF KnowsPlace
<1>9. \A i \in DOMAIN nodes : nodes[i] \in NodesOf(T, s) /\ nodes[i] \in DOMAIN T.node
  <2>1. \A i \in DOMAIN nodes : nodes[i] \in NodesOf(T, s)
    BY <1>1 DEF NodesOf, Range
  <2> QED BY <2>1 DEF Good, Listed
<1> HIDE DEF p, nodes, X
<1>10. \A j \in OfTopic(X.node[n].topic) : nodes[j] = n
  <2> SUFFICES ASSUME NEW j \in DOMAIN nodes, X.node[nodes[j]].kind = "kSource",
                      X.node[nodes[j]].topic = X.node[n].topic
               PROVE  nodes[j] = n
    OBVIOUS
  <2>1. nodes[j] \in SourcesOf(T, s)
    BY <1>1, <1>9, SourcesFacts
  <2> QED BY <1>4, <2>1
<1>11. p \in OfTopic(X.node[n].topic)
  BY <1>1, <1>5, <1>8
<1>12. Checked(n)
  BY <1>8, <1>10, <1>11
<1> QED BY <1>1, <1>2, <1>3, <1>4, <1>5, <1>6, <1>12

\* What a set-up reads of the lists it works through.
SubNodes(T, s) == IF IsGlobal(T, s) THEN <<>> ELSE T.sub[s].nodes
LEMMA SubNodesFacts ==
  ASSUME NEW T, Good(T, {}), NEW s \in DOMAIN T.sub, NEW nodes, nodes = SubNodes(T, s)
  PROVE  /\ Listing(T, nodes) /\ Len(nodes) \in Nat /\ DOMAIN nodes = 1 .. Len(nodes)
         /\ \A i \in 1 .. Len(nodes) : nodes[i] \in NodesOf(T, s) /\ nodes[i] \in DOMAIN T.node
         /\ IsGlobal(T, s) => nodes = <<>>
         /\ ~IsGlobal(T, s) => \A n \in NodesOf(T, s) : \E i \in 1 .. Len(nodes) : nodes[i] = n
<1>1. CASE IsGlobal(T, s)
  BY <1>1 DEF SubNodes, Listing
<1>2. CASE ~IsGlobal(T, s)
  <2>1. nodes = T.sub[s].nodes
    BY <1>2 DEF SubNodes
  <2>2. nodes \in Seq(Nat)
    BY <2>1, SubFacts DEF Good
  <2>3. Len(nodes) \in Nat /\ DOMAIN nodes = 1 .. Len(nodes)
    BY <2>2, SeqFacts
  <2>4. /\ \A i \in 1 .. Len(nodes) : nodes[i] \in NodesOf(T, s)
        /\ \A n \in NodesOf(T, s) : \E i \in 1 .. Len(nodes) : nodes[i] = n
    BY <2>1, <2>3 DEF NodesOf, Range
  <2>5. \A n \in NodesOf(T, s) : n \in DOMAIN T.node
    BY DEF Good, Listed
  <2>6. ASSUME NEW i \in 1 .. Len(nodes), NEW j \in 1 .. Len(nodes),
               T.node[nodes[i]].kind \in TopicKinds, nodes[i] = nodes[j]
        PROVE  i = j
    BY <2>1, <2>3, <2>6 DEF Good, Tidy, OnePlace
  <2>7. Listing(T, nodes)
    BY <2>3, <2>4, <2>5, <2>6 DEF Listing
  <2> QED BY <1>2, <2>3, <2>4, <2>5, <2>7
<1> QED BY <1>1, <1>2

\* The set-up of a sub-topology whose nodes are as the DSL left them.
LEMMA SubKeeps ==
  ASSUME NEW T, Good(T, {}), FetchedTopics(T) \subseteq DOMAIN broker, BrokerOk,
         NEW S, SetupOf(T, S), S.out = "ok", NEW s \in DOMAIN T.sub,
         ~IsGlobal(T, s) => \A n \in NodesOf(T, s) : S.tp.node[n] = T.node[n],
         NEW U, U = SetupSub(S, s)
  PROVE  SubRound(T, S, s, U)
<1> DEFINE nodes == SubNodes(T, s)
           C == Counted(S, nodes)
           c == IF C.max < 1 THEN C.auto ELSE C.max
           V == [S EXCEPT !.meta = C.meta]
           N == NodesSetUp(V, nodes, c)
<1>1. U = IF C.panic THEN Ends(S, "panic") ELSE IF N.out # "ok" THEN N
          ELSE IF ~CoPartitioned(N.tp, s) THEN Ends(N, "error")
          ELSE ChangelogsSetUp(N, T.sub[s].stores, c)
  BY DEF SetupSub, SetupOf, SubNodes, IsGlobal
<1>2. /\ Listing(T, nodes) /\ Len(nodes) \in Nat /\ DOMAIN nodes = 1 .. Len(nodes)
      /\ \A i \in 1 .. Len(nodes) : nodes[i] \in NodesOf(T, s) /\ nodes[i] \in DOMAIN T.node
      /\ IsGlobal(T, s) => nodes = <<>>
      /\ ~IsGlobal(T, s) => \A n \in NodesOf(T, s) : \E i \in 1 .. Len(nodes) : nodes[i] = n
  BY SubNodesFacts
<1> HIDE DEF nodes
<1>3. CountsLoop(S, nodes, Len(nodes), C)
  BY <1>2, CountsKeep DEF SetupOf
<1> HIDE DEF C
<1>4. c \in Nat /\ (AtLeastOne(C) => c # 0)
  BY <1>3 DEF CountsLoop, AtLeastOne
<1> HIDE DEF c
<1>5. SetupOf(T, V) /\ V.tp = S.tp /\ V.temp = S.temp /\ V.out = "ok"
  <2>1. /\ DOMAIN V = SetupFields /\ V.tp = S.tp /\ V.temp = S.temp /\ V.out = S.out
        /\ V.fetched = S.fetched /\ V.meta = C.meta
    BY DEF SetupOf, SetupFields
  <2>2. \A t \in V.fetched : t \in DOMAIN V.meta /\ V.meta[t] = broker[t]
    BY <1>3, <2>1 DEF CountsLoop, SetupOf
  <2> HIDE DEF V
  <2> QED BY <2>1, <2>2 DEF SetupOf
<1> HIDE DEF V
<1>6. CASE C.panic
  <2>1. U.out = "panic"
    BY <1>1, <1>6, Ended DEF SetupOf, Outs
  <2> QED BY <2>1 DEF SubRound, Outs
<1>7. CASE ~C.panic
  <2>1. \A i \in 1 .. Len(nodes) : V.tp.node[nodes[i]].topic = T.node[nodes[i]].topic
    <3>1. CASE IsGlobal(T, s)
      BY <1>2, <3>1
    <3>2. CASE ~IsGlobal(T, s)
      BY <1>2, <1>5, <3>2
    <3> QED BY <3>1, <3>2
  <2>2. \A i \in 1 .. Len(nodes) : T.node[nodes[i]].kind = "kSource" /\ T.node[nodes[i]].as # 0 => c # 0
    <3> SUFFICES ASSUME NEW i \in 1 .. Len(nodes), T.node[nodes[i]].kind = "kSource",
                        T.node[nodes[i]].as # 0
                 PROVE  c # 0
      OBVIOUS
    <3>1. nodes[i] \in DOMAIN T.node
      BY <1>2
    <3>2. S.tp.node[nodes[i]].kind = "kSource" /\ S.tp.node[nodes[i]].as # 0
      BY <3>1 DEF SetupOf, SameNode
    <3> QED BY <1>3, <1>4, <1>7, <3>2 DEF CountsLoop
  <2>3. NodesLoop(T, V, nodes, Len(nodes), N)
    BY <1>2, <1>4, <1>5, <2>1, <2>2, NodesKeep
  <2> HIDE DEF N
  <2>4. CASE N.out # "ok"
    <3>1. U = N
      BY <1>1, <1>7, <2>4
    <3> QED BY <2>3, <2>4, <3>1 DEF NodesLoop, SubRound
  <2>5. CASE N.out = "ok"
    <3>1. /\ SetupOf(T, N) /\ Marks(S, N)
          /\ \A i \in 1 .. Len(nodes) : NodeDone(T, N, nodes[i])
          /\ \A n \in DOMAIN T.node : (\A i \in 1 .. Len(nodes) : nodes[i] # n) =>
                                        N.tp.node[n] = S.tp.node[n]
      BY <1>5, <2>3, <2>5 DEF NodesLoop, Marks
    <3>2. CASE ~CoPartitioned(N.tp, s)
      <4>1. U.out = "error"
        BY <1>1, <1>7, <2>5, <3>1, <3>2, Ended DEF SetupOf, Outs
      <4> QED BY <4>1 DEF SubRound, Outs
    <3>3. CASE CoPartitioned(N.tp, s)
      <4>1. U = ChangelogsSetUp(N, T.sub[s].stores, c) /\ T.sub[s].stores \subseteq DOMAIN N.tp.store
        BY <1>1, <1>7, <2>5, <3>1, <3>3 DEF Good, Shape, SetupOf
      <4>2. ChangelogsLoop(T, N, U)
        BY <2>5, <3>1, <4>1, ChangelogsKeep
      <4>3. CoCounted(T, N, s)
        BY <3>1, <3>3, CheckedAll
      <4>4. ASSUME U.out = "ok"
            PROVE  /\ SetupOf(T, U) /\ Marks(S, U)
                   /\ ~IsGlobal(T, s) => SubDone(T, U, s)
                   /\ \A n \in DOMAIN T.node : IsGlobal(T, s) \/ n \notin NodesOf(T, s) =>
                        U.tp.node[n] = S.tp.node[n]
        <5>1. SetupOf(T, U) /\ Marks(N, U) /\ U.tp.node = N.tp.node
          BY <4>2, <4>4 DEF ChangelogsLoop
        <5>2. Marks(S, U) /\ U.fetched = N.fetched
          BY <3>1, <5>1, MarksTransitive DEF SetupOf
        <5>3. ASSUME ~IsGlobal(T, s), NEW n \in NodesOf(T, s)
              PROVE  NodeDone(T, U, n)
          <6>1. NodeDone(T, N, n)
            BY <1>2, <3>1, <5>3
          <6> QED BY <5>1, <5>2, <6>1, DoneStays
        <5>4. CoCounted(T, U, s)
          BY <4>3, <5>1 DEF CoCounted
        <5>5. ASSUME NEW n \in DOMAIN T.node, IsGlobal(T, s) \/ n \notin NodesOf(T, s)
              PROVE  U.tp.node[n] = S.tp.node[n]
          <6>1. \A i \in 1 .. Len(nodes) : nodes[i] # n
            BY <1>2, <5>5
          <6> QED BY <3>1, <5>1, <6>1
        <5> QED BY <5>1, <5>2, <5>3, <5>4, <5>5 DEF SubDone
      <4> QED BY <4>2, <4>4 DEF SubRound, ChangelogsLoop
    <3> QED BY <3>2, <3>3
  <2> QED BY <2>4, <2>5
<1> QED BY <1>6, <1>7

-----------------------------------------------------------------------------
(* The whole set-up.                                                       *)

\* Lists do not share nodes.
LEMMA ListsDiffer ==
  ASSUME NEW T, Good(T, {}), NEW s \in DOMAIN T.sub, NEW q \in DOMAIN T.sub,
         NEW n \in NodesOf(T, s), n \in NodesOf(T, q)
  PROVE  s = q
<1>1. T.node[n].sub = s /\ T.node[n].sub = q
  BY DEF Good, Listed, KnowsPlace
<1> QED BY <1>1

\* What is done with a sub-topology stays while its nodes are left alone.
LEMMA SubDoneStays ==
  ASSUME NEW T, Good(T, {}), NEW S, NEW U, Marks(S, U), U.fetched = S.fetched,
         NEW s \in DOMAIN T.sub, \A n \in NodesOf(T, s) : U.tp.node[n] = S.tp.node[n],
         SubDone(T, S, s)
  PROVE  SubDone(T, U, s)
<1>1. \A n \in NodesOf(T, s) : NodeDone(T, U, n)
  BY DoneStays DEF SubDone
<1>2. \A n \in SourcesOf(T, s) : U.tp.node[n] = S.tp.node[n]
  BY SourcesFacts
<1>3. CoCounted(T, U, s)
  BY <1>2 DEF SubDone, CoCounted
<1> QED BY <1>1, <1>3 DEF SubDone

\* The first k sub-topologies are set up, and the nodes of the others untouched.
SetUpTo(T, k, U) ==
  /\ U.out \in Outs
  /\ U.out = "ok" =>
       /\ SetupOf(T, U) /\ FetchedTopics(T) \subseteq DOMAIN broker
       /\ \A q \in StreamSubs(T) : q <= k => SubDone(T, U, q)
       /\ \A q \in DOMAIN T.sub : q > k => \A n \in NodesOf(T, q) : U.tp.node[n] = T.node[n]

LEMMA SetupStarts ==
  ASSUME NEW T, Good(T, {}), FetchedTopics(T) \subseteq DOMAIN broker
  PROVE  SetUpTo(T, 0, StartOfSetup(T))
<1> DEFINE S == StartOfSetup(T)
           topics == FetchedTopics(T)
           known == [t \in MappedTopics(T) |-> IF t \in topics \cap DOMAIN broker THEN broker[t] ELSE 0]
<1>1. /\ DOMAIN S = SetupFields /\ S.tp = T /\ S.out = "ok" /\ S.fetched = topics
      /\ S.meta = known
  BY DEF StartOfSetup, SetupFields
<1> HIDE DEF S
<1>2. \A t \in topics : t \in MappedTopics(T)
  BY DEF FetchedTopics
<1>3. \A t \in S.fetched : t \in DOMAIN S.meta /\ S.meta[t] = broker[t]
  BY <1>1, <1>2
<1> HIDE DEF known, topics
<1>4. SetupOf(T, S)
  BY <1>1, <1>3 DEF SetupOf, Good, Shape, SameNode, topics
<1>5. DOMAIN T.sub = 1 .. Len(T.sub) /\ StreamSubs(T) \subseteq DOMAIN T.sub
  BY SeqFacts DEF Good, Shape, StreamSubs
<1>6. \A q \in StreamSubs(T) : ~(q <= 0)
  BY <1>5
<1> QED BY <1>1, <1>4, <1>6 DEF SetUpTo, Outs, S

LEMMA SetupGoesOn ==
  ASSUME NEW T, Good(T, {}), FetchedTopics(T) \subseteq DOMAIN broker, BrokerOk,
         NEW k \in 1 .. Len(T.sub), NEW V, SetUpTo(T, k - 1, V),
         NEW U, U = IF k \in T.live THEN SetupSub(V, k) ELSE V
  PROVE  SetUpTo(T, k, U)
<1>1. /\ Len(T.sub) \in Nat /\ DOMAIN T.sub = 1 .. Len(T.sub)
      /\ StreamSubs(T) \subseteq DOMAIN T.sub /\ k \in DOMAIN T.sub
  BY SeqFacts DEF Good, Shape, StreamSubs
<1>2. /\ \A q \in DOMAIN T.sub : q <= k => q <= k - 1 \/ q = k
      /\ \A q \in DOMAIN T.sub : q > k => q > k - 1 /\ q # k
      /\ k > k - 1
      /\ \A q \in DOMAIN T.sub : q <= k - 1 => q # k
  BY <1>1
<1>3. CASE k \notin T.live
  <2>1. U = V /\ k \notin StreamSubs(T)
    BY <1>3 DEF StreamSubs
  <2> QED BY <1>1, <1>2, <2>1 DEF SetUpTo
<1>4. CASE V.out # "ok"
  <2>1. U = V
    BY <1>4 DEF SetupSub
  <2> QED BY <1>4, <2>1 DEF SetUpTo
<1>5. CASE k \in T.live /\ V.out = "ok"
  <2>1. /\ SetupOf(T, V)
        /\ \A q \in StreamSubs(T) : q <= k - 1 => SubDone(T, V, q)
        /\ \A q \in DOMAIN T.sub : q > k - 1 => \A n \in NodesOf(T, q) : V.tp.node[n] = T.node[n]
    BY <1>5 DEF SetUpTo
  <2>2. U = SetupSub(V, k) /\ \A n \in NodesOf(T, k) : V.tp.node[n] = T.node[n]
    BY <1>1, <1>2, <1>5, <2>1
  <2>3. SubRound(T, V, k, U)
    BY <1>1, <1>5, <2>1, <2>2, SubKeeps
  <2>4. ASSUME U.out = "ok"
        PROVE  /\ \A q \in StreamSubs(T) : q <= k => SubDone(T, U, q)
               /\ \A q \in DOMAIN T.sub : q > k => \A n \in NodesOf(T, q) : U.tp.node[n] = T.node[n]
    <3>1. /\ SetupOf(T, U) /\ Marks(V, U)
          /\ ~IsGlobal(T, k) => SubDone(T, U, k)
          /\ \A n \in DOMAIN T.node : n \notin NodesOf(T, k) => U.tp.node[n] = V.tp.node[n]
      BY <2>3, <2>4 DEF SubRound
    <3>2. ASSUME NEW q \in DOMAIN T.sub, q # k
          PROVE  \A n \in NodesOf(T, q) : U.tp.node[n] = V.tp.node[n]
      <4> SUFFICES ASSUME NEW n \in NodesOf(T, q)
                   PROVE  U.tp.node[n] = V.tp.node[n]
        OBVIOUS
      <4>1. n \in DOMAIN T.node
        BY DEF Good, Listed
      <4>2. n \notin NodesOf(T, k)
        BY <1>1, <3>2, ListsDiffer
      <4> QED BY <3>1, <4>1, <4>2
    <3>3. ASSUME NEW q \in StreamSubs(T), q <= k
          PROVE  SubDone(T, U, q)
      <4>1. CASE q = k
        BY <3>1, <4>1 DEF StreamSubs, IsGlobal
      <4>2. CASE q # k
        <5>1. q \in DOMAIN T.sub /\ SubDone(T, V, q)
          BY <1>1, <1>2, <2>1, <3>3, <4>2
        <5>2. U.fetched = V.fetched /\ \A n \in NodesOf(T, q) : U.tp.node[n] = V.tp.node[n]
          BY <2>1, <3>1, <3>2, <4>2, <5>1 DEF SetupOf
        <5> QED BY <3>1, <5>1, <5>2, SubDoneStays
      <4> QED BY <4>1, <4>2
    <3>4. ASSUME NEW q \in DOMAIN T.sub, q > k
          PROVE  \A n \in NodesOf(T, q) : U.tp.node[n] = T.node[n]
      BY <1>2, <2>1, <3>2, <3>4
    <3> QED BY <3>3, <3>4
  <2> QED BY <2>3, <2>4 DEF SubRound, SetUpTo
<1> QED BY <1>3, <1>4, <1>5

\* What a set-up that succeeds has done.
LEMMA SetupFacts ==
  ASSUME NEW T, Good(T, {}), BrokerOk
  PROVE  SetUpTo(T, Len(T.sub), Setup(T))
<1>1. Len(T.sub) \in Nat
  BY SeqFacts DEF Good, Shape
<1>2. CASE ~(FetchedTopics(T) \subseteq DOMAIN broker)
  <2> DEFINE S == StartOfSetup(T)
  <2>1. Setup(T) = Ends(S, "error") /\ DOMAIN S = SetupFields
    BY <1>2 DEF Setup, StartOfSetup, SetupFields
  <2> HIDE DEF S
  <2>2. Setup(T).out = "error"
    BY <2>1, Ended DEF Outs
  <2> QED BY <2>2 DEF SetUpTo, Outs
<1>3. CASE FetchedTopics(T) \subseteq DOMAIN broker
  <2>1. PICK f : SettledBy(f, T)
    BY <1>1, <1>3, SettledLoop
  <2>2. /\ f[0] = StartOfSetup(T) /\ Setup(T) = f[Len(T.sub)]
        /\ \A s \in 1 .. Len(T.sub) :
             f[s] = IF s \in T.live THEN SetupSub(f[s - 1], s) ELSE f[s - 1]
    BY <2>1 DEF SettledBy
  <2> DEFINE I == {k \in 0 .. Len(T.sub) : SetUpTo(T, k, f[k])}
  <2>3. 0 \in I
    BY <1>1, <1>3, <2>2, SetupStarts
  <2>4. ASSUME NEW k \in 1 .. Len(T.sub), k - 1 \in I
        PROVE  k \in I
    <3>1. SetUpTo(T, k - 1, f[k - 1])
          /\ f[k] = IF k \in T.live THEN SetupSub(f[k - 1], k) ELSE f[k - 1]
      BY <2>2, <2>4
    <3>2. SetUpTo(T, k, f[k])
      BY <1>3, <3>1, SetupGoesOn
    <3> QED BY <1>1, <3>2
  <2> HIDE DEF I
  <2>5. \A k \in 0 .. Len(T.sub) : k \in I
    BY <1>1, <2>3, <2>4, Settling!InductionUpTo
  <2> QED BY <1>1, <2>2, <2>5 DEF I
<1> QED BY <1>2, <1>3

-----------------------------------------------------------------------------
(* Repartition topics.                                                     *)

\* What a successful set-up has done with the sub-topologies that are built.
LEMMA LiveDone ==
  ASSUME GraphInv, BrokerOk, NEW S, S = Setup(tp), S.out = "ok"
  PROVE  /\ SetupOf(tp, S) /\ FetchedTopics(tp) \subseteq DOMAIN broker
         /\ \A s \in tp.live : ~IsGlobal(tp, s) => SubDone(tp, S, s)
<1>1. Good(tp, {})
  BY DEF GraphInv, GraphOk
<1>2. SetUpTo(tp, Len(tp.sub), S)
  BY <1>1, SetupFacts
<1>3. \A s \in tp.live : s <= Len(tp.sub)
  BY <1>1, SeqFacts DEF Good, Shape
<1> QED BY <1>2, <1>3 DEF SetUpTo, StreamSubs, IsGlobal

\* A formatted node of a program that lost none is in a list that set-up visits.
LEMMA FormattedHome ==
  ASSUME GraphInv, ~stale, NEW n \in DOMAIN tp.node, tp.node[n].fmt
  PROVE  \E s \in tp.live : ~IsGlobal(tp, s) /\ n \in NodesOf(tp, s)
<1>1. tp.node[n].sub \in tp.live /\ n \in NodesOf(tp, tp.node[n].sub)
  BY DEF GraphInv, NoneLost, Sound, Homed
<1>2. tp.node[n].sub \in DOMAIN tp.sub
  BY <1>1 DEF GraphInv, GraphOk, Good, Shape
<1>3. ~IsGlobal(tp, tp.node[n].sub)
  BY <1>1, <1>2 DEF GraphInv, GraphOk, Good, Tidy, OneGlobal, IsGlobal
<1> QED BY <1>1, <1>3

\* Both ends of a Repartition get the same name, which is marked for creation.
LEMMA PairsMeet ==
  ASSUME GraphInv, ~stale, Pairs(tp), BrokerOk, NEW S, S = Setup(tp), S.out = "ok",
         NEW n \in DOMAIN tp.node, tp.node[n].kind = "sink", tp.node[n].fmt
  PROVE  /\ n + 1 \in DOMAIN tp.node /\ PairedWith(tp.node[n], tp.node[n + 1])
         /\ S.tp.node[n + 1].topic = S.tp.node[n].topic
         /\ S.tp.node[n].topic \in DOMAIN S.temp
         /\ \E s \in tp.live : ~IsGlobal(tp, s) /\ n + 1 \in SourcesOf(tp, s)
<1> DEFINE m == n + 1
<1>1. m \in DOMAIN tp.node /\ PairedWith(tp.node[n], tp.node[m])
  BY DEF Pairs
<1> HIDE DEF m
<1>2. tp.node[m].kind = "kSource" /\ tp.node[m].fmt /\ tp.node[m].auto
      /\ tp.node[m].topic = tp.node[n].topic
  BY <1>1 DEF PairedWith
<1>3. PICK s \in tp.live : ~IsGlobal(tp, s) /\ n \in NodesOf(tp, s)
  BY FormattedHome
<1>4. PICK q \in tp.live : ~IsGlobal(tp, q) /\ m \in NodesOf(tp, q)
  BY <1>1, <1>2, FormattedHome
<1>5. NodeDone(tp, S, n) /\ NodeDone(tp, S, m)
  BY <1>3, <1>4, LiveDone DEF SubDone
<1>6. S.tp.node[n].topic = SetName(tp.node[n])
  BY <1>5 DEF NodeDone
<1>7. SourceMade(S, tp.node[m], S.tp.node[m])
  BY <1>2, <1>5 DEF NodeDone
<1>8. SetName(tp.node[m]) = SetName(tp.node[n])
  BY <1>2 DEF SetName
<1>9. m \in SourcesOf(tp, q)
  BY <1>1, <1>2, <1>4, SourcesFacts
<1> QED BY <1>1, <1>4, <1>6, <1>7, <1>8, <1>9 DEF SourceMade, m

\* What a set-up leaves, in terms of the topology before it.
LEMMA LeftSources ==
  ASSUME GraphInv, NEW S, Leaves(S)
  PROVE  /\ \A s : SourcesOf(tp', s) = SourcesOf(tp, s)
         /\ tp'.live = tp.live /\ tp'.sub = tp.sub
         /\ \A s : NodesOf(tp', s) = NodesOf(tp, s)
<1>1. /\ tp'.live = tp.live /\ tp'.sub = tp.sub /\ DOMAIN tp'.node = DOMAIN tp.node
      /\ \A n \in DOMAIN tp.node : tp'.node[n].kind = tp.node[n].kind
  BY LeavesFacts DEF SameNode
<1>2. \A s : SourcesOf(tp', s) = SourcesOf(tp, s)
  BY <1>1 DEF SourcesOf
<1> QED BY <1>1, <1>2 DEF NodesOf

\* So the pairs are pairs after a Reset, which names them for the first time.
LEMMA ResetKeepsPairs ==
  ASSUME GraphInv, ~stale, Pairs(tp), BrokerOk, NEW S, S = Setup(tp), S.out = "ok", Leaves(S)
  PROVE  Pairs(tp')
<1>1. /\ DOMAIN tp'.node = DOMAIN tp.node
      /\ \A n \in DOMAIN tp.node :
           /\ tp'.node[n].kind = tp.node[n].kind /\ tp'.node[n].fmt = tp.node[n].fmt
           /\ tp'.node[n].auto = tp.node[n].auto /\ tp'.node[n].topic = S.tp.node[n].topic
  BY LeavesFacts DEF SameNode
<1>2. ASSUME NEW n \in DOMAIN tp.node, tp.node[n].kind = "sink", tp.node[n].fmt
      PROVE  /\ n + 1 \in DOMAIN tp.node /\ PairedWith(tp.node[n], tp.node[n + 1])
             /\ S.tp.node[n + 1].topic = S.tp.node[n].topic
  BY <1>2, PairsMeet
<1> QED BY <1>1, <1>2 DEF Pairs, PairedWith

\* And Build creates the topic, and some task reads it.
LEMMA BuildMeets ==
  ASSUME GraphInv, ~stale, Pairs(tp), BrokerOk, NEW S, S = Setup(tp), S.out = "ok", Leaves(S),
         broker' = Created(S.temp)
  PROVE  RepartitionTopicsMeet'
<1> SUFFICES ASSUME NEW s \in tp'.live, NEW n \in Range(tp'.sub[s].nodes),
                    tp'.node[n].kind = "sink", tp'.node[n].fmt
             PROVE  tp'.node[n].topic \in SourceTopics' /\ tp'.node[n].topic \in DOMAIN broker'
  BY DEF RepartitionTopicsMeet
<1>1. /\ tp'.live = tp.live /\ tp'.sub = tp.sub /\ \A q : SourcesOf(tp', q) = SourcesOf(tp, q)
  BY LeftSources
<1>2. n \in DOMAIN tp.node
  BY <1>1 DEF GraphInv, GraphOk, Good, Shape, Listed, NodesOf
<1>3. \A k \in DOMAIN tp.node :
        /\ tp'.node[k].kind = tp.node[k].kind /\ tp'.node[k].fmt = tp.node[k].fmt
        /\ tp'.node[k].topic = S.tp.node[k].topic
  BY LeavesFacts DEF SameNode
<1>4. /\ n + 1 \in DOMAIN tp.node /\ S.tp.node[n + 1].topic = S.tp.node[n].topic
      /\ S.tp.node[n].topic \in DOMAIN S.temp
  BY <1>2, <1>3, PairsMeet
<1>5. PICK q \in tp.live : ~IsGlobal(tp, q) /\ n + 1 \in SourcesOf(tp, q)
  BY <1>2, <1>3, PairsMeet
<1>6. tp'.node[n].topic \in DOMAIN broker'
  BY <1>2, <1>3, <1>4 DEF Created
<1>7. tp.sub[q].kind = "stream"
  <2>1. tp.sub[q] \in SubRecords
    BY SubFacts DEF GraphInv, GraphOk, Good, Shape
  <2> QED BY <1>5, <2>1 DEF SubRecords, IsGlobal
<1> DEFINE W == StreamSources(tp')
<1>8. q \in DOMAIN W /\ W[q] = {tp'.node[k].topic : k \in SourcesOf(tp', q)}
  BY <1>1, <1>7 DEF StreamSources
<1>9. tp'.node[n].topic \in W[q]
  BY <1>1, <1>2, <1>3, <1>4, <1>5, <1>8
<1>10. SourceTopics' = UNION Range(W)
  BY DEF SourceTopics, SourceTopicsOf
<1> HIDE DEF W
<1>11. tp'.node[n].topic \in SourceTopics'
  BY <1>8, <1>9, <1>10 DEF Range
<1> QED BY <1>6, <1>11

-----------------------------------------------------------------------------
(* Co-partitioning.                                                        *)

\* A source whose name no created topic has is in the topic map as one that
\* exists.
LEMMA FoundIsFetched ==
  ASSUME GraphInv, NEW s \in tp.live, ~IsGlobal(tp, s), NEW n \in SourcesOf(tp, s),
         \A p \in Places(tp) : NodeAt(tp, p).kind = "kSource" /\ NodeAt(tp, p).auto =>
           NodeAt(tp, p).topic # tp.node[n].topic
  PROVE  tp.node[n].topic \in FetchedTopics(tp)
<1> DEFINE t == tp.node[n].topic
<1>1. n \in NodesOf(tp, s) /\ tp.node[n].kind = "kSource" /\ s \in StreamSubs(tp)
  BY SourcesFacts DEF StreamSubs, IsGlobal
<1>2. PICK i \in DOMAIN tp.sub[s].nodes : tp.sub[s].nodes[i] = n
  BY <1>1 DEF NodesOf, Range
<1> DEFINE p == <<s, i>>
<1>3. p \in {s} \X DOMAIN tp.sub[s].nodes
  BY <1>2
<1>4. p \in Places(tp) /\ NodeAt(tp, p) = tp.node[n]
  BY <1>1, <1>2, <1>3 DEF Places, NodeAt
<1> HIDE DEF p
<1>5. t \in MappedTopics(tp)
  BY <1>1, <1>4 DEF MappedTopics
<1>6. t \notin AutoTopics(tp)
  BY DEF AutoTopics, SourcePlaces
<1> QED BY <1>5, <1>6 DEF FetchedTopics

\* What Build leaves at the broker is what the sub-topology counted.
LEMMA CountAtBroker ==
  ASSUME GraphInv, BrokerOk, NEW S, S = Setup(tp), S.out = "ok", Leaves(S),
         broker' = Created(S.temp), NEW s \in tp.live, ~IsGlobal(tp, s),
         CheckedOnce(s)', NamedApart(s)', NEW n \in SourcesOf(tp, s)
  PROVE  broker'[tp'.node[n].topic] = S.tp.node[n].count
<1>1. /\ tp'.live = tp.live /\ tp'.sub = tp.sub /\ \A q : SourcesOf(tp', q) = SourcesOf(tp, q)
  BY LeftSources
<1>2. \A k \in DOMAIN tp.node :
        tp'.node[k].auto = tp.node[k].auto /\ tp'.node[k].topic = S.tp.node[k].topic
  BY LeavesFacts DEF SameNode
<1>3. n \in NodesOf(tp, s) /\ n \in DOMAIN tp.node /\ tp.node[n].kind = "kSource"
  BY SourcesFacts
<1>4. NodeDone(tp, S, n) /\ FetchedTopics(tp) \subseteq DOMAIN broker
      /\ S.fetched = FetchedTopics(tp)
  BY <1>3, LiveDone DEF SubDone, SetupOf
<1>5. CASE tp.node[n].auto
  <2>1. SourceMade(S, tp.node[n], S.tp.node[n])
    BY <1>3, <1>4, <1>5 DEF NodeDone
  <2>2. temp' = S.temp
    BY DEF Leaves
  <2>3. broker'[tp'.node[n].topic] = temp'[tp'.node[n].topic]
    BY <1>1, <1>2, <1>3, <1>5 DEF CheckedOnce
  <2> QED BY <1>2, <1>3, <2>1, <2>2, <2>3 DEF SourceMade
<1>6. CASE ~tp.node[n].auto
  <2>1. SourceFound(S, tp.node[n], S.tp.node[n])
    BY <1>3, <1>4, <1>6 DEF NodeDone
  <2>2. tp'.node[n].topic = tp.node[n].topic
    BY <1>2, <1>3, <2>1 DEF SourceFound
  <2>3. ASSUME NEW p \in Places(tp), NodeAt(tp, p).kind = "kSource", NodeAt(tp, p).auto
        PROVE  NodeAt(tp, p).topic # tp.node[n].topic
    <3> DEFINE m == tp.sub[p[1]].nodes[p[2]]
    <3>1. p \in Places(tp') /\ NodeAt(tp', p) = tp'.node[m] /\ NodeAt(tp, p) = tp.node[m]
      BY <1>1 DEF Places, StreamSubs, NodeAt
    <3>2. PICK q \in StreamSubs(tp) : p \in {q} \X DOMAIN tp.sub[q].nodes
      BY DEF Places
    <3>3. q \in tp.live /\ ~IsGlobal(tp, q) /\ m \in NodesOf(tp, q)
      BY <3>2 DEF StreamSubs, IsGlobal, NodesOf, Range
    <3>4. m \in DOMAIN tp.node
      BY <3>3 DEF GraphInv, GraphOk, Good, Shape, Listed
    <3> HIDE DEF m
    <3>5. tp'.node[n].topic[1] # tp'.node[m].topic[1]
      BY <1>1, <1>2, <1>3, <1>6, <2>3, <3>1, <3>4 DEF NamedApart
    <3>6. tp'.node[m].topic \in {tp.node[m].topic, Formatted(tp.node[m].topic)}
      <4>1. NodeDone(tp, S, m)
        BY <3>3, LiveDone DEF SubDone
      <4>2. S.tp.node[m].topic = SetName(tp.node[m])
        BY <2>3, <3>1, <4>1 DEF NodeDone, SourceMade
      <4> QED BY <1>2, <3>4, <4>2 DEF SetName
    <3>7. Formatted(tp.node[m].topic)[1] = tp.node[m].topic[1]
      BY DEF Formatted
    <3> QED BY <2>2, <3>1, <3>5, <3>6, <3>7
  <2>4. tp.node[n].topic \in FetchedTopics(tp)
    BY <2>3, FoundIsFetched
  <2>5. broker'[tp.node[n].topic] = broker[tp.node[n].topic]
    BY <1>4, <2>4 DEF Created
  <2> QED BY <1>4, <2>1, <2>2, <2>4, <2>5 DEF SourceFound
<1> QED BY <1>5, <1>6

\* A source that is marked once is checked against what it is marked with.
LEMMA BuildCounts ==
  ASSUME GraphInv, BrokerOk, NEW S, S = Setup(tp), S.out = "ok", Leaves(S),
         broker' = Created(S.temp)
  PROVE  JoinedSourcesCoPartitioned'
<1> SUFFICES ASSUME NEW s \in tp'.live, CheckedOnce(s)', NamedApart(s)',
                    NEW n \in SourcesOf(tp', s), NEW m \in SourcesOf(tp', s), m \in tp'.node[n].marks
             PROVE  broker'[tp'.node[n].topic] = broker'[tp'.node[m].topic]
  BY DEF JoinedSourcesCoPartitioned, CountsAsMarked, Marked
<1>1. /\ tp'.live = tp.live /\ tp'.sub = tp.sub /\ \A q : SourcesOf(tp', q) = SourcesOf(tp, q)
  BY LeftSources
<1>2. \A k \in DOMAIN tp.node :
        /\ tp'.node[k].marks = tp.node[k].marks /\ tp'.node[k].topic = S.tp.node[k].topic
  BY LeavesFacts DEF SameNode
<1>3. /\ n \in SourcesOf(tp, s) /\ n \in NodesOf(tp, s) /\ n \in DOMAIN tp.node /\ tp.node[n].kind = "kSource"
      /\ m \in SourcesOf(tp, s) /\ m \in NodesOf(tp, s) /\ m \in DOMAIN tp.node /\ tp.node[m].kind = "kSource"
      /\ s \in tp.live
  BY <1>1, SourcesFacts
<1>4. Good(tp, {}) /\ s \in DOMAIN tp.sub
  BY <1>3 DEF GraphInv, GraphOk, Good, Shape
<1>5. CASE IsGlobal(tp, s)
  <2>1. n = m
    BY <1>3, <1>4, <1>5 DEF Good, Tidy, OneGlobal, IsGlobal
  <2> QED BY <2>1
<1>6. CASE ~IsGlobal(tp, s)
  <2>1. m = tp.node[n].cop
    <3> DEFINE M == tp.node[n].marks
    <3>1. IsFiniteSet(M) /\ m \in M /\ tp.node[n].cop \in M
      BY <1>2, <1>3, <1>4 DEF Good, Tidy, MarksOk
    <3>2. Cardinality(M) <= 1
      BY <1>1, <1>2, <1>3 DEF CheckedOnce
    <3> HIDE DEF M
    <3>3. Cardinality(M) = 1
      <4>1. Cardinality(M) \in Nat /\ Cardinality(M) # 0
        BY <3>1, FS_CardinalityType, FS_EmptySet
      <4> QED BY <3>2, <4>1
    <3>4. PICK x : M = {x}
      BY <3>1, <3>3, FS_Singleton
    <3> QED BY <3>1, <3>4
  <2>2. \A k, l \in SourcesOf(tp, s) : S.tp.node[k].topic = S.tp.node[l].topic => k = l
    <3>1. \A k, l \in SourcesOf(tp, s) : tp'.node[k].topic = tp'.node[l].topic => k = l
      BY <1>1 DEF CheckedOnce
    <3>2. SourcesOf(tp, s) \subseteq DOMAIN tp.node
      BY SourcesFacts
    <3> QED BY <1>2, <3>1, <3>2
  <2>3. CoCounted(tp, S, s)
    BY <1>3, <1>6, LiveDone DEF SubDone
  <2>4. S.tp.node[n].count = S.tp.node[m].count
    BY <1>3, <2>1, <2>2, <2>3 DEF CoCounted
  <2>5. /\ broker'[tp'.node[n].topic] = S.tp.node[n].count
        /\ broker'[tp'.node[m].topic] = S.tp.node[m].count
    BY <1>3, <1>6, CountAtBroker
  <2> QED BY <2>4, <2>5
<1> QED BY <1>5, <1>6

-----------------------------------------------------------------------------
(* The invariant of set-up.                                                *)

\* Until Build has succeeded every topic has partitions, and what Repartition
\* paired is still to be set up, or was set up by a Reset that kept it paired.
SetupInv ==
  /\ phase \in {"dsl", "reset"} => BrokerOk
  /\ phase = "dsl" \/ (phase = "reset" /\ ~stale) => Pairs(tp)
  /\ JoinedSourcesCoPartitioned
  /\ RepartitionTopicsMeet

LEMMA SetupInit == Init => SetupInv
<1> SUFFICES ASSUME Init
             PROVE  SetupInv
  OBVIOUS
<1>1. phase = "dsl" /\ tp = EmptyTopology
  BY DEF Init, DslInit
<1>2. Pairs(tp)
  BY <1>1 DEF Pairs, EmptyTopology
<1>3. BrokerOk
  <2>1. PICK f \in Brokers : broker = [t \in (DOMAIN f) \X {0} |-> f[t[1]]]
    BY DEF Init
  <2>2. \A x \in DOMAIN f : f[x] \in Nat \ {0}
    BY SetupAssumption DEF SetupAssumption, Range
  <2>3. ASSUME NEW t \in DOMAIN broker
        PROVE  broker[t] \in Nat \ {0}
    <3>1. t \in (DOMAIN f) \X {0} /\ broker[t] = f[t[1]]
      BY <2>1, <2>3
    <3>2. t[1] \in DOMAIN f
      BY <3>1
    <3> QED BY <2>2, <3>1, <3>2
  <2> QED BY <2>3 DEF BrokerOk
<1> QED BY <1>1, <1>2, <1>3 DEF SetupInv, JoinedSourcesCoPartitioned, RepartitionTopicsMeet

\* A phase in which no topology is built says nothing of it.
LEMMA NotBuilt ==
  ASSUME phase' # "built"
  PROVE  JoinedSourcesCoPartitioned' /\ RepartitionTopicsMeet'
BY DEF JoinedSourcesCoPartitioned, RepartitionTopicsMeet

\* Once built neither the topology nor the topics change.
LEMMA SetupStays ==
  ASSUME SetupInv, UNCHANGED <<tp, stale, phase, broker, temp>>
  PROVE  SetupInv'
<1>1. Pairs(tp)' = Pairs(tp) /\ BrokerOk' = BrokerOk
  BY DEF Pairs, PairedWith, BrokerOk
<1>2. SourceTopics' = SourceTopics
  BY DEF SourceTopics, SourceTopicsOf, StreamSources, SourcesOf
<1>3. RepartitionTopicsMeet' = RepartitionTopicsMeet
  BY <1>2 DEF RepartitionTopicsMeet
<1>4. \A s : /\ SourcesOf(tp, s)' = SourcesOf(tp, s) /\ Marked(s)' = Marked(s)
            /\ CheckedOnce(s)' = CheckedOnce(s) /\ NamedApart(s)' = NamedApart(s)
            /\ CountsAsMarked(s)' = CountsAsMarked(s)
  BY DEF SourcesOf, Marked, CheckedOnce, NamedApart, CountsAsMarked, Places, StreamSubs, NodeAt
<1>5. JoinedSourcesCoPartitioned' = JoinedSourcesCoPartitioned
  BY <1>4 DEF JoinedSourcesCoPartitioned
<1> QED BY <1>1, <1>3, <1>5 DEF SetupInv

LEMMA SetupNext == GraphInv /\ SetupInv /\ [Next]_vars => SetupInv'
<1> SUFFICES ASSUME GraphInv, SetupInv, [Next]_vars
             PROVE  SetupInv'
  OBVIOUS
<1>1. CASE Dsl /\ UNCHANGED setupVars
  <2>1. phase = "dsl" /\ phase' \in {"dsl", "panic"} /\ broker' = broker
    BY <1>1, DslPhase DEF setupVars
  <2>2. Pairs(tp)'
    BY <1>1, <2>1, DslKeeps DEF CallKept, SetupInv
  <2>3. BrokerOk'
    BY <2>1 DEF SetupInv, BrokerOk
  <2> QED BY <2>1, <2>2, <2>3, NotBuilt DEF SetupInv
<1>2. CASE Build
  <2> DEFINE S == Setup(tp)
  <2>1. /\ Leaves(S) /\ phase \in {"dsl", "reset"} /\ stale' = stale
        /\ phase' = IF S.out # "ok" THEN S.out ELSE IF Refused(S.temp) THEN "error" ELSE "built"
        /\ broker' = IF phase' = "built" THEN Created(S.temp) ELSE broker
    BY <1>2 DEF Build
  <2>2. BrokerOk /\ Good(tp, {})
    BY <2>1 DEF SetupInv, GraphInv, GraphOk
  <2>3. S.out \in Outs
    BY <2>2, SetupFacts DEF SetUpTo
  <2>4. S = Setup(tp)
    OBVIOUS
  <2> HIDE DEF S
  <2>5. CASE phase' # "built"
    <3>1. phase' \in {"error", "panic"}
      BY <2>1, <2>3, <2>5 DEF Outs
    <3> QED BY <3>1, <2>5, NotBuilt DEF SetupInv
  <2>6. CASE phase' = "built"
    <3>1. S.out = "ok" /\ broker' = Created(S.temp)
      BY <2>1, <2>3, <2>6 DEF Outs
    <3>2. JoinedSourcesCoPartitioned'
      BY <2>1, <2>2, <2>4, <3>1, BuildCounts
    <3>3. RepartitionTopicsMeet'
      <4>1. CASE stale
        BY <2>1, <4>1 DEF RepartitionTopicsMeet
      <4>2. CASE ~stale
        <5>1. Pairs(tp)
          BY <2>1, <4>2 DEF SetupInv
        <5> QED BY <2>1, <2>2, <2>4, <3>1, <4>2, <5>1, BuildMeets
      <4> QED BY <4>1, <4>2
    <3> QED BY <2>6, <3>2, <3>3 DEF SetupInv
  <2> QED BY <2>5, <2>6
<1>3. CASE Reset
  <2> DEFINE S == Setup(tp)
             deleted == InternalTopics(S.tp)
  <2>1. /\ Leaves(S) /\ phase = "dsl" /\ stale' = stale
        /\ phase' = IF S.out = "ok" THEN "reset" ELSE S.out
        /\ broker' = IF S.out = "ok" THEN [t \in DOMAIN broker \ deleted |-> broker[t]] ELSE broker
    BY <1>3 DEF Reset
  <2>2. BrokerOk /\ Good(tp, {}) /\ Pairs(tp)
    BY <2>1 DEF SetupInv, GraphInv, GraphOk
  <2>3. S.out \in Outs
    BY <2>2, SetupFacts DEF SetUpTo
  <2>4. S = Setup(tp)
    OBVIOUS
  <2> HIDE DEF S, deleted
  <2>5. BrokerOk'
    BY <2>1, <2>2 DEF BrokerOk
  <2>6. phase' \in {"reset", "error", "panic"} /\ (phase' = "reset" => S.out = "ok")
    BY <2>1, <2>3 DEF Outs
  <2>7. phase' = "reset" /\ ~stale' => Pairs(tp')
    BY <2>1, <2>2, <2>4, <2>6, ResetKeepsPairs
  <2> QED BY <2>5, <2>6, <2>7, NotBuilt DEF SetupInv
<1>4. CASE MetadataSpreads
  BY <1>4, SetupStays DEF MetadataSpreads, dslVars
<1>5. CASE \E up \in BOOLEAN : StartInstance(up)
  BY <1>5, SetupStays DEF StartInstance, dslVars
<1>6. CASE UNCHANGED vars
  BY <1>6, SetupStays DEF vars, dslVars, setupVars
<1> QED BY <1>1, <1>2, <1>3, <1>4, <1>5, <1>6 DEF Next

LEMMA SetupInvariant == Spec => []SetupInv
<1> QED BY GraphInvariant, SetupInit, SetupNext, PTL DEF Spec

\* What a join or a merge brought together has equally many partitions at the
\* broker once kTopologyBuilder.Build has succeeded, for the sources that
\* CoPartitioned can check: each marked once, reading topics of their own, with
\* the names that set-up decides by apart (kSubTopologyBuilder.Setup).
THEOREM JoinedSourcesHold == Spec => []JoinedSourcesCoPartitioned
<1>1. SetupInv => JoinedSourcesCoPartitioned
  BY DEF SetupInv
<1> QED BY <1>1, SetupInvariant, PTL

\* The sink that Repartition made and the source it made with it name one topic
\* after Build, which exists and is read by a task, also if a Reset came first
\* (kStream.Repartition, kSink.Setup, kSource.Setup, kTopologyBuilder.Reset).
THEOREM RepartitionTopicsHold == Spec => []RepartitionTopicsMeet
<1>1. SetupInv => RepartitionTopicsMeet
  BY DEF SetupInv
<1> QED BY <1>1, SetupInvariant, PTL
=============================================================================
