---------------------------- MODULE TaskAssigner ----------------------------
(***************************************************************************)
(* Which tasks a built topology has (streams/tasks/assigner.go) and which  *)
(* of them a group-consumer instance runs for the partitions it was given  *)
(* (streams/stream_consumer_instance.go).                                  *)
(*                                                                         *)
(* A task is a record [sub, part, topics]: one sub-topology, one partition *)
(* number and the topics of the sub-topology that have that partition.  A  *)
(* generation maps every task to its id.                                   *)
(***************************************************************************)
EXTENDS Naturals, Sequences, FiniteSets, SequencesExt

CONSTANT Letters(_)  \* the letters of a topic name, as numbers

\* a fixed total order of names
LexLess(a, b) ==
  \E i \in 1 .. Len(b) :
    /\ \A j \in 1 .. (i - 1) : j <= Len(a) /\ a[j] = b[j]
    /\ i > Len(a) \/ a[i] < b[i]

TopicLess(t, u) == LexLess(Letters(t), Letters(u))

\* the topics are sorted and joined without a separator
HashOf(task) ==
  <<FlattenSeq([i \in 1 .. Cardinality(task.topics) |->
                  Letters(SetToSortSeq(task.topics, TopicLess)[i])]), task.part>>
HashLess(g, h) == LexLess(g[1], h[1]) \/ (g[1] = h[1] /\ g[2] < h[2])

\* one task per sub-topology and partition number among the partitions tps;
\* sources maps each stream sub-topology to its source topics
TasksOf(sources, tps) ==
  {[sub |-> x[1], part |-> x[2], topics |-> {t \in sources[x[1]] : <<t, x[2]>> \in tps}] :
     x \in {y \in (DOMAIN sources) \X {z[2] : z \in tps} :
              \E t \in sources[y[1]] : <<t, y[2]>> \in tps}}

\* Mutant: the tasks are numbered before they are sorted.
GenerateUnsorted(sources, tps, up) ==
  LET tasks == TasksOf(sources, tps)
      Before(m, n) == LET d == IF m.sub # n.sub THEN m.sub < n.sub ELSE m.part < n.part
                      IN m # n /\ d = up
  IN [m \in tasks |-> Cardinality({n \in tasks : Before(n, m)})]
\* ids follow the hashes; tasks of equal hash come in the order in which the
\* map of mappings happened to be iterated (up or down)
Generate(sources, tps, up) ==
  LET tasks == TasksOf(sources, tps)
      hash == [m \in tasks |-> HashOf(m)]
      Before(m, n) == \/ HashLess(hash[m], hash[n])
                      \/ hash[m] = hash[n] /\ IF up THEN m.sub < n.sub ELSE m.sub > n.sub
  IN [m \in tasks |-> Cardinality({n \in tasks : Before(n, m)})]

TPs(task) == task.topics \X {task.part}

\* the tasks of an assignment, and whether the assignment splits one of them
Assign(gen, tps) == {m \in DOMAIN gen : TPs(m) \cap tps # {}}
InvalidAssignment(gen, tps) == \E m \in Assign(gen, tps) : ~(TPs(m) \subseteq tps)

\* the first task, in id order, that reads the partition
FindMappingByTP(gen, tp) ==
  LET found == {m \in DOMAIN gen : tp \in TPs(m)}
  IN {m \in found : \A n \in found : gen[m] <= gen[n]}

\* taskManager.addTask: the transactional id of the task's producer
TxId(gen, m) == <<gen[m], HashOf(m)>>

\* the range strategy of the group coordinator, topic by topic
RangeAssign(n, counts, i) ==
  {tp \in UNION {{t} \X (0 .. (counts[t] - 1)) : t \in DOMAIN counts} :
     LET c == counts[tp[1]]
         extra == c % n
         size == c \div n
         first == (i - 1) * size + (IF i - 1 < extra THEN i - 1 ELSE extra)
     IN first <= tp[2] /\ tp[2] < first + size + (IF i - 1 < extra THEN 1 ELSE 0)}
=============================================================================
