----------------------------- MODULE MCTopology -----------------------------
(* Instances of TopologySetup for TLC.  The first topic name is a prefix   *)
(* of the second, and a formatted name has one more letter in front.       *)
EXTENDS TopologySetup, TLC

CONSTANTS a, ab
MCTopics == {a, ab}
MCBrokers == {(a :> 1 @@ ab :> 2), (a :> 2 @@ ab :> 2)}
MCCalls ==
  <<{"KStream"},
    {"KStream", "GlobalTable", "Rekey", "Repartition", "ToTable"},
    {"AutoKStream", "Split", "Branch", "ToTable", "Repartition", "Through", "Process"},
    {"Split", "ToTable", "Aggregate", "JoinGlobalTable", "JoinTable", "Merge", "To", "AddStateStore"},
    {"TableProcess", "TableJoin"}>>

MCLetters(topic) ==
  [i \in 1 .. topic[2] |-> 4] \o
    (CASE topic[1] = a -> <<1>> [] topic[1] = ab -> <<1, 2>> [] OTHER -> <<3>>)
=============================================================================
