---------------------------- MODULE MCStreamTask ----------------------------
(* Instances of StreamTask for TLC. *)
EXTENDS StreamTaskInv, TLC

CONSTANTS p1, p2

OnePartition == {p1}
TwoPartitions == {p1, p2}
PartitionSymmetry == Permutations({p1, p2})

ProducerFaults == {"rawProduce", "queueFull", "delivery", "fatal", "abortFails"}
\* Every failure but that of the store's own flush.
CrashFaults == ProducerFaults \cup {"user", "groupMeta"}
AnyFault == FaultKinds
UserOnly == {"user"}
GroupMetaOnly == {"groupMeta"}
StoreFlushOnly == {"storeFlush"}
=============================================================================
