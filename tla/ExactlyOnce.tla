----------------------------- MODULE ExactlyOnce -----------------------------
(***************************************************************************)
(* What a stream task promises: its input offsets move forward, and in the *)
(* same atomic step every record they pass either takes effect once, in    *)
(* the sink and in the aggregate, or has been handed to the failed-message *)
(* handler and takes no effect at all.  Nothing else is ever visible.      *)
(***************************************************************************)
EXTENDS Integers

CONSTANTS Partitions, NumRecords

VARIABLES out,      \* how often each record's result is in the sink topic
          agg,      \* how often each record is counted in the aggregate
          off,      \* the committed offset of each partition
          rejected  \* records handed to the failed-message handler

absVars == <<out, agg, off, rejected>>

Inputs == [part : Partitions, off : 0 .. NumRecords - 1]

Start ==
  /\ out = [r \in Inputs |-> 0]
  /\ agg = [r \in Inputs |-> 0]
  /\ off = [p \in Partitions |-> 0]
  /\ rejected = {}

\* The records of one batch: those between the offsets off and o.
Between(o) == {r \in Inputs : off[r.part] <= r.off /\ r.off < o[r.part]}

CountOnce(f, S) == [r \in Inputs |-> IF r \in S THEN f[r] + 1 ELSE f[r]]

CommitBatch ==
  /\ \E o \in [Partitions -> 0 .. NumRecords] :
       /\ \A p \in Partitions : off[p] <= o[p]
       /\ off' = o
       /\ \E S \in SUBSET Between(o) :
            /\ Between(o) \ S \subseteq rejected
            /\ out' = CountOnce(out, S)
            /\ agg' = CountOnce(agg, S)
  /\ UNCHANGED rejected

\* Only a record that is not committed yet can be rejected.
Reject ==
  /\ \E r \in Inputs : off[r.part] <= r.off /\ rejected' = rejected \cup {r}
  /\ UNCHANGED <<out, agg, off>>

Step == CommitBatch \/ Reject

AtomicSpec == Start /\ [][Step]_absVars
=============================================================================
