--------------------------- MODULE MCStoreQueries ---------------------------
(***************************************************************************)
(* Two partitions; the changelog writes, overwrites and deletes.           *)
(***************************************************************************)
EXTENDS StoreQueries

MCKeys == {1}
MCValues == {1, 2}
MCIndexQueries == {<<1, 1>>}
\* all three of one partition's records, or one of each partition and one more
MCInitialEnds == {<<2, 0>>, <<1, 1>>}
MCChangelog == <<[key |-> 1, val |-> 1], [key |-> 1, val |-> 2], [key |-> 1, val |-> 0]>>
=============================================================================
