---------------------------- MODULE IndexedStore ----------------------------
(***************************************************************************)
(* What a store and its index do (streams/stores, backend): a store is a   *)
(* function from keys to values, None for no value, and an index the set   *)
(* of its entries.  The mapper of the index maps a record to its value,    *)
(* and no index name is a prefix of another one (an entry's backend key is *)
(* the name followed by the record's key, read by its prefix).             *)
(***************************************************************************)
EXTENDS Naturals, Sequences, FiniteSets

CONSTANTS
  Keys, Values,
  Changelog  \* what is ever written to a changelog partition, None: a tombstone

None == 0

ASSUME IndexedStoreAssumption ==
  None \notin Values /\ Changelog \in Seq([key : Keys, val : Values \cup {None}]) \ {<<>>}

EmptyStore == [k \in Keys |-> None]
Held(s) == {k \in Keys : s[k] # None}

\* Set, or Delete for a tombstone
Write(s, r) == [s EXCEPT ![r.key] = r.val]

Entry(k, v) == [idx |-> v, key |-> k]
Unchanged(ix, k, prv, val) == Entry(k, prv) \in ix /\ prv = val
IndexDelete(ix, k, prv) == IF prv = None THEN ix ELSE ix \ {Entry(k, prv)}

\* Mutant: the entry of the previous value stays.
IndexKeepsOld(ix, k, prv, val) == ix \cup {Entry(k, val)}
IndexUpdate(ix, k, prv, val) ==
  IF prv # None /\ Unchanged(ix, k, prv, val) THEN ix
  ELSE IndexDelete(ix, k, prv) \cup {Entry(k, val)}

\* an update of the indexes for the record r, over the store s it is not yet in
Indexed(ix, s, r) ==
  IF r.val = None THEN IndexDelete(ix, r.key, s[r.key])
  ELSE IndexUpdate(ix, r.key, s[r.key], r.val)

IndexRead(ix, i) == {e.key : e \in {f \in ix : f.idx = i}}

\* reference: after the first n records of the changelog, every key has the
\* value of the last record about it
About(n, k) == {j \in 1 .. n : Changelog[j].key = k}
LastAbout(n, k) == CHOOSE j \in About(n, k) : \A i \in About(n, k) : i <= j
Replayed(n) ==
  [k \in Keys |-> IF About(n, k) = {} THEN None ELSE Changelog[LastAbout(n, k)].val]
=============================================================================
