-------------------------- MODULE TwoMergeIterator --------------------------
(***************************************************************************)
(* TwoMergeIterator (src/src/lsm/two_merge_iterator.cpp): the merge of two *)
(* sorted iterators.  A query merges what it found in the memtable (it_a)  *)
(* with what it found in the SSTs (it_b), one version per key each, chosen *)
(* for its snapshot; a compaction merges all versions of two levels, with  *)
(* max_tranc_id_ 0.  An iterator is the sequence of entries it has still   *)
(* to deliver.                                                             *)
(***************************************************************************)
EXTENDS Integers, Sequences, FiniteSets, SequencesExt

CONSTANTS Keys, Ids,     \* sets of positive integers
          Snapshots      \* values of max_tranc_id_ of a query, 0 for no transaction

VARIABLES
  sources,              \* the entries of it_a and it_b at the start
  max_tranc_id, keep_all_versions,
  it_a, it_b,           \* the entries it_a and it_b have still to deliver
  choose_a,
  output                \* the entries delivered so far

vars == <<sources, max_tranc_id, keep_all_versions, it_a, it_b, choose_a, output>>

Before(d, e) == d.key < e.key \/ (d.key = e.key /\ d.id > e.id)

Entries(src) == [key : Keys, id : Ids, src : {src}]

OnePerKey(S) == \A d, e \in S : d.key = e.key => d = e

Sorted(S) ==
  [i \in 1..Cardinality(S) |->
     CHOOSE e \in S : Cardinality({d \in S : Before(d, e)}) = i - 1]

\* The sequences an iterator may deliver.
Inputs(src) ==
  {Sorted(S) :
     S \in {T \in SUBSET Entries(src) :
              \/ keep_all_versions
              \/ OnePerKey(T) /\ \A e \in T : max_tranc_id = 0 \/ e.id <= max_tranc_id}}

-----------------------------------------------------------------------------
\* get_tranc_id of HeapIterator, of ConcactIterator and of TwoMergeIterator.
get_tranc_id(it) == IF keep_all_versions /\ it # << >> THEN it[1].id ELSE max_tranc_id

Drop(it, n) == SubSeq(it, n + 1, Len(it))

\* The loop moves the iterator as long as it stands on an invisible entry.
skip_by_tranc_id(it) ==
  IF max_tranc_id = 0 THEN it
  ELSE LET stops == {n \in 0..Len(it) : get_tranc_id(Drop(it, n)) <= max_tranc_id}
       IN  Drop(it, CHOOSE n \in stops : \A m \in stops : n <= m)

\* Mutant: no key of it_b is skipped.
SkipNothing(a, b) == b

\* it_b after the key it shares with it_a has been skipped.
skip_it_b(a, b) ==
  IF ~ keep_all_versions /\ a # << >> /\ b # << >> /\ a[1].key = b[1].key THEN Tail(b) ELSE b

\* Mutant: the older version of a key comes first.
ChooseOldest(a, b) ==
  /\ a # << >>
  /\ \/ b = << >>
     \/ a[1].key < b[1].key
     \/ a[1].key = b[1].key /\ (keep_all_versions => get_tranc_id(a) < get_tranc_id(b))

choose_it_a(a, b) ==
  /\ a # << >>
  /\ \/ b = << >>
     \/ a[1].key < b[1].key
     \/ a[1].key = b[1].key /\ (keep_all_versions => get_tranc_id(a) > get_tranc_id(b))

\* The end of the constructor and of operator++.
Settled(a, b) ==
  LET next_a == skip_by_tranc_id(a)
      next_b == skip_it_b(next_a, skip_by_tranc_id(b))
  IN  [it_a |-> next_a, it_b |-> next_b, choose_a |-> choose_it_a(next_a, next_b)]

\* Mutant: the iterator is at its end when one of the two is.
EndOfEither == it_a = << >> \/ it_b = << >>

is_end == it_a = << >> /\ it_b = << >>

-----------------------------------------------------------------------------
Init ==
  /\ keep_all_versions \in BOOLEAN
  /\ max_tranc_id \in (IF keep_all_versions THEN {0} ELSE Snapshots)
  /\ sources \in [a : Inputs("a"), b : Inputs("b")]
  /\ LET s == Settled(sources.a, sources.b)
     IN  it_a = s.it_a /\ it_b = s.it_b /\ choose_a = s.choose_a
  /\ output = << >>

\* operator* and operator++.
Next ==
  /\ ~ is_end
  /\ output' = Append(output, IF choose_a THEN it_a[1] ELSE it_b[1])
  /\ LET s == IF choose_a THEN Settled(Tail(it_a), it_b) ELSE Settled(it_a, Tail(it_b))
     IN  it_a' = s.it_a /\ it_b' = s.it_b /\ choose_a' = s.choose_a
  /\ UNCHANGED <<sources, max_tranc_id, keep_all_versions>>

Spec == Init /\ [][Next]_vars

-----------------------------------------------------------------------------
\* Properties.

\* All versions for a compaction; for a query one per key, that of it_a if it has
\* one.
Wanted ==
  ToSet(sources.a)
    \cup {e \in ToSet(sources.b) :
            keep_all_versions \/ \A d \in ToSet(sources.a) : d.key # e.key}

\* Nothing outdated and nothing twice is delivered, in the order of keys and, as
\* Block expects it, of ids from the newest to the oldest.
MergeDeliversOnlyWanted ==
  /\ ToSet(output) \subseteq Wanted /\ IsInjective(output)
  /\ \A i, j \in DOMAIN output : i < j => ~ Before(output[j], output[i])

\* At the end of the merge nothing has been left out.
MergeComplete == is_end => Wanted \subseteq ToSet(output)
=============================================================================
