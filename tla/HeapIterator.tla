---------------------------- MODULE HeapIterator ----------------------------
(***************************************************************************)
(* HeapIterator (src/src/iterator/iterator.cpp): a merge of the versions   *)
(* found in several tables, delivered key by key.  Table idx_ 0 is the     *)
(* newest.  The priority queue is the sequence of its items in the order   *)
(* of SearchItem's operator> (all items have level_ 0, as in every use of  *)
(* the class), with pos the top; items before pos have been popped.        *)
(***************************************************************************)
EXTENDS Integers, Sequences, FiniteSets, SequencesExt

CONSTANTS Keys, Ids, Tables,   \* sets of positive integers
          Snapshots,           \* values of max_tranc_id_, 0 for no transaction
          Value, Deleted       \* a value, and the empty value

VARIABLES
  items,          \* all items, in the order in which the queue hands them out
  max_tranc_id, skip_delete, keep_all_versions,
  pos,            \* index of the top, Len(items) + 1 when the queue is empty
  output          \* the items delivered so far

vars == <<items, max_tranc_id, skip_delete, keep_all_versions, pos, output>>

-----------------------------------------------------------------------------
\* operator> of SearchItem.
Greater(a, b) ==
  IF a.key # b.key THEN a.key > b.key
  ELSE a.id < b.id \/ a.idx > b.idx

Sorted(S) ==
  [i \in 1..Cardinality(S) |->
     CHOOSE x \in S : Cardinality({y \in S : y # x /\ Greater(x, y)}) = i - 1]

\* The versions in the tables: at most one per key, id and table, and a newer
\* table holds no smaller id of a key.  Otherwise operator> is no order.
Inputs ==
  LET slots == [key : Keys, id : Ids, idx : Tables]
      ordered == {S \in SUBSET slots :
                    \A a, b \in S : a.key = b.key /\ a.idx < b.idx => a.id >= b.id}
  IN  UNION {{Sorted({[key |-> x.key, id |-> x.id, idx |-> x.idx, value |-> v[x]] : x \in S}) :
                v \in [S -> {Value, Deleted}]} : S \in ordered}

-----------------------------------------------------------------------------
End == Len(items) + 1

Visible(x) == max_tranc_id = 0 \/ x.id <= max_tranc_id

FirstFrom(i, Test(_)) ==
  LET found == {j \in i..Len(items) : Test(items[j])}
  IN  IF found = {} THEN End ELSE CHOOSE j \in found : \A k \in found : j <= k

\* Mutant: the item that ends the loop is popped as well.
PastKeyAndOne(i) ==
  LET next == FirstFrom(i, LAMBDA x : x.key # items[i].key)
  IN  IF next = End THEN End ELSE next + 1

\* The top after the items with the key of item i have been popped.
PastKey(i) == FirstFrom(i, LAMBDA x : x.key # items[i].key)

top_value_legal(i) ==
  \/ i = End
  \/ Visible(items[i]) /\ (skip_delete => items[i].value # Deleted)

skip_by_tranc_id(i) == FirstFrom(i, Visible)

PastDeleted(i) == IF keep_all_versions THEN i + 1 ELSE PastKey(i)

\* The inner loop: as long as the top is a deletion it is popped, with the other
\* versions of its key.
SkipDeleted(i) ==
  LET skip[j \in 1..End] ==
        IF j = End \/ items[j].value # Deleted THEN j ELSE skip[PastDeleted(j)]
  IN  skip[i]

\* The loop of the constructor and of operator++.
Settle(i) ==
  LET settle[j \in 1..End] ==
        IF top_value_legal(j) THEN j
        ELSE IF skip_delete THEN settle[SkipDeleted(skip_by_tranc_id(j))]
        ELSE settle[skip_by_tranc_id(j)]
  IN  settle[i]

Init ==
  /\ items \in Inputs
  /\ max_tranc_id \in Snapshots
  /\ skip_delete \in BOOLEAN /\ keep_all_versions \in BOOLEAN
  /\ pos = Settle(1)
  /\ output = << >>

\* Mutant: the older versions of the key stay in the queue.
AdvanceOne(i) == Settle(i + 1)

\* operator++
Advance(i) == Settle(IF keep_all_versions THEN i + 1 ELSE PastKey(i))

Next ==
  /\ pos # End
  /\ output' = Append(output, items[pos])
  /\ pos' = Advance(pos)
  /\ UNCHANGED <<items, max_tranc_id, skip_delete, keep_all_versions>>

Spec == Init /\ [][Next]_vars

-----------------------------------------------------------------------------
\* Properties.

\* The visible versions no newer visible version of the key hides.
Current(i) ==
  /\ Visible(items[i])
  /\ keep_all_versions \/ \A j \in 1..(i - 1) :
                            Visible(items[j]) => items[j].key # items[i].key

\* What the iterator is to deliver: of every key the current version, if it is
\* not a deletion that is to be skipped.
Wanted ==
  LET indexes == {i \in DOMAIN items :
                    Current(i) /\ (skip_delete => items[i].value # Deleted)}
  IN  {items[i] : i \in indexes}

\* The iterator delivers in key order, no key twice unless all versions are kept,
\* and never an invisible, an outdated or a deleted version: the skipping loops
\* leave no such item at the top of the queue.
HeapDeliversOnlyWanted ==
  /\ ToSet(output) \subseteq Wanted
  /\ \A i, j \in DOMAIN output : i < j => ~ Greater(output[i], output[j])

\* When the queue is empty everything wanted has been delivered, provided that
\* deletions are kept or that invisible versions were left out beforehand, as
\* Level_Iterator leaves them out.
HeapComplete ==
  (pos = End /\ (skip_delete => \A i \in DOMAIN items : Visible(items[i])))
    => Wanted \subseteq ToSet(output)
=============================================================================
