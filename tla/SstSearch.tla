------------------------------ MODULE SstSearch ------------------------------
(***************************************************************************)
(* sst_iters_monotony_predicate (src/src/sst/sst_iterator.cpp): the range  *)
(* of an SST's entries whose keys satisfy a monotonous predicate, here     *)
(* keys between two bounds, as a pair of iterators, and a scan from the    *)
(* first to the second.  Block::get_monotony_predicate_iters has no body;  *)
(* it is external, as its comment and tests describe it.                   *)
(***************************************************************************)
EXTENDS SstScan

VARIABLES
  range,       \* [lo, hi], the keys the predicate accepts
  final_end    \* block and index of the second iterator, or NullIt for nullopt

search_vars == <<vars, range, final_end>>

\* 0 for a match, > 0 to go right, < 0 to go left.
predicate(k) == IF k < range.lo THEN 1 ELSE IF k > range.hi THEN -1 ELSE 0

Matching(block) == {i \in DOMAIN block : predicate(block[i].key) = 0}

GreatestOf(S) == CHOOSE x \in S : \A y \in S : y <= x

\* Where the iterators of a block stand, which skip invisible entries at once.
BeginIn(block) == skip_by_tranc_id(block, LeastOf(Matching(block)))
EndIn(block) == skip_by_tranc_id(block, GreatestOf(Matching(block)) + 1)

\* Mutant: the loop ends at a block that reaches beyond the range.
SearchedWithin(sst) ==
  {b \in DOMAIN sst :
     /\ \A c \in 1..b : predicate(sst[c][Len(sst[c])].key) >= 0
     /\ predicate(sst[b][Len(sst[b])].key) <= 0
     /\ Matching(sst[b]) # {}}

\* The blocks that contribute to the result: the loop ends at the first block that
\* begins behind the range, and passes over those that end before it.
Searched(sst) ==
  {b \in DOMAIN sst :
     /\ \A c \in 1..b : predicate(sst[c][1].key) >= 0
     /\ predicate(sst[b][Len(sst[b])].key) <= 0
     /\ Matching(sst[b]) # {}}

\* The first iterator is the position of the scan.
sst_iters_monotony_predicate(sst) ==
  LET found == Searched(sst)
      first == LeastOf(found)
      last == GreatestOf(found)
  IN  IF found = {}
      THEN block_idx = 1 /\ current_index = NullIt /\ final_end = NullIt
      ELSE /\ block_idx = first /\ current_index = BeginIn(sst[first])
           /\ final_end = <<last, EndIn(sst[last])>>

SearchInit ==
  /\ ssts \in {<<s>> : s \in UNION {SstsFrom(entries) : entries \in (SUBSET Entry) \ {{}}}}
  /\ range \in {r \in [lo : Keys, hi : Keys] : r.lo <= r.hi}
  /\ max_tranc_id \in Snapshots /\ keep_all = FALSE
  /\ cur_idx = 1
  /\ sst_iters_monotony_predicate(ssts[1])
  /\ output = << >>

AtFinalEnd == final_end = <<block_idx, current_index>>

\* The scan ends when the two iterators are equal or the first is not valid.
SearchNext == ~ AtFinalEnd /\ Next /\ UNCHANGED <<range, final_end>>

SearchSpec == SearchInit /\ [][SearchNext]_search_vars

-----------------------------------------------------------------------------
\* Properties.

Found == {e \in Wanted : predicate(e.key) = 0}

\* Without a transaction a search begins with the first match and delivers all
\* matches of all blocks, each key once, before anything else.
SearchFindsAll ==
  max_tranc_id = 0 /\ (AtFinalEnd \/ ~ IsValid) =>
    \A e \in Found :
      \E i \in DOMAIN output : output[i] = e /\ \A j \in 1..i : output[j] \in Found
=============================================================================
