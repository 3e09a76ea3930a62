------------------------------ MODULE ReadPath ------------------------------
(***************************************************************************)
(* The read path below the engine: the cache of blocks (BlockCache), and   *)
(* the iterators a read goes through, each on all contents of a bounded    *)
(* database: the scan of a level's SSTs (SstScan), the search of an SST    *)
(* with a predicate (SstSearch), the merge of versions (HeapIterator), the *)
(* merge of two iterators (TwoMergeIterator) and the scan of the database  *)
(* (LevelIterator).  A behaviour uses the cache or is one scan with one of *)
(* the five.                                                               *)
(***************************************************************************)
EXTENDS BlockCache

CONSTANTS
  Kinds,               \* what is in use: "cache", "sst", "search", "heap", "merge", "level"
  SstKeys, ScanKeys, FewKeys, Ids,   \* sets of positive integers; FewKeys is for
                       \*   searches and for merges of two iterators
  Snapshots,           \* values of max_tranc_id_, 0 for no transaction
  MaxBlocks, MaxSsts,  \* bounds on the blocks of an SST and on SSTs
  Tables,              \* the tables whose versions a heap merges
  Levels,              \* the number of sources of a database scan
  Value, Deleted,      \* a value, and the empty value
  NullIt,              \* m_block_it is nullptr
  Unused               \* the state of what does not run

ASSUME ScanAssumption ==
  /\ SstKeys \cup ScanKeys \cup FewKeys \cup Ids \subseteq Nat \ {0}
  /\ Snapshots \cup Tables \subseteq Nat
  /\ MaxBlocks \in Nat \ {0} /\ MaxSsts \in Nat \ {0}
  /\ Levels \in Nat /\ Levels >= 2

\* A database is finite.
ASSUME FiniteAssumption == IsFiniteSet(SstKeys \cup ScanKeys \cup FewKeys \cup Ids \cup Tables)

\* nullptr is no index.
ASSUME NullAssumption == NullIt \notin Nat

VARIABLES
  kind, max_tranc_id, output,
  ssts, keep_all, cur_idx, block_idx, current_index,     \* SstScan, SstSearch
  range, final_end,                                      \* SstSearch
  keep_all_versions,                                     \* HeapIterator, TwoMergeIterator
  items, skip_delete, pos,                               \* HeapIterator
  sources, it_a, it_b, choose_a,                         \* TwoMergeIterator
  stored, marked, lost, iter_vec, cached_value           \* LevelIterator

sst == <<ssts, keep_all, cur_idx, block_idx, current_index>>
bounds == <<range, final_end>>
heap == <<items, skip_delete, pos>>
merge == <<sources, it_a, it_b, choose_a>>
level == <<stored, marked, lost, iter_vec, cached_value>>
scan_vars == <<kind, max_tranc_id, output, sst, bounds, keep_all_versions, heap, merge, level>>
read_vars == <<vars, scan_vars>>

Sst == INSTANCE SstScan WITH Keys <- SstKeys
Search == INSTANCE SstSearch WITH Keys <- FewKeys
Heap == INSTANCE HeapIterator WITH Keys <- ScanKeys
Merge == INSTANCE TwoMergeIterator WITH Keys <- FewKeys
Level == INSTANCE LevelIterator WITH Keys <- ScanKeys

SstUnused ==
  /\ ssts = Unused /\ keep_all = Unused /\ cur_idx = Unused
  /\ block_idx = Unused /\ current_index = Unused

BoundsUnused == range = Unused /\ final_end = Unused

HeapUnused == items = Unused /\ skip_delete = Unused /\ pos = Unused

MergeUnused == sources = Unused /\ it_a = Unused /\ it_b = Unused /\ choose_a = Unused

LevelUnused ==
  /\ stored = Unused /\ marked = Unused /\ lost = Unused
  /\ iter_vec = Unused /\ cached_value = Unused

ReadInit ==
  /\ Init
  /\ kind \in Kinds
  /\ CASE kind = "sst"    -> Sst!Init /\ BoundsUnused
       [] kind = "search" -> Search!SearchInit
       [] OTHER           -> SstUnused /\ BoundsUnused
  /\ IF kind = "heap" THEN Heap!Init ELSE HeapUnused
  /\ IF kind = "merge" THEN Merge!Init ELSE MergeUnused
  /\ IF kind = "level" THEN Level!Init ELSE LevelUnused
  /\ kind \notin {"heap", "merge"} => keep_all_versions = Unused
  /\ kind = "cache" => max_tranc_id = Unused /\ output = Unused

ReadNext ==
  \/ kind = "cache" /\ Next /\ UNCHANGED scan_vars
  \/ /\ kind = "sst" /\ Sst!Next
     /\ UNCHANGED <<vars, kind, bounds, keep_all_versions, heap, merge, level>>
  \/ /\ kind = "search" /\ Search!SearchNext
     /\ UNCHANGED <<vars, kind, keep_all_versions, heap, merge, level>>
  \/ kind = "heap" /\ Heap!Next /\ UNCHANGED <<vars, kind, sst, bounds, merge, level>>
  \/ kind = "merge" /\ Merge!Next /\ UNCHANGED <<vars, kind, sst, bounds, heap, level>>
  \/ /\ kind = "level" /\ Level!Next
     /\ UNCHANGED <<vars, kind, sst, bounds, keep_all_versions, heap, merge>>

ReadSpec == ReadInit /\ [][ReadNext]_read_vars

-----------------------------------------------------------------------------
\* Properties, with ListsMatchMap and ImplementsLRUK of BlockCache.

\* No iterator ever delivers anything wrong: BlockIterator's skipping of versions
\* and of invisible entries across blocks and SSTs, HeapIterator's skipping loops
\* and TwoMergeIterator's choice between its sources deliver in order, no key
\* twice unless all versions are kept, and no invisible, outdated or deleted
\* version.
ScansDeliverOnlyWanted ==
  /\ kind \in {"sst", "search"} => Sst!DeliversOnlyWanted
  /\ kind = "heap" => Heap!HeapDeliversOnlyWanted
  /\ kind = "merge" => Merge!MergeDeliversOnlyWanted

\* An iterator that is at its end has delivered everything wanted: no block, no
\* SST and no source ends it early.  This holds of SSTs without a transaction,
\* and of HeapIterator if deletions are kept or invisible versions were left out
\* beforehand, as Level_Iterator leaves them out.
ScansComplete ==
  /\ kind = "sst" => Sst!PlainScanComplete
  /\ kind = "heap" => Heap!HeapComplete
  /\ kind = "merge" => Merge!MergeComplete

\* Without a transaction sst_iters_monotony_predicate begins with the first match
\* and a scan from there delivers the matches of all blocks of the SST, each key
\* once, before anything else: the loop over the blocks neither starts late nor
\* stops early.
SearchFindsAll == kind = "search" => Search!SearchFindsAll

\* The scan of the database visits keys in ascending order, each one once, as the
\* scan of the std::map does that test_lsm.cpp:142 compares it with, if every level
\* behind one with a commit marker has a marker too, or is empty: Level_Iterator
\* passes over all the markers and then moves every source past the key it stands
\* on.  Otherwise it does not hold: the marker lets a deeper level go first.
OrderedWithMarkersLast == kind = "level" => Level!OrderedWithMarkersLast

\* When such a scan is over, under the same condition, it has visited every live key
\* with its newest visible version: without a transaction in whichever level that is,
\* with one if it is in the memtable, for the scans of the SSTs may miss it.
LiveKeysVisited == kind = "level" => Level!LiveKeysVisited

\* The scan of the database visits no key whose newest visible version is a
\* deletion: "if the current value is empty the key has been deleted and is
\* skipped" (level_iterator.cpp:64).
DeletedKeysSkipped == kind = "level" => Level!DeletedKeysSkipped
=============================================================================
