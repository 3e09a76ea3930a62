------------------------------- MODULE SstScan -------------------------------
(***************************************************************************)
(* A scan of the SSTs of one level: ConcactIterator over SstIterator over  *)
(* BlockIterator (src/src/sst/concact_iterator.cpp, sst_iterator.cpp and   *)
(* src/src/block/block_iterator.cpp), as Level_Iterator and compaction use *)
(* them.  An entry is a key and the id of the transaction that wrote it.   *)
(* The SSTs hold the entries in key order, the newest version of a key     *)
(* first, and SSTBuilder keeps the versions of a key in one block.         *)
(***************************************************************************)
EXTENDS Integers, Sequences, FiniteSets, SequencesExt

CONSTANTS Keys, Ids,     \* sets of positive integers
          Snapshots,     \* values of max_tranc_id_, 0 for no transaction
          MaxBlocks,     \* bound on blocks of an SST
          MaxSsts,       \* bound on SSTs
          NullIt         \* m_block_it is nullptr

VARIABLES
  ssts,            \* the SSTs: sequences of blocks, sequences of entries
  max_tranc_id,    \* max_tranc_id_
  keep_all,        \* keep_all_versions_
  cur_idx,         \* ConcactIterator::cur_idx
  block_idx,       \* SstIterator::m_block_idx
  current_index,   \* BlockIterator::current_index, or NullIt
  output           \* the entries the scan has delivered

vars == <<ssts, max_tranc_id, keep_all, cur_idx, block_idx, current_index, output>>
input == <<ssts, max_tranc_id, keep_all>>

Entry == [key : Keys, id : Ids]

-----------------------------------------------------------------------------
\* The possible inputs.

Before(d, e) == d.key < e.key \/ (d.key = e.key /\ d.id > e.id)

Sorted(entries) ==
  [i \in 1..Cardinality(entries) |->
     CHOOSE e \in entries : Cardinality({d \in entries : Before(d, e)}) = i - 1]

\* The ways to cut sorted entries into at most n consecutive non-empty parts,
\* never between two versions of a key.
Cuts(entries, n) ==
  LET keys == {e.key : e \in entries}
      last == CHOOSE k \in keys : \A j \in keys : j <= k
  IN  {[i \in 1..(Cardinality(ends) + 1) |->
          {e \in entries :
             Cardinality({k \in ends : k < e.key}) = i - 1}] :
         ends \in {S \in SUBSET (keys \ {last}) : Cardinality(S) < n}}

SstsFrom(entries) == {[i \in DOMAIN c |-> Sorted(c[i])] : c \in Cuts(entries, MaxBlocks)}

Inputs ==
  UNION {UNION {{t \in [DOMAIN c -> UNION {SstsFrom(c[i]) : i \in DOMAIN c}] :
                   \A i \in DOMAIN c : t[i] \in SstsFrom(c[i])} :
                c \in Cuts(entries, MaxSsts)} :
         entries \in (SUBSET Entry) \ {{}}}

-----------------------------------------------------------------------------
\* BlockIterator.

Visible(e) == max_tranc_id = 0 \/ e.id <= max_tranc_id

LeastOf(S) == CHOOSE x \in S : \A y \in S : x <= y

\* The first visible entry from i on, or the end of the block.
skip_by_tranc_id(block, i) ==
  LeastOf({j \in i..Len(block) : Visible(block[j])} \cup {Len(block) + 1})

\* Mutant: the other versions of the key are not skipped.
NextEntryAny(block, i) == skip_by_tranc_id(block, i + 1)

\* operator++: past the other versions of the key unless all are wanted.
NextEntry(block, i) ==
  skip_by_tranc_id(block,
    IF keep_all THEN i + 1
    ELSE LeastOf({j \in (i + 1)..Len(block) : block[j].key # block[i].key}
                   \cup {Len(block) + 1}))

-----------------------------------------------------------------------------
\* SstIterator and ConcactIterator.

Block == ssts[cur_idx][block_idx]

IsValid ==
  /\ cur_idx <= Len(ssts) /\ current_index # NullIt
  /\ block_idx <= Len(ssts[cur_idx])
  /\ current_index <= Len(Block)

\* ssts[s]->begin: seek_first.
BeginSst(s) ==
  /\ cur_idx' = s
  /\ block_idx' = 1
  /\ current_index' = IF s <= Len(ssts) THEN skip_by_tranc_id(ssts[s][1], 1) ELSE NullIt

Init ==
  /\ ssts \in Inputs
  /\ max_tranc_id \in Snapshots
  /\ keep_all \in BOOLEAN
  /\ cur_idx = 1 /\ block_idx = 1
  /\ current_index = skip_by_tranc_id(ssts[1][1], 1)
  /\ output = << >>

Deliver == output' = Append(output, Block[current_index])

\* operator++ within a block.
NextInBlock ==
  /\ IsValid /\ Deliver
  /\ NextEntry(Block, current_index) <= Len(Block)
  /\ current_index' = NextEntry(Block, current_index)
  /\ UNCHANGED <<input, cur_idx, block_idx>>

AtBlockEnd == IsValid /\ NextEntry(Block, current_index) > Len(Block)

HasNextBlock == block_idx < Len(ssts[cur_idx])

FirstOfNextBlock == skip_by_tranc_id(ssts[cur_idx][block_idx + 1], 1)

\* operator++ into the next block, if that block has a visible entry.
NextBlock ==
  /\ AtBlockEnd /\ HasNextBlock /\ Deliver
  /\ FirstOfNextBlock <= Len(ssts[cur_idx][block_idx + 1])
  /\ block_idx' = block_idx + 1
  /\ current_index' = FirstOfNextBlock
  /\ UNCHANGED <<input, cur_idx>>

\* Mutant: the last block of an SST ends the scan.
NextSstNever ==
  /\ AtBlockEnd /\ Deliver
  /\ HasNextBlock => FirstOfNextBlock > Len(ssts[cur_idx][block_idx + 1])
  /\ BeginSst(Len(ssts) + 1)
  /\ UNCHANGED input

\* operator++ into the next SST: the SST has no more blocks, or the iterator
\* stands at the end of a block without a visible entry and counts as invalid.
NextSst ==
  /\ AtBlockEnd /\ Deliver
  /\ HasNextBlock => FirstOfNextBlock > Len(ssts[cur_idx][block_idx + 1])
  /\ BeginSst(cur_idx + 1)
  /\ UNCHANGED input

Next == NextInBlock \/ NextBlock \/ NextSst

Spec == Init /\ [][Next]_vars

-----------------------------------------------------------------------------
\* Properties.

Entries == UNION {UNION {ToSet(ssts[s][b]) : b \in DOMAIN ssts[s]} : s \in DOMAIN ssts}

\* What the scan is to deliver: of every key the newest visible version, or all
\* visible versions.
Wanted ==
  {e \in Entries :
     /\ Visible(e)
     /\ keep_all \/ \A d \in Entries : d.key = e.key /\ Visible(d) => d.id <= e.id}

\* The scan never delivers anything wrong: in order, no key twice, no invisible
\* version, no older version of a key (BlockIterator's skipping of versions and
\* of invisible entries, across blocks and SSTs).
DeliversOnlyWanted ==
  /\ ToSet(output) \subseteq Wanted
  /\ \A i, j \in DOMAIN output : i < j => Before(output[i], output[j])

\* Without a transaction the scan is complete when the iterator is no longer
\* valid.
PlainScanComplete == max_tranc_id = 0 /\ ~ IsValid => Wanted \subseteq ToSet(output)
=============================================================================
