---------------------------- MODULE LevelIterator ----------------------------
(***************************************************************************)
(* Level_Iterator (src/src/lsm/level_iterator.cpp): a scan of the whole    *)
(* database, merged from the memtable, level 0 and the deeper levels.      *)
(* Source 1 is the memtable's HeapIterator, source 2 the HeapIterator over *)
(* level 0, the others ConcactIterators; HeapIterator.tla and SstScan.tla  *)
(* say what those deliver.  Key 0 is the empty key, under which commit     *)
(* stores its marker with an empty value.                                  *)
(***************************************************************************)
EXTENDS Integers, Sequences, FiniteSets, SequencesExt

CONSTANTS Keys, Ids,         \* sets of positive integers
          Levels,            \* number of sources
          Snapshots,         \* values of max_tranc_id_, 0 for no transaction
          Value, Deleted     \* a value, and the empty value

VARIABLES
  stored,          \* stored[key][id]: level and value of the version, or << >>
  marked,          \* the levels below level 0 that hold a commit marker
  max_tranc_id,
  lost,            \* the versions that the scans of the SSTs do not reach
  iter_vec,        \* iter_vec[i]: what source i has yet to deliver
  cached_value,    \* the entry the iterator stands on, or << >> while it moves
  output           \* the entries it has stood on

vars == <<stored, marked, max_tranc_id, lost, iter_vec, cached_value, output>>

Sources == 1..Levels
MarkerKey == 0

-----------------------------------------------------------------------------
\* The versions of a key: newer ones are in the same level or further up.
Histories ==
  {h \in [Ids -> {<< >>} \cup (Sources \X {Value, Deleted})] :
     \A s, t \in Ids : s < t /\ h[s] # << >> /\ h[t] # << >> => h[t][1] <= h[s][1]}

Versions(level) ==
  {[key |-> p[1], id |-> p[2], value |-> stored[p[1]][p[2]][2]] :
     p \in {q \in Keys \X Ids : stored[q[1]][q[2]] # << >> /\ stored[q[1]][q[2]][1] = level}}

Visible(x) == max_tranc_id = 0 \/ x.id <= max_tranc_id

\* The newest visible version of every key.
Newest(S) ==
  {x \in S : Visible(x) /\ \A y \in S : y.key = x.key /\ Visible(y) => y.id <= x.id}

InKeyOrder(S) ==
  [i \in 1..Cardinality(S) |-> CHOOSE x \in S : Cardinality({y \in S : y.key < x.key}) = i - 1]

Marker == [key |-> MarkerKey, id |-> 1, value |-> Deleted]

\* SstIterator ends at a block without a visible entry, so that a snapshot may miss
\* versions of every level but the memtable.
Losable(level) ==
  IF level = 1 \/ max_tranc_id = 0 THEN {} ELSE {x \in Versions(level) : Visible(x)}

Scanned(level) == Newest(Versions(level) \ lost)

\* What the constructor puts into iter_vec: the two heaps skip deletions, markers
\* included, which is the default of HeapIterator.
SourceOf(level) ==
  IF level <= 2 THEN InKeyOrder({x \in Scanned(level) : x.value # Deleted})
  ELSE InKeyOrder(Scanned(level) \cup (IF level \in marked THEN {Marker} ELSE {}))

Init ==
  /\ stored \in [Keys -> Histories]
  /\ marked \in SUBSET (3..Levels)
  /\ max_tranc_id \in Snapshots
  /\ lost \in SUBSET UNION {Losable(level) : level \in Sources}
  /\ iter_vec = [level \in Sources |-> SourceOf(level)]
  /\ cached_value = << >>
  /\ output = << >>

-----------------------------------------------------------------------------
is_end == \A i \in Sources : iter_vec[i] = << >>

\* Mutant: the smallest key of the last source that has it.
LastWithKey(i, j) == iter_vec[i][1].key <= iter_vec[j][1].key

\* Source i takes over from source j: its key is smaller.  All sources answer
\* max_tranc_id_ as their tranc_id, so a tie stays with the earlier source.
TakesOver(i, j) == iter_vec[i][1].key < iter_vec[j][1].key

Valid == {i \in Sources : iter_vec[i] # << >>}

\* The sources get_min_key_idx compares.  The empty string stands for "no key yet":
\* a source with the empty key takes over, and so does the next one from it.
Compared == {i \in Valid : \A j \in Valid : i <= j => iter_vec[j][1].key # MarkerKey}

\* The loop over the sources ends with the first one that has the smallest key.
get_min_key_idx ==
  IF Compared # {}
    THEN CHOOSE i \in Compared : \A j \in Compared :
           (j < i => TakesOver(i, j)) /\ (j > i => ~ TakesOver(j, i))
    ELSE CHOOSE i \in Valid : \A j \in Valid : j <= i

\* Mutant: only the chosen source moves on.
SkipChosen(key) ==
  iter_vec' = [i \in Sources |->
    IF i = get_min_key_idx /\ iter_vec[i] # << >> /\ iter_vec[i][1].key = key
      THEN Tail(iter_vec[i]) ELSE iter_vec[i]]

\* No source holds a key twice.
skip_key(key) ==
  iter_vec' = [i \in Sources |->
    IF iter_vec[i] # << >> /\ iter_vec[i][1].key = key THEN Tail(iter_vec[i])
                                                      ELSE iter_vec[i]]

\* One round of the loop in the constructor and in operator++.
Choose ==
  /\ cached_value = << >> /\ ~ is_end
  /\ LET entry == iter_vec[get_min_key_idx][1]
     IN  IF entry.value = Deleted
           THEN skip_key(entry.key) /\ UNCHANGED <<cached_value, output>>
           ELSE /\ cached_value' = <<entry>>
                /\ output' = Append(output, entry)
                /\ UNCHANGED iter_vec
  /\ UNCHANGED <<stored, marked, max_tranc_id, lost>>

\* The first step of operator++.
Increment ==
  /\ cached_value # << >>
  /\ skip_key(cached_value[1].key)
  /\ cached_value' = << >>
  /\ UNCHANGED <<stored, marked, max_tranc_id, lost, output>>

Next == Choose \/ Increment

Spec == Init /\ [][Next]_vars

-----------------------------------------------------------------------------
\* Properties.

\* The versions a reader of the snapshot sees.
Live ==
  {x \in Newest(UNION {Versions(level) : level \in Sources}) : x.value # Deleted}

\* The scan visits keys in ascending order, each one once, as the scan of a sorted
\* map does.  This does not hold: the marker of one level lets a deeper level go
\* first.
ScanInOrder == \A i, j \in DOMAIN output : i < j => output[i].key < output[j].key

\* Every level behind one with a marker has a marker too, or is empty.
MarkersLast == \A i \in marked, j \in Sources : i < j => j \in marked \/ Versions(j) = {}

\* ScanInOrder holds if the markers are last: Level_Iterator passes over all of
\* them and then moves every source past the key it stands on.
OrderedWithMarkersLast == MarkersLast => ScanInOrder

\* When the scan is over, and the markers were last, it has visited every live key
\* with its newest visible version: without a transaction in whichever level that is,
\* with one if it is in the memtable, for the scans of the SSTs may miss it.
LiveKeysVisited ==
  MarkersLast /\ is_end /\ cached_value = << >> =>
    {x \in Live : max_tranc_id = 0 \/ x \in Versions(1)} \subseteq ToSet(output)

\* The scan visits no key whose newest visible version is a deletion: "if the
\* current value is empty the key has been deleted and is skipped".
DeletedKeysSkipped == ToSet(output) \subseteq Live
=============================================================================
