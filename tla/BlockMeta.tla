----------------------------- MODULE BlockMeta -----------------------------
(***************************************************************************)
(* BlockMeta (src/src/block/blockmeta.cpp): the section of an SST file     *)
(* that lists offset, first and last key of every block, with a hash.  A   *)
(* number of fixed width is one cell, and so is each byte of a key.        *)
(* std::hash, external, is some function of the hashed cells, and of its   *)
(* value only 32 bits are kept.                                            *)
(***************************************************************************)
EXTENDS Integers, Sequences, SequencesExt

CONSTANTS MetaEntries,    \* the entries in use: [offset, first_key, last_key]
          MaxEntries,     \* bound on the entries of an SST
          OffsetLimit,    \* offsets are written modulo OffsetLimit (32 bits)
          KeyLimit,       \* lengths of keys are written modulo KeyLimit (16 bits)
          HashLimit       \* hashes are written modulo HashLimit (32 bits)

VARIABLES
  meta_entries,    \* what the SST was built with
  metadata,        \* the slice in the file
  outcome          \* of decoding: a status, "none", "ok" or "throws", and the entries

vars == <<meta_entries, metadata, outcome>>

Hash(cells) == FoldSeq(LAMBDA c, h : (31 * h + c) % HashLimit, 0, cells)

KeyCells(key) ==
  LET len == Len(key) % KeyLimit
  IN  <<len>> \o SubSeq(key, 1, len)

EntryCells(m) == <<m.offset % OffsetLimit>> \o KeyCells(m.first_key) \o KeyCells(m.last_key)

\* metadata is as long as the keys need, even if less is written.
encode_meta_to_slice(metas) ==
  LET cells == FlattenSeq([i \in DOMAIN metas |-> EntryCells(metas[i])])
      needed == FlattenSeq([i \in DOMAIN metas |->
                  <<0, 0, 0>> \o metas[i].first_key \o metas[i].last_key])
  IN  <<Len(metas)>> \o cells \o <<Hash(cells)>>
        \o [i \in 1..(Len(needed) - Len(cells)) |-> 0]

-----------------------------------------------------------------------------
\* Decoding: the entries are read one after the other, by the lengths in them.

KeyAt(p) == SubSeq(metadata, p + 1, p + metadata[p])

\* Mutant: the first key's length is not skipped.
EntryTooEarly(p) ==
  LET last == p + 1 + metadata[p + 1]
  IN  [entry |-> [offset |-> metadata[p], first_key |-> KeyAt(p + 1), last_key |-> KeyAt(last)],
       next |-> last + 1 + metadata[last]]

\* The entry at position p and the position behind it.
EntryAt(p) ==
  LET last == p + 2 + metadata[p + 1]
  IN  [entry |-> [offset |-> metadata[p], first_key |-> KeyAt(p + 1), last_key |-> KeyAt(last)],
       next |-> last + 1 + metadata[last]]

\* The entries from position p on, n of them, and the position behind them.
ReadEntries(n, p) ==
  LET read[i \in 0..n] ==
        IF i = 0 THEN [entries |-> << >>, next |-> p]
        ELSE LET e == EntryAt(read[i - 1].next)
             IN  [entries |-> Append(read[i - 1].entries, e.entry), next |-> e.next]
  IN  read[n]

\* Mutant: everything in front of the last four bytes is hashed.
HashesAllButLast(next) == metadata[next] = Hash(SubSeq(metadata, 2, Len(metadata) - 1))

HashMatches(next) == metadata[next] = Hash(SubSeq(metadata, 2, next - 1))

decode_meta_from_slice ==
  LET all == ReadEntries(metadata[1], 2)
  IN  IF Len(metadata) >= 2 /\ HashMatches(all.next)
      THEN [status |-> "ok", entries |-> all.entries]
      ELSE [status |-> "throws", entries |-> << >>]

-----------------------------------------------------------------------------
\* An SST is written, and opened.

NotOpened == [status |-> "none", entries |-> << >>]

Init ==
  /\ meta_entries \in UNION {[1..n -> MetaEntries] : n \in 0..MaxEntries}
  /\ metadata = encode_meta_to_slice(meta_entries)
  /\ outcome = NotOpened

Open ==
  /\ outcome = NotOpened
  /\ outcome' = decode_meta_from_slice
  /\ UNCHANGED <<meta_entries, metadata>>

Next == Open

Spec == Init /\ [][Next]_vars

-----------------------------------------------------------------------------
\* Properties.

CutTo(key, limit) == SubSeq(key, 1, Len(key) % limit)

\* What was written is accepted, and of every block offset and keys come back, cut to
\* their widths: an entry that fits is read back in full, and one that does not spoils
\* neither the entries behind it nor the hash.
IndexReadsBack ==
  outcome.status # "none" =>
    /\ outcome.status = "ok"
    /\ outcome.entries =
         [i \in DOMAIN meta_entries |->
            [offset |-> meta_entries[i].offset % OffsetLimit,
             first_key |-> CutTo(meta_entries[i].first_key, KeyLimit),
             last_key |-> CutTo(meta_entries[i].last_key, KeyLimit)]]
=============================================================================
