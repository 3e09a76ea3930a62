---------------------------- MODULE TrancIdFile ----------------------------
(***************************************************************************)
(* The tranc_id file of TranManager (write_tranc_id_file and               *)
(* read_tranc_id_file, src/src/lsm/transation.cpp) on top of FileObj and   *)
(* StdFile (src/src/utils/files.cpp, std_file.cpp).  A 64-bit number is    *)
(* one cell.                                                               *)
(*                                                                         *)
(* StdFile is an fstream, external: a write stays in its buffer until the  *)
(* next seek or flush hands it to the operating system in one piece, and a *)
(* crash of the program loses it.                                          *)
(***************************************************************************)
EXTENDS Integers, Sequences, FiniteSets

CONSTANTS MaxNext,      \* bound on nextTransactionId_
          NoWrite       \* the stream's buffer is empty

VARIABLES
  disk,         \* the cells of the file
  buffered,     \* the last write, [offset, cells], or NoWrite
  opened,       \* whether TranManager has the file open
  next, ids,    \* nextTransactionId_ and flushedTrancIds_
  saved         \* history: the states of the manager that may be found in the file,
                \*   << >> for none

vars == <<disk, buffered, opened, next, ids, saved>>

-----------------------------------------------------------------------------
\* StdFile.

\* Mutant: the buffer is written behind the end of the file, as by a stream
\* opened for appending.
Appended(cells, w) == cells \o w.cells

Written(cells, w) ==
  [i \in 1..(IF w.offset + Len(w.cells) > Len(cells) THEN w.offset + Len(w.cells)
             ELSE Len(cells)) |->
     IF i \in (w.offset + 1)..(w.offset + Len(w.cells)) THEN w.cells[i - w.offset]
     ELSE IF i <= Len(cells) THEN cells[i] ELSE 0]

\* What a seek, a flush or close leaves on disk.
Flushed == IF buffered = NoWrite THEN disk ELSE Written(disk, buffered)

write(off, cells) ==
  /\ disk' = Flushed
  /\ buffered' = [offset |-> off, cells |-> cells]

sync ==
  /\ disk' = Flushed
  /\ buffered' = NoWrite

\* FileObj::read_uint64: out of range behind the end.
InRange(off) == off + 1 <= Len(disk)
read_uint64(off) == disk[off + 1]

-----------------------------------------------------------------------------
\* TranManager.

\* flushedTrancIds_ is a std::set: its elements come in ascending order.
Ascending(S) ==
  [i \in 1..Cardinality(S) |-> CHOOSE x \in S : Cardinality({y \in S : y < x}) = i - 1]

Init ==
  /\ disk = << >> /\ buffered = NoWrite     \* FileObj::open(file_path, true)
  /\ opened = TRUE
  /\ next = 1 /\ ids = {0}
  /\ saved = {<< >>}

\* Transactions come and go: any later id, any set of flushed ids below it.
Work ==
  /\ opened /\ buffered = NoWrite
  /\ next' \in next..MaxNext
  /\ ids' \in (SUBSET (0..(next' - 1))) \ {{}}
  /\ UNCHANGED <<disk, buffered, opened, saved>>

Buf == <<next, Cardinality(ids)>> \o Ascending(ids)

\* write_tranc_id_file up to sync.
WriteIds ==
  /\ opened /\ buffered = NoWrite
  /\ write(0, Buf)
  /\ saved' = saved \cup {<<next, ids>>}
  /\ UNCHANGED <<opened, next, ids>>

SyncIds ==
  /\ opened /\ buffered # NoWrite
  /\ sync
  /\ saved' = {<<next, ids>>}
  /\ UNCHANGED <<opened, next, ids>>

\* The end of the program: the buffer is lost in a crash, written by ~FileObj.
Crash ==
  /\ opened
  /\ disk' \in {disk, Flushed}
  /\ buffered' = NoWrite
  /\ opened' = FALSE
  /\ UNCHANGED <<next, ids, saved>>

\* Mutant: one number too many is read.
ReadSizeOneMore == read_uint64(1) + 1

ReadSize == read_uint64(1)

\* TranManager's constructor.  read_tranc_id_file throws when a number lies
\* behind the end of the file.
Readable == InRange(0) /\ InRange(1) /\ InRange(1 + ReadSize)

read_tranc_id_file ==
  /\ ~ opened /\ Readable
  /\ next' = read_uint64(0)
  /\ ids' = {read_uint64(2 + i) : i \in 0..(ReadSize - 1)}
  /\ opened' = TRUE
  /\ saved' = {<<next', ids'>>}
  /\ UNCHANGED <<disk, buffered>>

Next == Work \/ WriteIds \/ SyncIds \/ Crash \/ read_tranc_id_file

Spec == Init /\ [][Next]_vars

-----------------------------------------------------------------------------
\* Properties.

Found == <<read_uint64(0), {read_uint64(2 + i) : i \in 0..(ReadSize - 1)}>>

\* The manager finds in the file what it wrote last, or, when a crash came between
\* write and sync, what it wrote before; never a mixture, although a short write
\* leaves the end of a longer one behind it.  Only before the first sync may it find
\* the file empty, which it cannot read.
IdFileReadsBack ==
  ~ opened => (Readable /\ Found \in saved) \/ (disk = << >> /\ << >> \in saved)
=============================================================================
