-------------------------------- MODULE Wal --------------------------------
(***************************************************************************)
(* WAL (src/src/wal/wal.cpp): the write-ahead log as a sequence of files   *)
(* wal.0, wal.1, ... of which the last one is written to, the thread that  *)
(* deletes old files, and what a crash leaves for recovery.                *)
(*                                                                         *)
(* log, recover, the constructor and the cleaner's loop have no body; they *)
(* are external, in the form their callers, comments and tests give them.  *)
(* log holds mutex_ until its records are synced and the file has been     *)
(* replaced, if it grew too long: writing and rolling are the steps during *)
(* which mutex_ is held.  cleanWALFile holds it only to read the path.     *)
(* set_checkpoint_tranc_id is called by nobody and left out: a WAL keeps   *)
(* the checkpoint it was made with.                                        *)
(***************************************************************************)
EXTENDS Integers, Sequences, FiniteSets, WalRecord, FiniteSetsExt

CONSTANTS MaxId,          \* bound on transaction ids
          Writes,         \* the writes a transaction may have: sequences of <<key>>
                          \*   (a removal) and <<key, value>>
          FileLimit       \* file_size_limit_, in cells

ASSUME WalParameters ==
  /\ MaxId \in Nat /\ FileLimit \in Nat
  /\ LenLimit \in Nat \ {0}
  /\ \A w \in Writes : Len(w) \in Nat /\ DOMAIN w = 1..Len(w)

TrancIds == 1..MaxId

VARIABLES
  files,           \* seq -> records of wal.seq that have been synced
  active,          \* the seq of active_log_path_
  writing,         \* records log has written to log_file_ and not yet synced
  rolling,         \* log is about to call reset_file
  checkpoint,      \* checkpoint_tranc_id_
  cleaner,         \* the cleaner's place: "asleep", "list", "walk" or "delete"
  unread,          \* the files the cleaner has still to look at
  offset,          \* the record it is at, of the one with the lowest seq
  del_paths,       \* the files it has found finished
  synced           \* history: synced[t] is what log has synced for transaction t

vars == <<files, active, writing, rolling, checkpoint, cleaner, unread, offset,
          del_paths, synced>>
log_state == <<active, writing, rolling, synced>>
cleaning == <<cleaner, unread, offset, del_paths>>

NewLog == [s \in {0} |-> << >>]
NothingSynced == [t \in TrancIds |-> << >>]

Ascending(S) == SetToSortSeq(S, <)

Init ==
  /\ files = NewLog /\ active = 0
  /\ writing = << >> /\ rolling = FALSE
  /\ checkpoint = 0
  /\ cleaner = "asleep" /\ unread = {} /\ offset = 1 /\ del_paths = {}
  /\ synced = NothingSynced

-----------------------------------------------------------------------------
\* Writers.

MutexFree == writing = << >> /\ ~ rolling

\* The operations of a TranContext at its commit.
Operations(t, w) ==
  <<createRecord(t)>>
    \o [i \in DOMAIN w |-> IF Len(w[i]) = 1 THEN deleteRecord(t, w[i][1])
                           ELSE putRecord(t, w[i][1], w[i][2])]
    \o <<commitRecord(t)>>

\* Any id not yet logged.  TranManager logs only ids above the checkpoint of its WAL
\* (LogAboveWalCheckpoint there); the tests log ids below it as well.
log(t, w) ==
  /\ MutexFree
  /\ synced[t] = << >>
  /\ writing' = Operations(t, w)
  /\ UNCHANGED <<files, active, rolling, synced, checkpoint, cleaning>>

\* log_file_.sync(), and the test of the size.
Sync ==
  /\ writing # << >>
  /\ files' = [files EXCEPT ![active] = @ \o writing]
  /\ synced' = [synced EXCEPT ![writing[1].tranc_id] = writing]
  /\ writing' = << >>
  /\ rolling' = (Len(Cells(files'[active])) > FileLimit)
  /\ UNCHANGED <<active, checkpoint, cleaning>>

\* Mutant: the new file has the number of the old one and truncates it.
ResetInPlace ==
  /\ rolling
  /\ files' = [files EXCEPT ![active] = << >>]
  /\ rolling' = FALSE
  /\ UNCHANGED <<active, writing, synced, checkpoint, cleaning>>

reset_file ==
  /\ rolling
  /\ active' = active + 1
  /\ files' = [s \in DOMAIN files \cup {active + 1} |->
                 IF s = active + 1 THEN << >> ELSE files[s]]
  /\ rolling' = FALSE
  /\ UNCHANGED <<writing, synced, checkpoint, cleaning>>

-----------------------------------------------------------------------------
\* cleanWALFile.

\* mutex_ is taken to read active_log_path_ and released.
CleanStart ==
  /\ cleaner = "asleep" /\ MutexFree
  /\ cleaner' = "list"
  /\ UNCHANGED <<files, log_state, checkpoint, unread, offset, del_paths>>

\* Mutant: the last file is looked at as well.
ListAll ==
  /\ cleaner = "list"
  /\ unread' = DOMAIN files
  /\ offset' = 1 /\ cleaner' = "walk"
  /\ UNCHANGED <<files, log_state, checkpoint, del_paths>>

\* The wal.* files of the directory, sorted by seq, but for the last.
CleanList ==
  /\ cleaner = "list"
  /\ unread' = DOMAIN files \ {Max(DOMAIN files)}
  /\ offset' = 1 /\ cleaner' = "walk"
  /\ UNCHANGED <<files, log_state, checkpoint, del_paths>>

\* They are looked at in the order of their numbers.
Current == Min(unread)

AtRecord == cleaner = "walk" /\ unread # {} /\ offset <= Len(files[Current])

\* tranc_id > checkpoint_tranc_id_, which is read without mutex_.
Finished == files[Current][offset].tranc_id <= checkpoint

\* has_unfinished: the file stays.
CleanUnfinished ==
  /\ AtRecord /\ ~ Finished
  /\ unread' = unread \ {Current} /\ offset' = 1
  /\ UNCHANGED <<files, log_state, checkpoint, cleaner, del_paths>>

\* Mutant: the first record decides.
CleanFirstRecord ==
  /\ AtRecord /\ Finished
  /\ offset' = Len(files[Current]) + 1
  /\ UNCHANGED <<files, log_state, checkpoint, cleaner, unread, del_paths>>

CleanNextRecord ==
  /\ AtRecord /\ Finished
  /\ offset' = offset + 1
  /\ UNCHANGED <<files, log_state, checkpoint, cleaner, unread, del_paths>>

CleanEndOfFile ==
  /\ cleaner = "walk" /\ unread # {} /\ ~ AtRecord
  /\ del_paths' = del_paths \cup {Current}
  /\ unread' = unread \ {Current} /\ offset' = 1
  /\ UNCHANGED <<files, log_state, checkpoint, cleaner>>

CleanWalked ==
  /\ cleaner = "walk" /\ unread = {}
  /\ cleaner' = "delete"
  /\ UNCHANGED <<files, log_state, checkpoint, unread, offset, del_paths>>

\* del_file, in the order of del_paths.
CleanDelete ==
  /\ cleaner = "delete" /\ del_paths # {}
  /\ files' = [s \in DOMAIN files \ {Min(del_paths)} |-> files[s]]
  /\ del_paths' = del_paths \ {Min(del_paths)}
  /\ UNCHANGED <<log_state, checkpoint, cleaner, unread, offset>>

CleanDone ==
  /\ cleaner = "delete" /\ del_paths = {}
  /\ cleaner' = "asleep"
  /\ UNCHANGED <<files, log_state, checkpoint, unread, offset, del_paths>>

cleanWALFile ==
  \/ CleanStart \/ CleanList \/ CleanUnfinished \/ CleanNextRecord \/ CleanEndOfFile
  \/ CleanWalked \/ CleanDelete \/ CleanDone

-----------------------------------------------------------------------------
\* A crash, and the start after it.

\* WAL::recover on what is on disk, n cells of the records being written among it.
recover(n, checkpoint_tranc_id) ==
  LET seqs == Ascending(DOMAIN files)
      Data(s) == Cells(files[s])
                   \o (IF s = active THEN SubSeq(Cells(writing), 1, n) ELSE << >>)
      decoded == [i \in DOMAIN seqs |-> decode(Data(seqs[i]))]
      records == FlattenSeq([i \in DOMAIN decoded |-> decoded[i].records])
  IN  IF \E i \in DOMAIN decoded : decoded[i].status # "ok"
      THEN CHOOSE d \in ToSet(decoded) : d.status # "ok"
      ELSE [status |-> "ok",
            records |-> SelectSeq(records, LAMBDA r : r.tranc_id > checkpoint_tranc_id)]

(***************************************************************************)
(* A crash loses what log had not synced, but for some cells that reached  *)
(* the file.  check_recover calls recover with the checkpoint of the       *)
(* tranc_id file, which may be older than the one set here; what recover   *)
(* then finds is the subject of RecoverReturnsSynced.  init_new_wal        *)
(* deletes all files and starts a log with the largest flushed id.         *)
(***************************************************************************)
init_new_wal(max_flushed) ==
  /\ files' = NewLog /\ active' = 0
  /\ writing' = << >> /\ rolling' = FALSE
  /\ checkpoint' = max_flushed
  /\ cleaner' = "asleep" /\ unread' = {} /\ offset' = 1 /\ del_paths' = {}
  /\ synced' = NothingSynced

Next ==
  \/ \E t \in TrancIds, w \in Writes : log(t, w)
  \/ Sync \/ reset_file
  \/ cleanWALFile
  \/ \E m \in 0..MaxId : init_new_wal(m)

Spec == Init /\ [][Next]_vars

-----------------------------------------------------------------------------
\* Properties.

OfTran(records, t) == SelectSeq(records, LAMBDA r : r.tranc_id = t)

\* run is a part of records, and the only one with records of t.
HoldsRun(records, run, t) ==
  \E n \in 0..Len(records) :
    /\ n + Len(run) <= Len(records)
    /\ \A i \in 1..Len(run) : records[n + i] = run[i]
    /\ \A j \in 1..Len(records) :
         records[j].tranc_id = t => j \in (n + 1)..(n + Len(run))

\* Whatever the cleaner finds while log appends and starts new files, the records of
\* every transaction above the checkpoint stay in the files: all of them in one file,
\* as log wrote them and with no record of another transaction between them.
CleanerKeepsUnfinished ==
  \A t \in TrancIds :
    t > checkpoint /\ synced[t] # << >> =>
      \E s \in DOMAIN files : HoldsRun(files[s], synced[t], t)

\* Whenever the program crashes, recovery returns all records that log had synced
\* for a transaction above the checkpoint, in order and as they were, and nothing
\* that was never logged; it fails only if the crash cut a write short.
RecoverReturnsSynced ==
  \A n \in 0..Len(Cells(writing)), c \in 0..checkpoint :
    LET r == recover(n, c)
    IN  /\ writing = << >> => r.status = "ok"
        /\ r.status = "ok" =>
             /\ \A t \in TrancIds :
                  t > checkpoint /\ synced[t] # << >> => OfTran(r.records, t) = synced[t]
             /\ \A x \in ToSet(r.records) :
                  x \in ToSet(synced[x.tranc_id]) \cup ToSet(writing)
=============================================================================
