----------------------------- MODULE TranManager -----------------------------
(***************************************************************************)
(* TranManager (src/src/lsm/transation.cpp): transaction ids, the record   *)
(* of which transactions have reached the SSTs, and what survives a crash. *)
(*                                                                         *)
(* Data is abstracted to pieces: piece n of transaction t is its n-th      *)
(* write, piece 0 the ("", "") marker that commit puts behind them.  The   *)
(* memtables form a queue of numbered tables, lo..cur: cur is the current  *)
(* table, the ones before it are frozen, and flush_last always writes the  *)
(* oldest; tables below lo are in SSTs.  place[t][n] is the number of the  *)
(* table that commit or the replay put the piece into, 0 if there is none; *)
(* sst is the set of pieces with a copy in an SST.                         *)
(*                                                                         *)
(* The engine below (LSMEngine::put and flush, WAL::log and recover, the   *)
(* LSM constructor) is external: it has an interface and callers, but no   *)
(* body.  It is modelled from how the code here uses it.                   *)
(***************************************************************************)
EXTENDS Integers, FiniteSets

CONSTANTS MaxId,        \* bound on transaction ids
          MaxWrites,    \* bound on writes per transaction
          MaxTables,    \* bound on memtables
          MaxCrashes,   \* bound on crashes
          TestFail,     \* whether commit is called with test_fail
          Isolations    \* the isolation levels in use, of "RU" and "buffered"

ASSUME TranManagerParameters ==
  /\ MaxId \in Nat
  /\ MaxWrites \in Nat \ {0}
  /\ MaxTables \in Nat
  /\ MaxCrashes \in Nat
  /\ TestFail \in BOOLEAN
  /\ Isolations \subseteq {"RU", "buffered"}

Ids == 1..MaxId
Pieces == 0..MaxWrites

VARIABLES
  up,          \* "down", "up" or "failed" (the constructor threw)
  next_id,     \* nextTransactionId_
  ready,       \* readyToFlushTrancIds_: "absent", "OP_COMMITTED" or "ABORTED"
  flushed,     \* flushedTrancIds_
  status,      \* the TranContext of an id: "none", "active", "logged" (commit holds
               \*   the memtable's locks and has written the log), "marked" (between the
               \*   marker and add_ready of a commit without locks), "committed",
               \*   "skipped" (committed with test_fail), "aborted"
  isolation,   \* isolation_level_ of the TranContext
  writes,      \* number of writes of the TranContext so far
  place,       \* place[t][n]: the table piece n of t was put into, or 0
  sst,         \* the pieces <<t, n>> with a copy in an SST
  lo, cur,     \* oldest memtable and current table
  rolled,      \* the last table into which a READ_UNCOMMITTED abort put old records
               \*   back, or 0
  pending,     \* flushed_tranc_ids of a flush, not yet reported to the manager
  wal,         \* wal[t]: number of writes logged with t's commit, -1 if none
  file,        \* the tranc_id file: whether it is "absent", "empty" or "written",
               \*   and the next id and flushed ids written to it
  \* History variables:
  first_id,    \* the first id of this run of the program
  acked,       \* acked[t]: number of writes commit has logged for t; from there on it
               \*   can only succeed
  crashes      \* crashes, those that test_fail simulates among them

vars == <<up, next_id, ready, flushed, status, isolation, writes, place, sst, lo, cur,
          rolled, pending, wal, file, first_id, acked, crashes>>

manager == <<next_id, ready, flushed, first_id>>
contexts == <<status, isolation, writes>>
tables == <<place, sst, lo, cur, rolled, pending>>
disk == <<wal, file>>
ghosts == <<acked, crashes>>

-----------------------------------------------------------------------------
\* Sets of ids.

Least(S) == CHOOSE x \in S : \A y \in S : x <= y

get_checkpoint_tranc_id == Least(flushed)

\* Mutant: result.insert(last) is missing.
CompressLosesLast(S) == {x \in S : ~ (Least(S)..x \subseteq S)}

(***************************************************************************)
(* compressSet: the first run of consecutive ids is replaced by its last   *)
(* element; the other ids stay.                                            *)
(***************************************************************************)
CompressSet(S) ==
  {x \in S : ~ (Least(S)..(x + 1) \subseteq S)}

\* Mutant: every transaction below t counts as flushed with it.
FinishedBelow(t) == {s \in Ids : s <= t /\ ready[s] # "absent"}

\* Mutant: the loop stops before it has moved t.
AbortedBelow(t) == {s \in Ids : s < t /\ ready[s] = "ABORTED"}

\* The ids add_flushed_tranc_id(t) moves: t itself, if commit has registered
\* it, and the aborted transactions below it.
FlushedWith(t) ==
  {s \in Ids : \/ s < t /\ ready[s] = "ABORTED"
               \/ s = t /\ ready[s] # "absent"}

-----------------------------------------------------------------------------
\* External: tables of the memtable.

InMemory(t, n) == place[t][n] >= lo
InSst(t, n) == place[t][n] \in 1..(lo - 1)
Stored(t, n) == place[t][n] # 0 \/ <<t, n>> \in sst
MemtableEmpty == rolled < lo /\ \A t \in Ids, n \in Pieces : ~ InMemory(t, n)

\* No commit holds the memtable's locks, which everybody else takes to use it.
Unlocked == \A t \in Ids : status[t] # "logged"

PutPieces(t, pieces) ==
  place' = [place EXCEPT ![t] = [n \in Pieces |-> IF n \in pieces THEN cur ELSE @[n]]]

-----------------------------------------------------------------------------
Init ==
  /\ up = "down"
  /\ next_id = 1
  /\ ready = [t \in Ids |-> "absent"]
  /\ flushed = {0}
  /\ status = [t \in Ids |-> "none"]
  /\ isolation = [t \in Ids |-> "buffered"]
  /\ writes = [t \in Ids |-> 0]
  /\ place = [t \in Ids |-> [n \in Pieces |-> 0]]
  /\ sst = {}
  /\ lo = 1 /\ cur = 1 /\ rolled = 0
  /\ pending = {}
  /\ wal = [t \in Ids |-> -1]
  /\ file = [state |-> "absent", next |-> 1, flushed |-> {0}]
  /\ first_id = 1
  /\ acked = [t \in Ids |-> 0]
  /\ crashes = 0

(***************************************************************************)
(* TranManager's constructor followed by the LSM constructor's replay and  *)
(* init_new_wal.                                                           *)
(***************************************************************************)
OpenNew ==
  /\ up = "down" /\ file.state = "absent"
  /\ up' = "up"
  /\ file' = [file EXCEPT !.state = "empty"]    \* FileObj::open(file_path, true)
  /\ UNCHANGED <<manager, contexts, tables, wal, ghosts>>

\* read_tranc_id_file reads past the end of the file, which throws.
OpenFails ==
  /\ up = "down" /\ file.state = "empty"
  /\ up' = "failed"
  /\ UNCHANGED <<manager, contexts, tables, disk, ghosts>>

\* Mutant: the replay starts one id too late.
ReplayedAfterLast ==
  {t \in Ids : wal[t] >= 0 /\ \A s \in file.flushed : t > s + 1}

\* check_recover: what WAL::recover returns, less what the file calls flushed.
Replayed ==
  {t \in Ids : wal[t] >= 0 /\ t > Least(file.flushed) /\ t \notin file.flushed}

\* Mutant: the last id before the restart is handed out again.
ReopenOneEarly ==
  /\ up = "down" /\ file.state = "written"
  /\ up' = "up"
  /\ next_id' = (IF file.next = 1 THEN 1 ELSE file.next - 1) /\ first_id' = next_id'
  /\ place' = [t \in Ids |-> [n \in Pieces |->
                 IF t \in Replayed /\ n \in 1..wal[t] THEN cur ELSE place[t][n]]]
  /\ wal' = [t \in Ids |-> -1]
  /\ flushed' = {file.next - 1}
  /\ UNCHANGED <<ready, contexts, sst, lo, cur, rolled, pending, file, ghosts>>

Reopen ==
  /\ up = "down" /\ file.state = "written"
  /\ up' = "up"
  /\ next_id' = file.next /\ first_id' = file.next
  /\ place' = [t \in Ids |-> [n \in Pieces |->
                 IF t \in Replayed /\ n \in 1..wal[t] THEN cur ELSE place[t][n]]]
  /\ wal' = [t \in Ids |-> -1]    \* init_new_wal removes every wal.* file
  /\ flushed' = {file.next - 1}
  /\ UNCHANGED <<ready, contexts, sst, lo, cur, rolled, pending, file, ghosts>>

-----------------------------------------------------------------------------
getNextTransactionId == next_id \in Ids /\ next_id' = next_id + 1

new_tranc(level) ==
  /\ up = "up"
  /\ getNextTransactionId
  /\ status' = [status EXCEPT ![next_id] = "active"]
  /\ isolation' = [isolation EXCEPT ![next_id] = level]
  /\ writes' = [writes EXCEPT ![next_id] = 0]
  /\ UNCHANGED <<up, ready, flushed, first_id, tables, disk, ghosts>>

\* LSM::get and get_batch take an id, too.
LsmGet ==
  /\ up = "up"
  /\ getNextTransactionId
  /\ UNCHANGED <<up, ready, flushed, first_id, contexts, tables, disk, ghosts>>

\* LSM::put, remove and their batch forms: a write with an id of its own, but
\* without a marker, a log record or an entry in the manager.
LsmPut ==
  /\ up = "up" /\ Unlocked
  /\ getNextTransactionId
  /\ PutPieces(next_id, {1})
  /\ UNCHANGED <<up, ready, flushed, first_id, contexts, sst, lo, cur, rolled, pending, disk, ghosts>>

\* TranContext::put and remove: READ_UNCOMMITTED writes through, the other
\* levels buffer in temp_map_.
Write(t) ==
  /\ up = "up"
  /\ status[t] = "active" /\ writes[t] < MaxWrites
  /\ isolation[t] = "RU" => Unlocked
  /\ writes' = [writes EXCEPT ![t] = @ + 1]
  /\ IF isolation[t] = "RU" THEN PutPieces(t, {writes[t] + 1}) ELSE UNCHANGED place
  /\ UNCHANGED <<up, manager, status, isolation, sst, lo, cur, rolled, pending, disk, ghosts>>

\* write_to_wal: one synced append.  When it fails commit throws before it has
\* changed anything else, a stuttering step here.
Log(t) ==
  /\ wal' = [wal EXCEPT ![t] = writes[t]]
  /\ acked' = [acked EXCEPT ![t] = writes[t]]

add_ready_to_flush_tranc_id(t, state) == ready' = [ready EXCEPT ![t] = state]

(***************************************************************************)
(* commit at the buffering levels takes the memtable's two locks, finds no *)
(* conflict and writes the log; then it applies temp_map_, puts the marker *)
(* and registers the id.  The program may crash in between.                *)
(***************************************************************************)
CommitLog(t) ==
  /\ up = "up" /\ Unlocked
  /\ status[t] = "active" /\ isolation[t] = "buffered"
  /\ Log(t)
  /\ status' = [status EXCEPT ![t] = "logged"]
  /\ UNCHANGED <<up, manager, isolation, writes, tables, file, crashes>>

BufferedApply(t) == PutPieces(t, 0..writes[t])

Commit(t) ==
  /\ up = "up"
  /\ status[t] = "logged"
  /\ BufferedApply(t)
  /\ status' = [status EXCEPT ![t] = "committed"]
  /\ add_ready_to_flush_tranc_id(t, "OP_COMMITTED")
  /\ UNCHANGED <<up, next_id, flushed, first_id, isolation, writes, sst, lo, cur, rolled,
                 pending, disk, ghosts>>

\* commit(true), by which tests simulate a crash behind the log write: nothing is
\* applied, but the id is registered.
CommitTestFail(t) ==
  /\ up = "up" /\ TestFail
  /\ crashes < MaxCrashes
  /\ status[t] = "logged"
  /\ status' = [status EXCEPT ![t] = "skipped"]
  /\ add_ready_to_flush_tranc_id(t, "OP_COMMITTED")
  /\ crashes' = crashes + 1
  /\ UNCHANGED <<up, next_id, flushed, first_id, isolation, writes, tables, disk, acked>>

\* commit at READ_UNCOMMITTED takes no lock: a flush may run between the
\* marker and add_ready_to_flush_tranc_id.
CommitRUMark(t) ==
  /\ up = "up"
  /\ status[t] = "active" /\ isolation[t] = "RU"
  /\ Log(t)
  /\ PutPieces(t, {0})
  /\ status' = [status EXCEPT ![t] = "marked"]
  /\ UNCHANGED <<up, manager, isolation, writes, sst, lo, cur, rolled, pending, file, crashes>>

CommitRUReady(t) ==
  /\ up = "up"
  /\ status[t] = "marked"
  /\ status' = [status EXCEPT ![t] = "committed"]
  /\ add_ready_to_flush_tranc_id(t, "OP_COMMITTED")
  /\ UNCHANGED <<up, next_id, flushed, first_id, isolation, writes, tables, disk, ghosts>>

\* abort, and commit when it finds a conflict.  At READ_UNCOMMITTED abort puts
\* the old record of every key it wrote back under that record's own id: one
\* more copy of a piece that is stored already, so place keeps the first.
Abort(t) ==
  /\ up = "up"
  /\ status[t] = "active"
  /\ isolation[t] = "RU" /\ writes[t] > 0 => Unlocked
  /\ status' = [status EXCEPT ![t] = "aborted"]
  /\ add_ready_to_flush_tranc_id(t, "ABORTED")
  /\ rolled' = IF isolation[t] = "RU" /\ writes[t] > 0 THEN cur ELSE rolled
  /\ UNCHANGED <<up, next_id, flushed, first_id, isolation, writes, place, sst, lo, cur,
                 pending, disk, ghosts>>

-----------------------------------------------------------------------------
\* External: a table over its size limit is frozen.
Freeze ==
  /\ up = "up" /\ Unlocked
  /\ cur < MaxTables
  /\ rolled = cur \/ \E t \in Ids, n \in Pieces : place[t][n] = cur
  /\ cur' = cur + 1
  /\ UNCHANGED <<up, manager, contexts, place, sst, lo, rolled, pending, disk, ghosts>>

(***************************************************************************)
(* LSMEngine::flush with MemTable::flush_last: the oldest table, which is  *)
(* the current one if none is frozen, goes to an SST, and the markers in   *)
(* it are the flushed_tranc_ids reported to the manager one by one.  A     *)
(* flush holds ssts_mtx, so there is one at a time.                        *)
(***************************************************************************)
Flush ==
  /\ up = "up" /\ Unlocked
  /\ pending = {} /\ ~ MemtableEmpty
  /\ lo < cur \/ cur < MaxTables
  /\ lo' = lo + 1
  /\ cur' = IF lo = cur THEN cur + 1 ELSE cur
  /\ sst' = sst \cup {p \in Ids \X Pieces : place[p[1]][p[2]] = lo}
  /\ pending' = {t \in Ids : place[t][0] = lo}
  /\ UNCHANGED <<up, manager, contexts, place, rolled, disk, ghosts>>

\* Mutant: the ids replace flushedTrancIds_ instead of joining it.
AddFlushedAlone(t) ==
  /\ up = "up"
  /\ t \in pending
  /\ flushed' = IF FlushedWith(t) = {} THEN flushed ELSE CompressSet(FlushedWith(t))
  /\ ready' = [s \in Ids |-> IF s \in FlushedWith(t) THEN "absent" ELSE ready[s]]
  /\ pending' = pending \ {t}
  /\ UNCHANGED <<up, next_id, first_id, contexts, place, sst, lo, cur, rolled, disk, ghosts>>

add_flushed_tranc_id(t) ==
  /\ up = "up"
  /\ t \in pending
  /\ flushed' = CompressSet(flushed \cup FlushedWith(t))
  /\ ready' = [s \in Ids |-> IF s \in FlushedWith(t) THEN "absent" ELSE ready[s]]
  /\ pending' = pending \ {t}
  /\ UNCHANGED <<up, next_id, first_id, contexts, place, sst, lo, cur, rolled, disk, ghosts>>

-----------------------------------------------------------------------------
Forget ==    \* what dies with the process
  /\ up' = "down"
  /\ next_id' = 1 /\ first_id' = 1
  /\ ready' = [t \in Ids |-> "absent"]
  /\ flushed' = {0}
  /\ status' = [t \in Ids |-> "none"]
  /\ isolation' = [t \in Ids |-> "buffered"]
  /\ writes' = [t \in Ids |-> 0]
  /\ pending' = {}

\* ~LSM: flush_all has emptied the memtable, then write_tranc_id_file.  Transactions
\* may still be active; what they have not committed is gone.
Shutdown ==
  /\ up = "up" /\ Unlocked
  /\ MemtableEmpty /\ pending = {}
  /\ Forget
  /\ file' = [state |-> "written", next |-> next_id, flushed |-> flushed]
  /\ UNCHANGED <<place, sst, lo, cur, rolled, wal, ghosts>>

\* A crash loses the memtables; the log was synced by commit.
Crash ==
  /\ up = "up"
  /\ crashes < MaxCrashes
  /\ Forget
  /\ place' = [t \in Ids |-> [n \in Pieces |-> IF InMemory(t, n) THEN 0 ELSE place[t][n]]]
  /\ rolled' = 0
  /\ crashes' = crashes + 1
  /\ UNCHANGED <<sst, lo, cur, disk, acked>>

Next ==
  \/ OpenNew \/ OpenFails \/ Reopen
  \/ \E level \in Isolations : new_tranc(level)
  \/ LsmGet \/ LsmPut
  \/ \E t \in Ids : \/ Write(t) \/ CommitLog(t) \/ Commit(t) \/ CommitTestFail(t)
                    \/ CommitRUMark(t) \/ CommitRUReady(t)
                    \/ Abort(t) \/ add_flushed_tranc_id(t)
  \/ Freeze \/ Flush
  \/ Shutdown \/ Crash

Spec == Init /\ [][Next]_vars

-----------------------------------------------------------------------------
\* Properties.

States == {"none", "active", "logged", "marked", "committed", "skipped", "aborted"}
File == [state : {"absent", "empty", "written"},
         next : 1..(MaxId + 1), flushed : SUBSET (0..MaxId)]

\* Type correctness; flushedTrancIds_ is never empty, which
\* get_checkpoint_tranc_id and get_max_flushed_tranc_id rely on.
TypeOK ==
  /\ up \in {"up", "down", "failed"}
  /\ next_id \in 1..(MaxId + 1)
  /\ first_id \in 1..(MaxId + 1)
  /\ ready \in [Ids -> {"absent", "OP_COMMITTED", "ABORTED"}]
  /\ flushed \in SUBSET (0..MaxId) /\ flushed # {}
  /\ status \in [Ids -> States]
  /\ isolation \in [Ids -> {"RU", "buffered"}]
  /\ writes \in [Ids -> 0..MaxWrites]
  /\ place \in [Ids -> [Pieces -> Nat]]
  /\ sst \subseteq Ids \X Pieces
  /\ lo \in Nat \ {0} /\ cur \in Nat /\ lo <= cur
  /\ rolled \in Nat
  /\ pending \subseteq Ids
  /\ wal \in [Ids -> -1..MaxWrites]
  /\ file \in File /\ file.flushed # {}
  /\ acked \in [Ids -> 0..MaxWrites]
  /\ crashes \in Nat

\* t counts as flushed: recovery would not replay it, and the WAL cleaner may
\* delete a file that holds nothing newer than the checkpoint.
Covered(t) == t <= get_checkpoint_tranc_id \/ t \in flushed

\* A transaction counts as flushed only when it is over and, if it committed,
\* all of its writes are in SSTs: neither the order in which tables are flushed,
\* nor compressSet, nor an aborted or still running neighbour lets the
\* checkpoint of TranManager overtake unflushed data.
CheckpointIsSafe ==
  \A t \in Ids :
    t >= first_id /\ Covered(t) =>
      /\ status[t] \in {"committed", "aborted"}
      /\ status[t] = "committed" => \A n \in 1..writes[t] : InSst(t, n)

\* While the program runs the checkpoint never moves backwards: an id that
\* add_flushed_tranc_id inserts late is never below it.
CheckpointNeverRetreats ==
  [][up = "up" /\ up' = "up" => Least(flushed) <= Least(flushed')]_vars

\* What a commit has logged is in a memtable or an SST whenever the program runs, but
\* for a commit of this run that has not yet applied it or was told not to: check_recover
\* replays everything a crash took, also one between the log write and the memtable.
NoCommitLost ==
  up = "up" => \A t \in Ids :
    status[t] \notin {"logged", "skipped"} => \A n \in 1..acked[t] : Stored(t, n)

\* Once a flush has reported the marker of a committed transaction, at the levels
\* that buffer their writes, the manager has recorded the transaction as flushed:
\* commit marks it ready before the marker can be flushed, and no run of ids that
\* compressSet merges away takes it out again.
FlushedMarkerIsRecorded ==
  \A t \in Ids :
    up = "up" /\ isolation[t] = "buffered" /\ status[t] = "committed"
      /\ InSst(t, 0) /\ t \notin pending => Covered(t)

\* Every transaction in the log is newer than the largest flushed id of the
\* tranc_id file, which init_new_wal gives to the WAL as its checkpoint: a file
\* the cleaner may delete under that checkpoint holds no transaction of this run,
\* also when a crash has left an old tranc_id file behind.
LogAboveWalCheckpoint ==
  up = "up" => \A t \in Ids : wal[t] >= 0 => \A s \in file.flushed : t > s
=============================================================================
