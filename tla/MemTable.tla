------------------------------- MODULE MemTable -------------------------------
(***************************************************************************)
(* The memtable as threads of one process share it                         *)
(* (src/src/memtable/memtable.cpp, with the callers that lock it from      *)
(* outside: TranContext::commit in lsm/transation.cpp, LSM::flush_all and  *)
(* LSMEngine::clear in lsm/engine.cpp).                                    *)
(*                                                                         *)
(* Three shared mutexes: cur_mtx, frozen_mtx and the engine's ssts_mtx.    *)
(* Every acquisition, and every use of a table through a pointer loaded    *)
(* earlier, is a step.  Readers do not wait for waiting writers, as in the *)
(* default pthread rwlock, so the nested shared locks of get_total_size    *)
(* cost no step.  A table is a set of items of size 1, at an address.      *)
(* MemTable::put, LSMEngine::put, flush and get_batch have no body here;   *)
(* they follow the lock order the comments in their place give.            *)
(*                                                                         *)
(* flush_last replaces current_table under frozen_mtx alone, so a put or a *)
(* get may go on with a table that is being flushed or already freed: what *)
(* such an access writes or finds is left open.                            *)
(***************************************************************************)
EXTENDS Integers, Sequences, FiniteSets, Functions

CONSTANTS Threads,
          Items,        \* each is written at most once
          Workloads,    \* what the threads call, ops[t] being the calls of t, with
                        \*   LsmPerMemSizeLimit and LsmTolMemSizeLimit
          Word          \* size_t wraps around here

Calls == {"put", "commit", "commit_checked", "flush", "flush_all", "get", "clear"}

ASSUME MemTableParameters ==
  /\ IsFiniteSet(Threads) /\ IsFiniteSet(Items) /\ Items # {}
  /\ \A w \in Workloads :
       /\ DOMAIN w.ops \subseteq Threads
       /\ \A t \in DOMAIN w.ops : w.ops[t] \subseteq Calls
       /\ w.table_limit \in Nat \ {0} /\ w.total_limit \in Nat \ {0}
  /\ Word \in Nat /\ Word > Cardinality(Items)

VARIABLES
  workload,        \* the workload of this behaviour
  lock,            \* lock[m]: the threads that hold m exclusively and shared
  current_table,   \* address of the active table
  frozen_tables,   \* addresses of the frozen tables, the newest first
  frozen_bytes,
  content,         \* content[a]: the items in the table at a
  ssts,            \* the items in the engine's SSTs
  op, pc,          \* op[t], pc[t]: the call t is in and where it stands
  table,           \* table[t]: the table t got hold of
  item,            \* item[t]: what t writes
  got, known,      \* got[t]: what a read of t has found; known[t]: what it must find
  issued,          \* items that were given to a write
  acked,           \* history: items written into the active table since the last clear
  missed           \* history: items a read had to find and did not

memory == <<current_table, frozen_tables, frozen_bytes, content>>
locals == <<table, item, got, known>>
history == <<issued, acked, missed>>
vars == <<workload, lock, memory, ssts, op, pc, locals, history>>

Mutexes == {"cur", "frozen", "ssts"}
Addresses == 1..(Cardinality(Threads) + Cardinality(Items) + 3)

-----------------------------------------------------------------------------
\* Locks.

CanLock(m) == lock[m].x = {} /\ lock[m].s = {}
CanShare(m) == lock[m].x = {}

Lock(m, t) == [lock EXCEPT ![m].x = {t}]
Share(m, t) == [lock EXCEPT ![m].s = @ \cup {t}]
Unlock(ms, t) ==
  [m \in Mutexes |-> IF m \in ms THEN [x |-> lock[m].x \ {t}, s |-> lock[m].s \ {t}]
                     ELSE lock[m]]

Goto(t, step) == pc' = [pc EXCEPT ![t] = step] /\ UNCHANGED op

Return(t) == pc' = [pc EXCEPT ![t] = "idle"] /\ op' = [op EXCEPT ![t] = "none"]

-----------------------------------------------------------------------------
\* Tables.

\* An address no table and no thread uses.
NewAddress ==
  CHOOSE a \in Addresses :
    a \notin {current_table} \cup Range(frozen_tables) \cup Range(table)

\* frozen_cur_table_
FreezeCurrent ==
  /\ frozen_tables' = <<current_table>> \o frozen_tables
  /\ frozen_bytes' = (frozen_bytes + Cardinality(content[current_table])) % Word
  /\ current_table' = NewAddress
  /\ content' = [content EXCEPT ![NewAddress] = {}]

-----------------------------------------------------------------------------
\* LSM::put: MemTable::put, then the check of the total size.

PutLock(t) ==
  /\ pc[t] = "put" /\ CanLock("cur")
  /\ lock' = Lock("cur", t)
  /\ table' = [table EXCEPT ![t] = current_table]
  /\ Goto(t, "put_insert")
  /\ UNCHANGED <<memory, ssts, item, got, known, history>>

\* Into a table that is no longer the active one the write may be lost.
PutInsert(t) ==
  /\ pc[t] = "put_insert"
  /\ \/ content' = [content EXCEPT ![table[t]] = @ \cup {item[t]}]
     \/ table[t] # current_table /\ UNCHANGED content
  /\ IF Cardinality(content'[current_table]) >= workload.table_limit
       THEN Goto(t, "put_freeze") /\ UNCHANGED lock
       ELSE Goto(t, "size_cur") /\ lock' = Unlock({"cur"}, t)
  /\ acked' = IF table[t] = current_table THEN acked \cup {item[t]} ELSE acked
  /\ UNCHANGED <<current_table, frozen_tables, frozen_bytes, ssts, locals, issued, missed>>

PutFreeze(t) ==
  /\ pc[t] = "put_freeze" /\ CanLock("frozen")
  /\ FreezeCurrent
  /\ lock' = Unlock({"cur"}, t)
  /\ Goto(t, "size_cur")
  /\ UNCHANGED <<ssts, locals, history>>

-----------------------------------------------------------------------------
\* get_total_size, called by LSM::put, by the loop of LSM::flush_all and by
\* LSMEngine::flush before it locks ssts_mtx.

SizeCur(t) ==
  /\ CanShare("cur")
  /\ \/ pc[t] = "size_cur" /\ Goto(t, "size_frozen")
     \/ pc[t] = "flush" /\ Goto(t, "flush_size")
  /\ lock' = Share("cur", t)
  /\ UNCHANGED <<memory, ssts, locals, history>>

TotalSize == (frozen_bytes + Cardinality(content[current_table])) % Word

\* Mutant: the loop of flush_all compares with >=.
FlushAlways(t) ==
  IF op[t] = "flush_all" THEN TotalSize >= 0 ELSE TotalSize >= workload.total_limit

\* Whether the caller goes on to flush.
FlushWanted(t) ==
  IF op[t] = "flush_all" THEN TotalSize > 0 ELSE TotalSize >= workload.total_limit

SizeFrozen(t) ==
  /\ pc[t] = "size_frozen" /\ CanShare("frozen")
  /\ lock' = Unlock({"cur"}, t)
  /\ IF FlushWanted(t) THEN Goto(t, "flush") ELSE Return(t)
  /\ UNCHANGED <<memory, ssts, locals, history>>

-----------------------------------------------------------------------------
\* LSMEngine::flush around MemTable::flush_last.

FlushReturns(t) == IF op[t] = "flush_all" THEN Goto(t, "size_cur") ELSE Return(t)

FlushSize(t) ==
  /\ pc[t] = "flush_size" /\ CanShare("frozen")
  /\ lock' = Unlock({"cur"}, t)
  /\ IF TotalSize = 0 THEN FlushReturns(t) ELSE Goto(t, "flush_lock")
  /\ UNCHANGED <<memory, ssts, locals, history>>

FlushLock(t) ==
  /\ pc[t] = "flush_lock" /\ CanLock("ssts")
  /\ lock' = Lock("ssts", t)
  /\ Goto(t, "flush_last")
  /\ UNCHANGED <<memory, ssts, locals, history>>

FlushNothing(t) ==
  /\ pc[t] = "flush_last" /\ CanLock("frozen")
  /\ frozen_tables = << >> /\ content[current_table] = {}
  /\ lock' = Unlock({"ssts"}, t)
  /\ FlushReturns(t)
  /\ UNCHANGED <<memory, ssts, locals, history>>

\* Without a frozen table the active one is frozen, under frozen_mtx alone.
FlushFreeze(t) ==
  /\ pc[t] = "flush_last" /\ CanLock("frozen")
  /\ \/ frozen_tables # << >> /\ UNCHANGED memory
     \/ frozen_tables = << >> /\ content[current_table] # {} /\ FreezeCurrent
  /\ lock' = Lock("frozen", t)
  /\ Goto(t, "flush_take")
  /\ UNCHANGED <<ssts, locals, history>>

\* Mutant: the size of the active table is taken off.
BytesWithoutCurrent(a) == (frozen_bytes - Cardinality(content[a] \cup content[current_table])) % Word

BytesWithout(a) == (frozen_bytes - Cardinality(content[a])) % Word

\* The oldest frozen table is taken out.
FlushTake(t) ==
  /\ pc[t] = "flush_take"
  /\ LET oldest == frozen_tables[Len(frozen_tables)]
     IN  /\ table' = [table EXCEPT ![t] = oldest]
         /\ frozen_bytes' = BytesWithout(oldest)
  /\ frozen_tables' = SubSeq(frozen_tables, 1, Len(frozen_tables) - 1)
  /\ Goto(t, "flush_build")
  /\ UNCHANGED <<lock, current_table, content, ssts, item, got, known, history>>

\* The table is read into an SST; the engine adds it to ssts and the table is
\* gone.  frozen_mtx is released before ssts_mtx, which no reader can tell.  For
\* an empty table the builder throws, out of flush_all too.
FlushBuild(t) ==
  /\ pc[t] = "flush_build"
  /\ ssts' = ssts \cup content[table[t]]
  /\ lock' = Unlock({"frozen", "ssts"}, t)
  /\ IF content[table[t]] = {} THEN Return(t) ELSE FlushReturns(t)
  /\ UNCHANGED <<memory, locals, history>>

-----------------------------------------------------------------------------
\* TranContext::commit of one write, of a level with or without conflict check.

CommitLockFrozen(t) ==
  /\ pc[t] = "commit" /\ CanLock("frozen")
  /\ lock' = Lock("frozen", t)
  /\ Goto(t, "commit_cur")
  /\ UNCHANGED <<memory, ssts, locals, history>>

\* Mutant: the active table is used without cur_mtx and frozen_mtx.
CommitUnlocked(t) ==
  /\ pc[t] = "commit_cur"
  /\ lock' = Unlock({"frozen"}, t)
  /\ table' = [table EXCEPT ![t] = current_table]
  /\ Goto(t, "commit_apply")
  /\ UNCHANGED <<memory, ssts, item, got, known, history>>

CommitLockCur(t) ==
  /\ pc[t] = "commit_cur" /\ CanLock("cur")
  /\ lock' = Lock("cur", t)
  /\ table' = [table EXCEPT ![t] = current_table]
  /\ Goto(t, IF op[t] = "commit_checked" THEN "commit_check" ELSE "commit_apply")
  /\ UNCHANGED <<memory, ssts, item, got, known, history>>

\* The shared lock on ssts_mtx is released at the end of the check.
CommitCheck(t) ==
  /\ pc[t] = "commit_check" /\ CanShare("ssts")
  /\ Goto(t, "commit_apply")
  /\ UNCHANGED <<lock, memory, ssts, locals, history>>

CommitApply(t) ==
  /\ pc[t] = "commit_apply"
  /\ content' = [content EXCEPT ![table[t]] = @ \cup {item[t]}]
  /\ acked' = acked \cup {item[t]}
  /\ lock' = Unlock({"cur", "frozen"}, t)
  /\ Return(t)
  /\ UNCHANGED <<current_table, frozen_tables, frozen_bytes, ssts, locals, issued, missed>>

-----------------------------------------------------------------------------
\* get_batch for every item: active table, frozen tables, then the SSTs.

GetLockCur(t) ==
  /\ pc[t] = "get" /\ CanShare("cur")
  /\ lock' = Share("cur", t)
  /\ table' = [table EXCEPT ![t] = current_table]
  /\ Goto(t, "get_cur")
  /\ UNCHANGED <<memory, ssts, item, got, known, history>>

GetReturns(t, found) ==
  /\ Return(t)
  /\ missed' = missed \cup (known[t] \ found)
  /\ got' = [got EXCEPT ![t] = {}] /\ known' = [known EXCEPT ![t] = {}]
  /\ UNCHANGED <<issued, acked>>

\* Mutant: the frozen tables are skipped once something was found.
GetCurEager(t) ==
  /\ pc[t] = "get_cur"
  /\ lock' = Unlock({"cur"}, t)
  /\ IF content[table[t]] # {} THEN GetReturns(t, content[table[t]])
     ELSE Goto(t, "get_frozen") /\ UNCHANGED <<got, known, history>>
  /\ UNCHANGED <<memory, ssts, table, item>>

\* cur_mtx is released before frozen_mtx is taken.  In a table that is no longer
\* the active one anything may be found.
GetCur(t) ==
  /\ pc[t] = "get_cur"
  /\ lock' = Unlock({"cur"}, t)
  /\ \E found \in SUBSET content[table[t]] :
       /\ table[t] = current_table => found = content[table[t]]
       /\ IF found = Items THEN GetReturns(t, found)
          ELSE /\ got' = [got EXCEPT ![t] = found]
               /\ Goto(t, "get_frozen")
               /\ UNCHANGED <<known, history>>
  /\ UNCHANGED <<memory, ssts, table, item>>

FrozenItems == UNION {content[a] : a \in Range(frozen_tables)}

GetFrozen(t) ==
  /\ pc[t] = "get_frozen" /\ CanShare("frozen")
  /\ got' = [got EXCEPT ![t] = @ \cup FrozenItems]
  /\ Goto(t, "get_sst")
  /\ UNCHANGED <<lock, memory, ssts, table, item, known, history>>

GetSst(t) ==
  /\ pc[t] = "get_sst" /\ CanShare("ssts")
  /\ GetReturns(t, got[t] \cup ssts)
  /\ UNCHANGED <<lock, memory, ssts, table, item>>

-----------------------------------------------------------------------------
\* LSMEngine::clear around MemTable::clear.

ClearLockCur(t) ==
  /\ pc[t] = "clear" /\ CanLock("cur")
  /\ lock' = Lock("cur", t)
  /\ Goto(t, "clear_frozen")
  /\ UNCHANGED <<memory, ssts, locals, history>>

ClearTables(t) ==
  /\ pc[t] = "clear_frozen" /\ CanLock("frozen")
  /\ frozen_tables' = << >>
  /\ content' = [content EXCEPT ![current_table] = {}]
  /\ acked' = {}
  /\ known' = [u \in Threads |-> {}]
  /\ lock' = Unlock({"cur"}, t)
  /\ Goto(t, "clear_ssts")
  /\ UNCHANGED <<current_table, frozen_bytes, ssts, table, item, got, issued, missed>>

\* Without ssts_mtx: what was flushed since the tables were emptied goes too.
ClearSsts(t) ==
  /\ pc[t] = "clear_ssts"
  /\ ssts' = {}
  /\ acked' = {}
  /\ known' = [u \in Threads |-> {}]
  /\ Return(t)
  /\ UNCHANGED <<lock, memory, table, item, got, issued, missed>>

-----------------------------------------------------------------------------
FirstStep(call) ==
  CASE call = "flush_all" -> "size_cur"
    [] call \in {"commit", "commit_checked"} -> "commit"
    [] OTHER -> call

Writes == {"put", "commit", "commit_checked"}

Start(t) ==
  /\ t \in DOMAIN workload.ops
  /\ pc[t] = "idle"
  /\ \E call \in workload.ops[t] :
       /\ op' = [op EXCEPT ![t] = call]
       /\ pc' = [pc EXCEPT ![t] = FirstStep(call)]
       /\ IF call \in Writes
            THEN \E i \in Items \ issued :
                   item' = [item EXCEPT ![t] = i] /\ issued' = issued \cup {i}
            ELSE UNCHANGED <<item, issued>>
       /\ known' = [known EXCEPT ![t] = IF call = "get" THEN acked ELSE {}]
  /\ UNCHANGED <<workload, lock, memory, ssts, table, got, acked, missed>>

Step(t) ==
  /\ UNCHANGED workload
  /\ \/ PutLock(t) \/ PutInsert(t) \/ PutFreeze(t)
     \/ SizeCur(t) \/ SizeFrozen(t)
     \/ FlushSize(t) \/ FlushLock(t) \/ FlushNothing(t)
     \/ FlushFreeze(t) \/ FlushTake(t) \/ FlushBuild(t)
     \/ CommitLockFrozen(t) \/ CommitLockCur(t) \/ CommitCheck(t) \/ CommitApply(t)
     \/ GetLockCur(t) \/ GetCur(t) \/ GetFrozen(t) \/ GetSst(t)
     \/ ClearLockCur(t) \/ ClearTables(t) \/ ClearSsts(t)

Init ==
  /\ workload \in Workloads
  /\ lock = [m \in Mutexes |-> [x |-> {}, s |-> {}]]
  /\ current_table = 1 /\ frozen_tables = << >> /\ frozen_bytes = 0
  /\ content = [a \in Addresses |-> {}]
  /\ ssts = {}
  /\ op = [t \in Threads |-> "none"] /\ pc = [t \in Threads |-> "idle"]
  /\ table = [t \in Threads |-> 1]
  /\ item = [t \in Threads |-> CHOOSE i \in Items : TRUE]
  /\ got = [t \in Threads |-> {}] /\ known = [t \in Threads |-> {}]
  /\ issued = {} /\ acked = {} /\ missed = {}

Next == \E t \in Threads : Start(t) \/ Step(t)

\* A thread inside a call that can go on is scheduled.
Spec == Init /\ [][Next]_vars /\ \A t \in Threads : WF_vars(Step(t))

-----------------------------------------------------------------------------
\* flush_last reads the size of the active table when it freezes it and again when it
\* takes it out; a put of another thread that still uses the table makes it larger in
\* between.  In a disciplined workload no thread that flushes, in a put that reaches
\* the total limit too, runs beside another one that puts.
Flushers(w) ==
  {t \in DOMAIN w.ops :
     \/ w.ops[t] \cap {"flush", "flush_all"} # {}
     \/ "put" \in w.ops[t] /\ w.total_limit <= Cardinality(Items)}

Disciplined(w) ==
  \A t \in Flushers(w), u \in DOMAIN w.ops : t # u => "put" \notin w.ops[u]

-----------------------------------------------------------------------------
\* Properties.

BeingFlushed == {table[t] : t \in {u \in Threads : pc[u] = "flush_build"}}

\* What a commit wrote, or a put into the table that was still the active one, is in the
\* active table, in a frozen table, in the table being flushed, or in an SST: neither
\* flush_last, which replaces current_table beside puts and gets, nor a freeze drops it.
AckedKept ==
  acked \subseteq content[current_table] \cup FrozenItems \cup ssts
                    \cup UNION {content[a] : a \in BeingFlushed}

\* A thread that still uses the active table through a pointer it loaded finds the
\* table alive: the locks of MemTable keep flush_last, which frees the table it
\* flushed, from running in between.
UsedTablesAlive ==
  \A t \in Threads :
    pc[t] \in {"put_insert", "get_cur", "commit_apply"} =>
      table[t] \in {current_table} \cup Range(frozen_tables) \cup BeingFlushed

\* A read finds every item that was acknowledged when the read began, although it
\* lets go of cur_mtx before it takes frozen_mtx, a put may freeze the active table in
\* between, and a flush may replace and free the table while it reads it.
ReadersMissNothing == missed = {}

\* The items of the frozen tables, once for every table.
FrozenPairs == {p \in Range(frozen_tables) \X Items : p[2] \in content[p[1]]}

\* In a disciplined workload, outside the critical sections, frozen_bytes is at least the
\* size of the frozen tables (more only after clear, which does not reset it), and at
\* most what was ever written, as it does not wrap around below zero: get_total_size
\* never calls a memtable empty that is not, and flush_all returns only when everything
\* is in SSTs.
FrozenBytesCovered ==
  Disciplined(workload) /\ CanShare("frozen") =>
    /\ frozen_bytes >= Cardinality(FrozenPairs)
    /\ frozen_bytes <= Cardinality(issued)

\* Some thread inside a call can always go on: the calls do not wait for each
\* other in a circle.
NoDeadlock ==
  (\E t \in Threads : pc[t] # "idle") => \E t \in Threads : ENABLED Step(t)

\* frozen_bytes counts tables that are gone.
BytesLeftBehind == CanLock("frozen") /\ frozen_bytes > Cardinality(FrozenPairs)

\* flush_all, which ~LSM calls, returns in a disciplined workload, also beside readers,
\* unless frozen_bytes counts tables that a clear has dropped.
FlushAllEnds ==
  \A t \in Threads :
    op[t] = "flush_all" /\ Disciplined(workload) ~> op[t] # "flush_all" \/ BytesLeftBehind
===============================================================================
