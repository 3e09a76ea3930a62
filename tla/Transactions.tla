---------------------------- MODULE Transactions ----------------------------
(***************************************************************************)
(* TranContext (src/src/lsm/transation.cpp): what transactions at the four *)
(* isolation levels read and write, over the versions the engine stores.   *)
(* READ_UNCOMMITTED ("RU") writes through and remembers what to roll back; *)
(* READ_COMMITTED ("RC"), REPEATABLE_READ ("RR") and SERIALIZABLE ("SER")  *)
(* buffer their writes until commit; RR and SER also keep what they read   *)
(* and check for conflicts at commit.                                      *)
(*                                                                         *)
(* A context is not used after it has committed or aborted.  The engine's  *)
(* get, put, remove, sst_get_ and flush have no body in the repository and *)
(* are modelled from how the code here uses them.                          *)
(***************************************************************************)
EXTENDS Integers, Sequences, FiniteSets, FiniteSetsExt

CONSTANTS Keys, Values,
          Deleted,        \* the empty value, a tombstone
          None,           \* std::nullopt, and a key that is in no map
          Mixes,          \* the writers that may meet, isolation levels and "plain"
                          \*   for LSM::put and LSM::remove, and the keys they use
          MaxId,          \* bound on ids
          MaxWrites       \* bound on writes of one key by one transaction

ASSUME TransactionParameters ==
  /\ Mixes \subseteq [writers : SUBSET {"RU", "RC", "RR", "SER", "plain"},
                      keys : SUBSET Keys]
  /\ MaxId \in Nat /\ MaxWrites \in Nat
  /\ Deleted \notin Values

Ids == 1..MaxId
Stored == Values \cup {Deleted}

ASSUME NoneIsNoRecord == None \notin [value : Stored, tranc_id : Ids]

VARIABLES
  mix,          \* the writers and the keys of this behaviour
  next_id,      \* nextTransactionId_
  mem,          \* mem[key]: versions of key in the memtable, newest first
  sst,          \* sst[key]: versions of key in SSTs, newest first
  marks,        \* ids whose commit marker is in the memtable
  max_flushed,  \* get_max_flushed_tranc_id()
  ctx,          \* ctx[t]: the TranContext with id t
  \* History variables:
  plain,        \* ids of plain writes
  saved         \* saved[t][key]: what get(key, 0) gave before t wrote key, as
                \*   <<answer>>; << >> unless t has written key once and no other
                \*   writer has written it since

vars == <<mix, next_id, mem, sst, marks, max_flushed, ctx, plain, saved>>
engine == <<mem, sst, marks, max_flushed>>

NoContext ==
  [state |-> "none", level |-> "RC",
   temp     |-> [key \in Keys |-> None],      \* temp_map_
   reads    |-> [key \in Keys |-> << >>],     \* read_map_: <<answer>> once read
   rollback |-> [key \in Keys |-> << >>],     \* rollback_map_: <<answer>>
   writes   |-> [key \in Keys |-> 0]]

-----------------------------------------------------------------------------
\* External: the engine.

Version(value, t) == [value |-> value, tranc_id |-> t]

Visible(version, t) == t = 0 \/ version.tranc_id <= t

\* The newest version of key that t may see, tombstones included.
Newest(versions, t) ==
  LET seen == {i \in DOMAIN versions : Visible(versions[i], t)}
  IN  IF seen = {} THEN None ELSE versions[Min(seen)]

\* A deleted key has no record.
Record(version) ==
  IF version = None THEN None ELSE IF version.value = Deleted THEN None ELSE version

\* The version that get finds: the leading one of the memtable if t may see it
\* (SkipList::get looks at no other), and otherwise the newest one of the SSTs.
Found(key, t) ==
  IF mem[key] # << >> /\ Visible(mem[key][1], t) THEN mem[key][1] ELSE Newest(sst[key], t)

\* Mutant: a tombstone is handed out as a record.
EngineGetTombstone(key, t) == Found(key, t)

EngineGet(key, t) == Record(Found(key, t))

\* sst_get_: a key whose newest version is a tombstone has no record either.
SstGet(key) == Record(Newest(sst[key], 0))

\* The table overwrites the leading version of the same writer (SkipList::put).
Prepend(versions, version) ==
  IF versions # << >> /\ versions[1].tranc_id = version.tranc_id
    THEN <<version>> \o Tail(versions)
    ELSE <<version>> \o versions

EnginePut(key, version) == mem' = [mem EXCEPT ![key] = Prepend(@, version)]

\* Writers other than t have touched the keys in touched.
Disturb(t, touched) ==
  [s \in Ids |-> [key \in Keys |->
     IF s # t /\ key \in touched THEN << >> ELSE saved[s][key]]]

-----------------------------------------------------------------------------
Init ==
  /\ mix \in Mixes
  /\ next_id = 1
  /\ mem = [key \in Keys |-> << >>]
  /\ sst = [key \in Keys |-> << >>]
  /\ marks = {}
  /\ max_flushed = 0
  /\ ctx = [t \in Ids |-> NoContext]
  /\ plain = {}
  /\ saved = [t \in Ids |-> [key \in Keys |-> << >>]]

\* LSM::begin_tran
Begin(level) ==
  /\ next_id \in Ids
  /\ next_id' = next_id + 1
  /\ ctx' = [ctx EXCEPT ![next_id] = [NoContext EXCEPT !.state = "active", !.level = level]]
  /\ UNCHANGED <<mix, engine, plain, saved>>

\* LSM::put and LSM::remove
PlainWrite(key, value) ==
  /\ "plain" \in mix.writers /\ next_id \in Ids
  /\ next_id' = next_id + 1
  /\ EnginePut(key, Version(value, next_id))
  /\ plain' = plain \cup {next_id}
  /\ saved' = Disturb(next_id, {key})
  /\ UNCHANGED <<mix, sst, marks, max_flushed, ctx>>

\* TranContext::put, and remove with the empty value, at READ_UNCOMMITTED: the
\* record to roll back to is read again before every write.
WriteThrough(t, key, value) ==
  /\ ctx[t].state = "active" /\ ctx[t].level = "RU"
  /\ ctx[t].writes[key] < MaxWrites
  /\ ctx' = [ctx EXCEPT ![t].rollback[key] = <<EngineGet(key, 0)>>,
                        ![t].writes[key] = @ + 1]
  /\ EnginePut(key, Version(value, t))
  /\ saved' = [Disturb(t, {key}) EXCEPT ![t][key] =
                 IF ctx[t].writes[key] = 0 THEN <<EngineGet(key, 0)>> ELSE << >>]
  /\ UNCHANGED <<mix, next_id, sst, marks, max_flushed, plain>>

\* Mutant: the buffered levels write through as well.
WriteBoth(t, key, value) ==
  /\ ctx[t].state = "active" /\ ctx[t].level # "RU"
  /\ ctx[t].writes[key] < MaxWrites
  /\ ctx' = [ctx EXCEPT ![t].temp[key] = value, ![t].writes[key] = @ + 1]
  /\ EnginePut(key, Version(value, t))
  /\ UNCHANGED <<mix, next_id, sst, marks, max_flushed, plain, saved>>

WriteBuffered(t, key, value) ==
  /\ ctx[t].state = "active" /\ ctx[t].level # "RU"
  /\ ctx[t].writes[key] < MaxWrites
  /\ ctx' = [ctx EXCEPT ![t].temp[key] = value, ![t].writes[key] = @ + 1]
  /\ UNCHANGED <<mix, next_id, engine, plain, saved>>

\* Mutant: read_map_ is filled but not consulted.
AnswerUnstable(t, key) ==
  IF ctx[t].temp[key] # None THEN ctx[t].temp[key]
  ELSE EngineGet(key, IF ctx[t].level = "RU" THEN 0 ELSE t)

\* What TranContext::get answers: a value of its own, or the engine's record.
Answer(t, key) ==
  IF ctx[t].temp[key] # None THEN ctx[t].temp[key]
  ELSE IF ctx[t].reads[key] # << >> THEN ctx[t].reads[key][1]
  ELSE EngineGet(key, IF ctx[t].level = "RU" THEN 0 ELSE t)

\* TranContext::get changes state only where it fills read_map_.
Read(t, key) ==
  /\ ctx[t].state = "active" /\ ctx[t].level \in {"RR", "SER"}
  /\ ctx[t].temp[key] = None /\ ctx[t].reads[key] = << >>
  /\ ctx' = [ctx EXCEPT ![t].reads[key] = <<EngineGet(key, t)>>]
  /\ UNCHANGED <<mix, next_id, engine, plain, saved>>

-----------------------------------------------------------------------------
\* The context of a finished transaction is never used again.
Close(t, state) == ctx' = [ctx EXCEPT ![t] = [NoContext EXCEPT !.state = state]]

NewerThan(v, t) == v # None /\ v.tranc_id > t

\* Mutant: the SSTs are not looked up.
ConflictInMemory(t, key) == NewerThan(Newest(mem[key], 0), t)

\* The conflict test of commit for one key of temp_map_: the memtable, then the
\* SSTs unless every transaction recorded as flushed is older.  A deletion is seen
\* in the memtable and not in the SSTs.
Conflict(t, key) ==
  \/ NewerThan(Newest(mem[key], 0), t)
  \/ max_flushed > t /\ NewerThan(SstGet(key), t)

Written(t) == {key \in Keys : ctx[t].temp[key] # None}

Conflicts(t) ==
  ctx[t].level \in {"RR", "SER"} /\ \E key \in Written(t) : Conflict(t, key)

CommitRU(t) ==
  /\ ctx[t].state = "active" /\ ctx[t].level = "RU"
  /\ marks' = marks \cup {t}
  /\ Close(t, "committed")
  /\ UNCHANGED <<mix, next_id, mem, sst, max_flushed, plain, saved>>

\* Commit at the buffering levels runs under the memtable's locks.
Commit(t) ==
  /\ ctx[t].state = "active" /\ ctx[t].level # "RU"
  /\ ~ Conflicts(t)
  /\ mem' = [key \in Keys |->
       IF key \in Written(t) THEN Prepend(mem[key], Version(ctx[t].temp[key], t))
                             ELSE mem[key]]
  /\ marks' = marks \cup {t}
  /\ Close(t, "committed")
  /\ saved' = Disturb(t, Written(t))
  /\ UNCHANGED <<mix, next_id, sst, max_flushed, plain>>

CommitRefused(t) ==
  /\ ctx[t].state = "active" /\ ctx[t].level # "RU"
  /\ Conflicts(t)
  /\ Close(t, "aborted")
  /\ UNCHANGED <<mix, next_id, engine, plain, saved>>

AbortBuffered(t) ==
  /\ ctx[t].state = "active" /\ ctx[t].level # "RU"
  /\ Close(t, "aborted")
  /\ UNCHANGED <<mix, next_id, engine, plain, saved>>

\* Mutant: a key that did not exist before is not removed.
RollbackPutOnly(t, key) ==
  IF ctx[t].rollback[key] = << >> \/ ctx[t].rollback[key][1] = None THEN mem[key]
  ELSE Prepend(mem[key], ctx[t].rollback[key][1])

\* The old record goes back under its old id, or the key is removed.
Rollback(t, key) ==
  IF ctx[t].rollback[key] = << >> THEN mem[key]
  ELSE Prepend(mem[key],
         IF ctx[t].rollback[key][1] = None THEN Version(Deleted, t)
                                          ELSE ctx[t].rollback[key][1])

AbortRU(t) ==
  /\ ctx[t].state = "active" /\ ctx[t].level = "RU"
  /\ mem' = [key \in Keys |-> Rollback(t, key)]
  /\ Close(t, "aborted")
  /\ saved' = Disturb(t, {key \in Keys : ctx[t].rollback[key] # << >>})
  /\ UNCHANGED <<mix, next_id, sst, marks, max_flushed, plain>>

\* External: the memtable becomes an SST; its markers reach the manager.
Flush ==
  /\ \E key \in Keys : mem[key] # << >>
  /\ sst' = [key \in Keys |-> mem[key] \o sst[key]]
  /\ mem' = [key \in Keys |-> << >>]
  /\ max_flushed' = CHOOSE m \in marks \cup {max_flushed} :
                      \A n \in marks \cup {max_flushed} : m >= n
  /\ marks' = {}
  /\ UNCHANGED <<mix, next_id, ctx, plain, saved>>

Next ==
  \/ \E level \in mix.writers \ {"plain"} : Begin(level)
  \/ \E key \in mix.keys, value \in Stored : PlainWrite(key, value)
  \/ \E t \in Ids, key \in mix.keys :
       \/ Read(t, key)
       \/ \E value \in Stored : WriteThrough(t, key, value) \/ WriteBuffered(t, key, value)
  \/ \E t \in Ids : \/ CommitRU(t) \/ Commit(t) \/ CommitRefused(t)
                    \/ AbortBuffered(t) \/ AbortRU(t)
  \/ Flush

Spec == Init /\ [][Next]_vars

-----------------------------------------------------------------------------
\* Properties.

Active(t) == ctx[t].state = "active"

\* While transactions only use the buffering levels, every stored version was
\* written by a committed transaction or by a plain write: nobody reads
\* uncommitted or aborted data (put and remove only fill temp_map_).
OnlyCommittedStored ==
  "RU" \notin mix.writers => \A key \in Keys : \A i \in DOMAIN (mem[key] \o sst[key]) :
    LET t == (mem[key] \o sst[key])[i].tranc_id
    IN  ctx[t].state = "committed" \/ t \in plain

\* Once a REPEATABLE_READ or SERIALIZABLE transaction has read a key it gets
\* the same answer until it writes the key itself, whatever other transactions
\* commit, roll back or flush in between.
RepeatableReads ==
  [][\A t \in Ids, key \in Keys :
       /\ Active(t) /\ Active(t)'
       /\ ctx[t].reads[key] # << >>
       /\ ctx'[t].temp[key] = ctx[t].temp[key]
       => Answer(t, key)' = Answer(t, key)]_vars

\* When all writers check for conflicts, an older transaction's version of a key
\* comes to stand before a newer one's only past a flushed deletion: commit refuses
\* a REPEATABLE_READ or SERIALIZABLE transaction whenever a later transaction has
\* already committed a write of one of its keys, in the memtable or in an SST,
\* unless what the SSTs hold of the key ends with a deletion, which sst_get_ hides.
VersionsInIdOrder ==
  mix.writers \subseteq {"RR", "SER"} => \A key \in Keys :
    LET versions == mem[key] \o sst[key]
    IN  \A i, j \in DOMAIN versions : i < j =>
          \/ versions[i].tranc_id > versions[j].tranc_id
          \/ \E m \in (i + 1)..j : /\ Len(mem[key]) < m /\ versions[m].value = Deleted
                                   /\ versions[m].tranc_id >= versions[j].tranc_id

ValueOf(answer) == IF answer = None THEN None ELSE answer.value

\* After a READ_UNCOMMITTED transaction has aborted, get answers for every key
\* the transaction wrote once, and no one else has written meanwhile, what it
\* answered before that write: abort puts rollback_map_ back, over flushes and
\* the conflict checks of others.
AbortRestores ==
  \A t \in Ids, key \in Keys :
    ctx[t].state = "aborted" /\ saved[t][key] # << >>
      => ValueOf(EngineGet(key, 0)) = ValueOf(saved[t][key][1])
=============================================================================
