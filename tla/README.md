# Tiny-LSM in TLA+

TLA+ modules, TLC models and TLAPS proofs for Tiny-LSM: an LSM-tree storage
engine in C++ (`src/src`, headers in `src/include`) with transactions, a
write-ahead log, a Redis layer on top (`src/src/redis_wrapper`) and a server that
speaks the Redis protocol (`src/server`). Paths below are relative to the
repository with the prefix `src/` that `PROJECT.json` uses. Every definition that
models code is listed with its lines under `map` in `PROJECT.json`.

The repository is the laboratory version of the system: a number of functions have
a signature, callers and a comment on what to do, and no body (`LSMEngine::put`,
`flush` and compaction, `MemTable::put`, the WAL's `log` and `recover`, most of
`Block` and `SST`). Where a module needs one of them it is modelled from how the
code that exists uses it, and marked *external* in the module and in the map.

## 1. Inventory

| Component | State | Operations | Works with |
|---|---|---|---|
| Block cache (`block/block_cache.cpp`) | map from (sst, block) to list items, two lists (fewer than k and at least k uses), hit counters | `get`, `put` | called by SST readers, own mutex |
| Skip list (`skiplist/skipList.cpp`) | nodes with forward and backward pointers per level, `current_level`, `size_bytes` | `put`, `get`, `remove`, `clear`, `flush`, iterators | owned by the memtable, which locks |
| Memtable (`memtable/memtable.cpp`) | active table, frozen tables, `frozen_bytes`, `cur_mtx`, `frozen_mtx` | put, get, batches, `clear`, `flush_last`, `frozen_cur_table`, sizes | engine, transactions |
| Transaction manager (`lsm/transation.cpp`) | next id, ready and flushed ids, the `tranc_id` file, WAL | `getNextTransactionId`, `add_ready_to_flush_tranc_id`, `add_flushed_tranc_id`, `check_recover`, `init_new_wal`, reading and writing the file | engine reports flushed ids, contexts report outcomes |
| Transaction contexts (`lsm/transation.cpp`) | `temp_map_`, `read_map_`, `rollback_map_`, the operations to log | `put`, `get`, `remove`, `commit`, `abort` on four isolation levels | memtable (under its locks), engine, WAL |
| LSM engine (`lsm/engine.cpp`) | memtable, SSTs by level, `ssts_mtx` | `LSM::get`, `put`, `remove`, batches, `begin_tran`, `flush`, `flush_all`, `clear`, destructor | everything below |
| Iterators (`iterator`, `sst`, `block`, `lsm/level_iterator.cpp`, `two_merge_iterator.cpp`) | positions, heaps, cached entries | construction, `++`, comparison | scans, compaction, Redis prefix queries |
| Blocks, SST files, value log | encoded data, metadata | build, decode, search | files, Bloom filter, block cache |
| Bloom filter (`utils/bloom_filter.cpp`) | bits, numbers of bits and hashes | `add`, `possibly_contains`, `encode`, `decode` | part of an SST file, asked before a block is read |
| WAL (`wal/`) | numbered files, the active one, checkpoint, cleaner thread | `log`, `recover`, `reset_file`, `set_checkpoint_tranc_id`, `cleanWALFile`; encoding of records | transaction manager |
| Files (`utils/files.cpp`, `std_file.cpp`) | stream and its buffer | `write` at an offset, `sync`, reads of numbers | WAL, SSTs, `tranc_id` file |
| Redis commands (`redis_wrapper.cpp`) | LSM keys of a value's parts, expire keys, `redis_mtx` | strings, lists, hashes, sets, sorted sets, expiry | LSM `get`, `put`, `remove`, batches |
| Redis server (`server/src`) | one session per connection, its buffer | read, dispatch, write | Redis commands |
| Configuration, logging, SDK, memory-mapped files | – | pure functions and I/O | – |

What is hard to get right, component by component (`hazards` in `PROJECT.json` has
the list with lines):

- **Concurrency.** The memtable has two locks, the engine a third, and callers
  take them in several orders; pointers to the active table are loaded under one
  lock while `flush_last` replaces the table under another. The Redis commands
  read the expire key under a shared lock, let it go and take the lock again.
- **Failure.** A commit is durable once its log record is synced; data reaches SSTs
  later and in the order of tables, not of ids; the record of what has reached
  them is kept in memory and written at shutdown. The log's cleaner lists, reads and
  deletes files beside the writers, with the mutex held only to read a path; a crash
  may cut a write of the log anywhere; the `tranc_id` file is overwritten in place.
- **Ordering.** Versions are in the order of ids only if conflict checks work;
  merging iterators must choose the newest visible version over several sources;
  pipelined requests must be answered in order.
- **Structure.** The skip list's levels and back links, the cache's two lists and
  the several LSM keys of a Redis value are redundant and must stay in step.
- **Boundaries.** `size_t` counters that go down, index arithmetic of ranges with
  negative numbers, first and last blocks of a scan, ranges that end with a block,
  lengths of 16 bits, bits that fill no byte.

What makes each correct: the cache is an LRU-K cache within its capacity; the skip
list is a sorted table of versions; nothing written disappears from the memtable
except into an SST or by a clear, and its calls do not wait for each other in a
circle (they do, section 3); the checkpoint never passes unflushed data and recovery brings every commit
back; isolation levels keep what their names say; scans deliver the newest visible
versions in order and no others; what was synced to the log and is not flushed stays
there and comes back; what comes back from a file is what was written; a Bloom filter
never denies a stored key; the keys of a Redis value stay in step; requests of a session
are executed and answered once and in order.

## 2. Modules

| Module | Models | Shown to implement |
|---|---|---|
| `BlockCache` | `BlockCache::get`, `put`, `update_access_count` | `LRUKCache` |
| `SkipList` | `SkipList::put`, `get`, `remove`, `clear`, `flush` | `VersionTable` |
| `TranManager` | ids, checkpoint, log, crash, replay, reopening | – |
| `Transactions` | `TranContext` on all isolation levels over versioned data | – |
| `MemTable` | locks and tables shared by threads | – |
| `SstScan`, `SstSearch`, `HeapIterator`, `TwoMergeIterator`, `LevelIterator` | the iterators: scan of a level's SSTs, search of an SST with a predicate, merge of versions, merge of two iterators, scan of the database | – |
| `ReadPath` | `BlockCache` and the five iterators: the read path below the engine | – |
| `WalRecord`, `Wal` | records of the log and their encoding; files, writers, cleaner, crash and recovery | – |
| `TrancIdFile` | the `tranc_id` file on top of `FileObj` and `StdFile` | – |
| `BlockMeta`, `BloomFilter` | the sections of an SST file whose code is there | – |
| `Disk` | `Wal`, `TrancIdFile`, `BlockMeta` and `BloomFilter`: what comes back from files | – |
| `RedisExpiry`, `RedisRange` | deadlines and lock upgrades; range arithmetic, common to the next | |
| `RedisString`, `RedisList`, `RedisHash`, `RedisSet`, `RedisZSet` | the commands of a kind; composed by `RedisWrapper` | – |
| `RedisServer` | sessions over byte streams | – |
| `TranManagerProofs`, `TransactionsProofs`, `MemTableProofs`, `BlockCacheProofs`, `SkipListProofs`, `ReadPathProofs`, `DiskProofs` | theorems about the module of that name (section 4) | |
| `RedisProofs` | theorems about `RedisWrapper` and `RedisServer` | |

`LRUKCache` and `VersionTable` are abstract specifications: what
the component promises, without its representation. The `MC*` modules give
constants their values. In the modules an operator whose comment begins with
"Mutant" is a plausible mistake in the definition that follows it; `PROJECT.json`
says which property notices it.

How state and actions correspond to the code:

- **BlockCache.** The map and both lists are variables; a list is a sequence of
  items with key, block and access count. Each call runs under `mutex_`, so it is
  one action. `LRUKCache` has only the cached keys with the history of their uses.
- **SkipList.** `node[n]` is the node at address n with all its pointers, the tower
  height is a nondeterministic input (`random_level`). A walk on a level is a recursive
  function on the nodes that reach it (`NodesAt`), `flush` follows the bottom level
  (`Chain`). A string is its length.
  `size_bytes` is kept modulo a word size, as `size_t`. The history variable `call`
  names the last call, so that the refinement compares call by call.
- **TranManager.** Transactions are numbers of writes; the memtables a queue of
  numbered tables; a write is placed in a table and is in an SST once that table was
  flushed. Actions: both constructors, the manager's calls, writes of both kinds of
  levels, `commit` in two steps (at the buffering levels the log, then the writes, with
  both locks held from the first to the second, so that nobody else uses the memtable; at
  READ_UNCOMMITTED, which takes no lock, the marker, then the registration), `commit(true)`,
  by which tests simulate a crash behind the log write, `abort`, freezing, flushing, the report
  of each flushed id, shutdown, with transactions open or not, and crash.
- **Transactions.** Versions of each key, newest first, in memtable and SSTs; a
  context has its level, buffered writes, kept reads and rollback records. `EngineGet` looks
  at the leading version of the memtable alone, as `SkipList::get` does, and gives nothing for a
  deletion; nor does `SstGet`, by which the conflict check looks at the SSTs. The history
  variable `saved` has, for each transaction and key written once and left alone by
  others, what `get` gave before. Recovery is left to `TranManager`.
- **MemTable.** A program counter per thread; a step is an acquisition of a lock or
  a use of a table through a loaded pointer. Addresses of freed tables are reused
  only when no thread holds them, so use after free is visible as a table that is
  neither active, frozen nor being flushed; what a put writes into such a table may be
  lost, and a get may find anything there. `LSMEngine::flush` looks at the size of the memtable,
  which takes its two locks, before it locks `ssts_mtx`. A workload says which thread makes which
  calls; it is `Disciplined` if no put runs beside a thread that flushes.
- **ReadPath.** `ReadInit` chooses the cache, or a database and an iterator; the
  following steps use the cache or are one scan of the database. What does not run has
  the value `Unused`. `TwoMergeIterator` takes what its two iterators deliver as sequences.
  `SstSearch` is `sst_iters_monotony_predicate` and the loop from the first of its
  iterators to the second. `LevelIterator` takes the sources as the other iterators deliver
  them: from the heaps of memtable and level 0 without deletions and commit markers, from deeper
  levels with both; and a scan of SSTs within a transaction may miss any versions (`lost`), as
  `SstIterator` ends at a block without a visible entry.
- **Wal.** A file is the sequence of its records, and `Cells` its encoding: a number
  of fixed width is one cell, a byte of a key or value is one cell. `log` holds
  `mutex_` while it writes, syncs and rolls the file over, in three steps; each
  iteration of `cleanWALFile`'s loops is a step without the mutex, over the listed files
  in the order of their numbers (`unread` has those it has not read through). `recover` is a
  function of what is on disk, with any part of the unsynced write, so that a crash in
  every state is covered without a step of its own; `init_new_wal` is the start after
  it. `log`, `recover`, the constructor and the cleaner's loop have no body and are
  external. `log`'s guard, that a transaction is above the checkpoint, is
  what `TranManager` guarantees by `LogAboveWalCheckpoint`, a theorem; no code moves the
  checkpoint of a running log.
- **TrancIdFile.** The file as a sequence of 64-bit cells and the stream's buffer. The
  contents of `flushedTrancIds_` are arbitrary, as short or long as the bound allows.
- **BlockMeta, BloomFilter.** Encoding and decoding as functions, with arbitrary hash
  functions for the filter and some function of the hashed cells for the index.
  Widths are kept: lengths and offsets are modulo `LenLimit`, `OffsetLimit` and
  `KeyLimit`, hashes modulo `HashLimit` and `Word`. A byte of the filter is the set of its one bits.
- **Redis.** One key, its expire key and the keys of its parts, a clock, and for each
  client where it stands between the critical sections of its command, and what it
  answered. The engine's deletion of a value that is set to the empty string is modelled. History variables note what the
  commands themselves do to a value: `blank` the fields whose last HSET gave them the
  empty value, `miscounted` that an argument was counted twice or that DEL has left members,
  `unpaired` that a ZADD has changed a score or given two elements the same. A loop over
  the arguments of HSET, SADD, SREM, ZADD and ZREM is modelled by what it leaves behind:
  the last pair that names a field decides, a field that is new is listed once, where
  it is first named.
- **RedisServer.** The stream of a client is cut into half lines; a place `<<i, k>>` is
  behind k halves of request i, and a session moves from place to place as
  `std::getline` and the argument loop do. The argument counts that
  each handler accepts are those of `handler.cpp`. Requests are cut by TCP and by
  `async_read_until`. `running` turns false when an exception leaves `io_context::run`: one of
  `std::stoi` and `stoll` in the wrapper, or of `remote_endpoint` on a reset connection.

## 3. Runs

TLC with `tlc -config <run>.cfg <module>`; the module is `PROJECT.json`'s.

| Run | Instance | Shows |
|---|---|---|
| `MCReadPath` | cache: 3 keys, capacity 2, k = 3; scans: 4 keys × 2 versions over 2 SSTs × 3 blocks, searches of 3 keys × 2 versions in an SST, heaps of 2 × 2 over 2 tables, merges of 3 × 2 in two iterators, databases of 2 × 2 over 4 sources, with commit markers in the deeper ones and any loss in scans of SSTs within a transaction | the cache's map and lists stay one structure, its contents and evictions are LRU-K's (`ImplementsLRUK`); only wanted entries, in ascending order, none missing where the code misses none |
| `MCSkipList` | 2 keys, 2 ids, 2 levels, 3 nodes | every level links the nodes that reach it, none of them above `current_level` even after `clear`, back links invert forward links, a search without a transaction finds the version written last, every call has the effect of `VersionTable` |
| `MCTranManager` | 2 ids, 2 writes, 3 tables, 1 crash, both kinds of levels | the checkpoint never passes unflushed data and never retreats; no commit is lost by one crash, also between the log and the memtable; a flushed marker is recorded; what is logged is above the WAL's first checkpoint |
| `MCTransactions` | 3 ids, mixes of writers over 1 or 2 keys | nothing of an open buffering transaction is stored; with conflict checks versions are in the order of ids, but for writes past a flushed deletion; abort restores; repeatable reads repeat |
| `MCMemTable` | 3 threads, 3 items, four workloads, one with puts and gets beside a flush | no acknowledged write is dropped and no reader misses one, whatever the threads do; `frozen_bytes` stays right and `flush_all` returns where no put runs beside a flush |
| `MCDisk` | log: 3 transactions, files full after one or two of them; ids below 3; indexes of up to 2 blocks, offsets and keys within and beyond their widths; filters of 2 keys, 3 to 5 bits of 2-bit bytes, all hash functions into {0, 3, 7} | the cleaner never deletes what recovery needs; recovery returns what was synced, whatever a crash cut; the `tranc_id` file reads back; an index reads back, cut to its widths; no false negatives |
| `MCRedis` | two threads on each kind with up to two parts, TTL 0, clock to 2; one client pipelining served, refused and one-line requests, one whose requests arrive in pieces | field list and fields agree, a set's size is the number of its members, element and score keys come in pairs, ranges are exact; replies in order and complete, nothing executed twice or out of order, everybody answered unless the server ends |
| `MCTranManagerTwoCrashes` | 2 ids, 2 crashes | **violation**: a commit is lost |
| `MCMemTableLocks` | a commit and a `flush_all` | **violation**: deadlock |
| `MCMemTableFreed` | puts beside a flush | **violation**: a freed table is used |
| `MCSkipListVisible` | as `MCSkipList` | **violation**: a version that a reader may see is not found |
| `MCScansDeleted` | 2 keys × 2 versions over 4 sources, deletions in any of them | **violation**: a deleted key is visited |

Why the bounds are enough. *Cache*: three keys over two places make every kind of
eviction happen, and k = 3 leaves room to be used again before and after the move
between the lists; `MaxUses` ends the counting of uses. *Skip list*: three nodes with
two keys give predecessors, successors and several versions of one key on two
levels, a level above the first being like any other. *Transaction manager*: two
ids suffice for commits out of the order of ids, gaps in the flushed set and an
aborted neighbour, three tables for a frozen one beside an active one and a split of
a transaction over tables; the theorems remove these bounds. *Transactions*: a
conflict needs two writers and a flush; the third id is a plain write. *Memtable*:
a circle of waiting needs no more threads than there are locks, which are three, and
three items fill and freeze a table and leave one in the next. *Scans*: two entries per block and block boundary, one SST boundary, and
one deletion above and below each other version; three keys make a range with a block
boundary inside and keys on both sides, and a merge with shared and private keys of
both iterators. *Log*: three transactions make three files, so that the cleaner may meet
a finished file before, after and between unfinished ones while a fourth is started;
`FileLimit` lets a file hold one long or two short transactions, `LenLimit` exceeds every
record. *Files*: up to three flushed ids give shorter lists after longer ones; offsets and
keys lie below and above their limits; 3, 4 and 5 bits are
below, at and above a multiple of the byte width. *Redis*: two parts per value, commands
that name a part twice, change a score or meet one, give an empty value, or a range that
begins before or ends behind the list; a deadline that passes between the two critical
sections of a command. `MaxLen` and `MaxValue` end the growth of lists and counters.
*Server*: a request complete, cut in every
line, and followed by another one. The two halves of the Redis layer meet only in
the list of executed requests, so `MCRedis` runs either one or the other.

`CHECK_DEADLOCK FALSE` stands where a model ends because its bounds are reached (all
ids given out, all requests served, a scan at its end, the clock at its bound); real
deadlocks are what `NoDeadlock` is about, in `MCMemTableLocks`.

**Symmetry** is used in `MCTransactions` only: the keys are interchangeable, the
module never compares them, and the set of mixes is closed under their permutation.

**Fairness.** `MemTable`: weak fairness of each thread's step inside a call; a
thread that is not blocked is scheduled, and nothing forces a thread to start
another call. No lock acquisition is assumed fair beyond that; the workloads in
which `FlushAllEnds` is checked do not depend on it. `RedisServer`: weak fairness of
delivery (TCP) and of each session's handler (`io_context::run` takes every ready
handler). All other modules are checked for safety only.

### Disagreements with violation runs

- `init_new_wal` (`src/src/lsm/transation.cpp:354`) removes all log files although
  the replayed records are only in the memtable; a second crash loses them
  (`MCTranManagerTwoCrashes`).
- `TranContext::commit` takes `frozen_mtx`, then `cur_mtx`
  (`src/src/lsm/transation.cpp:190`); `MemTable::get_total_size` takes them the other
  way round, and so do a put that freezes and `clear` (`MCMemTableLocks`).
- `flush_last` replaces `current_table` (`src/src/memtable/memtable.cpp:182`) under
  `frozen_mtx` alone, although `cur_mtx` is the lock of the active table
  (`src/include/memtable/memtable.h:79`); a put that has loaded the pointer under `cur_mtx`
  goes on in a table that the flush has freed (`MCMemTableFreed`).
- `SkipList::get` (`src/src/skiplist/skipList.cpp:169`) looks at the leading version of a key
  only. A reader that may see an older one gets nothing, where
  `src/test/test_skiplist.cpp:341` expects that version (`MCSkipListVisible`).
- The heaps of the memtable and of level 0 drop deletions before `Level_Iterator`
  compares levels (`src/src/lsm/level_iterator.cpp:40`), so that an older version
  further down is delivered (`MCScansDeleted`).

### Other behaviours met while modelling

The models do what the code does in the following cases as well. Where a property of a
passing run would not survive one of them, it is worded to except exactly that case, which stays
in the inputs of the run; the item says how.

- `SkipList::put` on an existing version subtracts the old value's size and does not
  add the new one's; `size_bytes` drifts and can wrap.
- `commit` at READ_UNCOMMITTED puts the marker before it registers the id, without
  a lock; a flush in between reports an id the manager does not know, which is then
  never recorded (`FlushedMarkerIsRecorded` is about the buffering levels).
- A commit whose log cannot be written throws and leaves the transaction active.
- The `tranc_id` file is written at shutdown only. After a crash ids start from the
  last shutdown's, and after a crash of the first run the file is empty and the
  constructor throws (`OpenFails`).
- The conflict check skips SSTs when the highest flushed id is not above the
  transaction's own; plain writes are not reported as flushed, so a conflict with one
  that has reached an SST goes unnoticed. `VersionsInIdOrder` is about the mix in
  which every writer checks for conflicts.
- `sst_get_` (`src/src/lsm/engine.cpp:48,65`) gives nothing for a deletion, so that the conflict
  check does not see a deletion by a newer transaction that has been flushed: an older transaction
  may then commit over it. `VersionsInIdOrder` excepts versions past a flushed deletion.
- At READ_UNCOMMITTED the second write of a key replaces the rollback record of the
  first by the transaction's own; abort then restores that. `AbortRestores` is about
  keys that the transaction wrote once.
- What a put writes into a freed table may be lost, and its size may be subtracted from
  `frozen_bytes` without having been added. `AckedKept` promises nothing of a put that returns after
  its table was replaced; `FrozenBytesCovered` and `FlushAllEnds` are about workloads in which no put
  runs beside another thread's flush.
- The conflict check locks `ssts_mtx` while holding the memtable's locks; a flush
  takes them in the other order, and two commits and a flush, or `clear`, make more circles of
  this kind. They are steps of `MemTable`; the passing run does not ask for their absence.
- `MemTable::clear` does not reset `frozen_bytes`; `flush_all` after it never finds a total
  of zero. `FlushAllEnds` excepts bytes that `clear` has left behind (`BytesLeftBehind`).
- An SST scan for a snapshot ends at a block without visible entries. `ScansComplete` is stated
  for SST scans without a snapshot, and `LiveKeysVisited` with one for what is in the memtable.
- A deletion that a snapshot cannot see still hides a key from a heap that skips
  deletions; for heaps, `ScansComplete` is about those that keep them, or that were filled with
  visible versions only, as `Level_Iterator` fills them.
- `sst_iters_monotony_predicate` sets the end of a range that ends with its block to the
  position behind the block, where the running iterator never is: it goes on to the next
  block. Block iterators are moreover equal only if they point to the same block object,
  which they may not do after an eviction from the cache. A loop until the end
  then runs on behind the matches; `SearchFindsAll` is that all matches come first.
- A commit marker has the empty key, which `Level_Iterator` also uses for "no key chosen yet".
  A level that stands on its marker makes the search for the smallest key begin anew behind it, so
  that a deeper level without marker goes first: keys come out of order, and a deletion there
  hides a newer value in a level above. `src/test/test_lsm.cpp:142` compares a scan with an
  ordered map. `OrderedWithMarkersLast` and `LiveKeysVisited` except exactly this, a level without
  marker, but with entries, behind one with a marker (`MarkersLast`).
- No code calls `WAL::set_checkpoint_tranc_id`: the checkpoint stays what it was when
  the log was started, and files written in a run are not deleted in that run. The module has no
  such action.
- A record longer than 65 535 bytes gets a truncated length; `encode` then writes behind
  its vector, and if the length is 0 `cleanWALFile` never leaves its loop. `BlockMeta` cuts
  offsets to 32 bits and lengths of keys to 16; `IndexReadsBack` says what comes back then. A
  damaged index is decoded by the lengths in it without a check of bounds, and the hash that should
  notice it is `std::hash` cut to 32 bits.
- `Record::decode` compares a record's length with that of all data and reads behind
  the end when a crash cut the last record; with a cut at a record's
  end it returns part of a transaction. `RecoverReturnsSynced` is about the
  synced transactions.
- `redis_get` decides on expiry under the shared lock and removes under the exclusive
  one without looking again: another thread's SET in between is lost. The shipped server has one
  thread. The properties of `MCRedis` hold with two.
- TTL answers -1 for a key that does not exist. INCR and DECR overflow a signed number.
- SADD and SREM count a member that is named twice in one command twice, and DEL forgets the
  size of a set and keeps its members. `SizeMatchesMembers` excepts a set to which
  either has happened (`miscounted`), until it expires.
- ZADD of an element with another score leaves its old score key, and two elements of the same
  score share one, although `src/src/redis_wrapper/redis_wrapper.cpp:1052` takes the two keys for a
  pair. `KeysComeInPairs` excepts a sorted set to which this has happened (`unpaired`),
  until it expires. DEL leaves the elements of a sorted set.
- HSET of an empty value is a deletion to the engine; the list then names a field without a
  value. `FieldListMatchesFields` counts such a field (`blank`) as listed.
- A negative stop that is still negative after the length was added is compared as a `size_t`:
  LRANGE and ZRANGE answer everything from start on. `RangesAreExact` excepts it.
- A request that arrives in several pieces, cut by TCP or by `async_read_until`, is refused,
  and the rest of it is read as requests of their own (client `c2` of `MCRedis`). The
  one-line PING is answered with an error, although `src/server/src/server.cpp:56-60` means
  to answer PONG: the line compared has one `\r` too many. `AnsweredInOrder` says of such a request
  only that it has a reply. LLEN is accepted with three arguments only.
- `std::stoi` and `std::stoll` (`src/src/redis_wrapper/redis_wrapper.cpp:349,418`) on something
  that is no number, and `remote_endpoint` (`src/server/src/server.cpp:102`) on a reset connection,
  throw through `io_context::run` and end the server for every client. `ServerAnswers` excepts it.
- A session's reply string is destroyed before the asynchronous write has finished
  (`src/server/src/server.cpp:110-112`). This is not modelled: replies arrive as they were made.

## 4. Proofs

`tlapm <module>` checks the proofs of a module. A theorem holds for every value of the
constants that the named assumptions of the modules allow; TLC evaluates those
assumptions in the runs. Before an inductive invariant was proved TLC checked it on the
instances of section 3, except where it quantifies over places without bounds, as those of
the iterators, the skip list (an order of the nodes) and the Redis values do.

| Theorem | States | For every |
|---|---|---|
| *TranManagerProofs* | | number of ids, writes, tables, flushes and (but for the last) crashes |
| `TypeCorrect` | `Spec => []TypeOK`, among it that the flushed set is never empty | |
| `CheckpointSafe` | `Spec => []CheckpointIsSafe` | |
| `CheckpointMonotone` | `Spec => CheckpointNeverRetreats` | |
| `FlushedCommitsRecorded` | `Spec => []FlushedMarkerIsRecorded` | |
| `LogAboveCheckpoint` | `Spec => []LogAboveWalCheckpoint` | |
| `CommitsSurviveACrash` | `Spec => []NoCommitLost` | `MaxCrashes <= 1` |
| *TransactionsProofs* | | number of ids, keys and writes, all mixes of levels |
| `TypeCorrect` | `Spec => []TypeInv` | |
| `NothingUncommitted` | `Spec => []OnlyCommittedStored` | |
| `ConflictsKeepOrder` | `Spec => []VersionsInIdOrder` | |
| `AbortGivesBack` | `Spec => []AbortRestores` | |
| `ReadsRepeat` | `Spec => RepeatableReads` | |
| *MemTableProofs* | | number of threads and items, all limits, all workloads |
| `TypeCorrect` | `Spec => []TypeInv` | |
| `WritesAreKept` | `Spec => []AckedKept` | |
| `ReadsFindAll` | `Spec => []ReadersMissNothing` | |
| `SizeNeverLies` | `Spec => []FrozenBytesCovered` | |
| *BlockCacheProofs* | | capacity, k and set of blocks |
| `ListsAlwaysMatchMap` | `Spec => []ListsMatchMap` | |
| `NeverOverfull` | the cache never holds more than `Capacity` blocks | |
| `CacheImplementsLRUK` | `Spec => ImplementsLRUK` | |
| *SkipListProofs* | | set of keys, values and ids, height of towers, number of nodes |
| `LevelsStayNested` | `Spec => []LevelsNested` | |
| `BackwardStaysInverse` | `Spec => []BackwardInvertsForward` | |
| `GetFindsLatest` | `Spec => []LatestFound` | |
| `SkipListImplementsTable` | `Spec => ImplementsVersionTable` | |
| *ReadPathProofs* | | finite set of keys, ids and tables, number of sources, SSTs and blocks, all contents, all snapshots |
| `ScansWanted` | `ReadSpec => []ScansDeliverOnlyWanted` | |
| `ScansAllDelivered` | `ReadSpec => []ScansComplete` | |
| `SearchComplete` | `ReadSpec => []SearchFindsAll` | |
| `MergeDeliversWanted`, `HeapDeliversWanted` | the parts of the first two about `TwoMergeIterator` and `HeapIterator` | |
| `DatabaseScanInOrder` | `ReadSpec => []OrderedWithMarkersLast` | |
| `DatabaseScanComplete` | `ReadSpec => []LiveKeysVisited` | |
| *DiskProofs* | | number of transactions, files, ids and restarts, filter size, byte width and hash function |
| `LogKept` | `DiskSpec => []CleanerKeepsUnfinished` | |
| `FilterKept` | `DiskSpec => []NoFalseNegatives`, before and after encode and decode | |
| `IdFileKept` | `DiskSpec => []IdFileReadsBack` | |
| *RedisProofs*, values | | number of threads, fields, members and elements, all commands and deadlines |
| `FieldListsMatch` | `Spec => []FieldListMatchesFields` | |
| `SizesMatch` | `Spec => []SizeMatchesMembers` | |
| `PairsKept` | `Spec => []KeysComeInPairs` | |
| *RedisProofs*, server | | number of clients and requests, all ways to cut a stream |
| `NothingExecutedTwice` | `ServerSpec => []ExecutedInOrder` | |
| `RepliesInOrder` | `ServerSpec => []AnsweredInOrder` | |

One theorem has a hypothesis: `MaxCrashes <= 1`, since with two crashes the property is false
(`MCTranManagerTwoCrashes`). Where the code breaks what one would like to have in some case, the
case is excepted in the property itself, and the theorem covers what happens around it:
`FrozenBytesCovered` is about workloads that are `Disciplined`, `OrderedWithMarkersLast` and
`LiveKeysVisited` about levels with `MarkersLast`, `VersionsInIdOrder` excepts versions past a flushed deletion,
`SizeMatchesMembers` and `KeysComeInPairs` values that are `miscounted` and `unpaired` (section 3).
Of the constants the proofs about iterators
assume that the database is finite (`FiniteAssumption`) and that a null iterator is no index
(`NullAssumption`); those about the skip list, that `nullptr` is neither an address nor
a node (in `SkipListParameters`).

### Transaction manager

`CheckpointIsSafe` is not inductive: that an id becomes covered in
`add_flushed_tranc_id` says nothing by itself of where its writes are. The inductive
invariant `IInv` adds

- `StoppedIsIdle`: without a running process there are no contexts, ready ids or
  pending reports, so that a new run starts from nothing;
- `FreshIds`: ids that were not given out in this run are not in use;
- `ReadyTellsOutcome`: an id is ready as committed or aborted only if its context is,
  and only as long as it does not count as flushed;
- `MarkerIsOfCommit`: a marker in a memtable is that of a commit of this run;
- `PendingIsFlushed`: an id about to be reported is a commit whose marker lies in a
  flushed table;
- `MarkerComesLast`: no write of a transaction is in a later table than its marker.

From the last two, a reported commit has all its writes in SSTs; the lemma
`CompressSetCovers` says that `compressSet` does not change which ids are covered
("up to the smallest, and the others"), so only the reported id and the aborted ids
below it become covered. `CheckpointMonotone` follows from `ReadyTellsOutcome` (what
is inserted was not covered, so it is above the checkpoint) and the lemmas on `Least`
and `CompressSet`. For `FlushedCommitsRecorded` a second invariant, `Tracking`, is added
to `IInv`: a commit at the buffering levels that is not covered is ready, and its marker
is in a memtable or about to be reported; and only READ_UNCOMMITTED is ever between
marker and registration. The lemma `CompressSetKeeps` is the converse of
`CompressSetCovers`. `LogAboveCheckpoint` needs a third one, `Logging`: flushed ids were
handed out before, in memory and in the file (`FlushedAreOlder`), and a run begins behind
all ids of the file and logs only its own (`LogIsOfThisRun`, which has to cover the time
before the first start, too).

`CommitsSurviveACrash` needs a fourth, `Kept`: what is in a flushed table has a copy in
an SST (`SstHoldsFlushed`); a transaction that has begun to apply its writes is logged
completely (`MarkedIsLogged`), and before a crash no commit stops behind its log
(`NoneSkipped`); before the
crash no id is used twice, so that no later log overwrites what was acknowledged
(`AckedAreOld`), and what was acknowledged is in an SST or in the log of this run
(`AckedAreDurable`); after it, it is stored or will be replayed
(`CrashIsRecoverable`). The last part uses `CheckpointIsSafe`: replay leaves out what the
checkpoint covers, and that is in SSTs.

### Transactions

`IInv` consists of `TypeInv` and `ContextInv` (ids not given out are unused) and one part
for each property. `StoredInv`: without READ_UNCOMMITTED writers, all versions are those
of settled ids. `OrderInv`: when all writers check, the writers of versions in the
memtable have their marker there, those in SSTs are not above the highest flushed id, and
versions are ordered up to flushed deletions (`Decreasing`): this is what makes it right that the
conflict check looks at SSTs only if the highest flushed id is above its own. A flush moves
deletions from the memtable, where the check sees them, to the SSTs, where it does not; this can only
except more. `SavedInv`: `rollback_map_` has
what the history saw, and after the abort `get` gives it. `RepeatableReads` is an
action property; for it each action is shown to leave the kept reads and buffered
writes of other transactions alone and to answer from them first.

### Memtable

`LockInv` says who holds which mutex, as a function of the program counters, and that
exclusive holders are alone; `CallInv`, that a thread is in a call of the workload.
`TableInv`: a commit uses the active table, since it holds both locks; a put is sure to do so only
where no other thread flushes. `KeptInv` is `AckedKept`: an item written is in the active table, a
frozen one, the one being flushed or an SST. `ReaderInv` is the argument for
`get_batch`, which gives up each mutex before it takes the next: items only move from the
active table to the frozen ones and on to SSTs, that is, to where the reader has not
looked yet; and once the table it reads was replaced, all that was in it is already there,
so that it does not matter what a freed table gives. `CountInv` bounds the number of frozen tables, so
that there is always an address for the next one. `ItemInv` and, where the workload is `Disciplined`,
`BytesInv` bound `frozen_bytes` from below by what the
frozen tables hold, and from above by what was written: that the subtraction in
`flush_last` does not wrap around follows from the first. The lemmas about pairs relate
the sum over tables to a cardinality.

### Block cache

`ListsInv`: each list orders exactly the keys that the map leads into it by their last
use; `CountsInv`: those in the first list have been used less than k times, those in the
second at least k times; `RoomInv`: there is room. Under the refinement mapping
(`DOMAIN cache_map`, access counts, time of the last use) each call is a step of
`LRUKCache` or a stutter: from `ListsInv` the last node of a list is that of the key whose
last use is oldest, and so the victim is the one that LRU-K evicts.

### Skip list

The properties say what following pointers finds; the invariant `Inv` says instead that there
is an order t of the nodes, the head first and the keys ascending, in which the pointers are what
they should be (`Lists`): on every level a node points to the next place in t whose node is
tall enough, that one points back, the last points nowhere (`Threaded`). Moreover no node is
taller than `current_level` (`LowEnough`), which `clear` keeps since it leaves the level alone.

In such an order the recursive walks can be solved without an induction. `WalkSolved`: a function
that satisfies the recursion of a walk sends every place to the last place of the level
with a smaller key, as the greatest place where it did not would contradict the
recursion at that place; `PredecessorsStop` does the same downwards over the levels,
`ChainIs` for the scan of the bottom level. `SearchFinds` sums up: put, get and remove find the place
p that `Divides` the order at the key, and `update` holds the last node before it of every level.

`InsertThreaded` and `RemoveThreaded` show that splicing a node in or out behind `update` threads
the order with or without it. There it matters that `put` splices exactly the levels
of the new node, that `update` has been filled up to the raised level, and that `remove` indexes it no higher than
`current_level`. The places of the two orders are compared by `Up`, which shifts those behind p.

The refinement maps the abstract `versions` to `flush`, which is t without its head
(`FlushIs`). `FirstIs` shows that `VersionTable` begins at the place the search finds; the
overwriting, the insertion and the removal then are the three forms of `VersionTable`
(`OneMore` and `OneLess` compare the sequences).

### Iterators

The inputs of the scans are all sorted contents of a database: `Ranked` sequences, in which
an entry stands at the place that the number of smaller ones gives it. That they
enumerate their set in order (`RanksExist`, `RankEnumerates`, `EntriesSorted`) and that the cuts
into SSTs and blocks are non-empty and ascend (`CutHasParts`, `InputsAreLeveled`) is proved
once, from the theorems on cardinalities.

*Database scan.* `LevelInv`, under `MarkersLast`: every source has delivered a prefix of its
newest versions; what
is left of it is behind what was delivered; every live key that the scans of the SSTs reach (`Reached`)
was delivered or is still to come
in the source that has its newest version; and if a source stands on a marker, so do those
behind it that are not at their end (`OnMarker`): then the empty key is chosen as
"none yet" again and again until the last of them is past its marker. The loop that moves the other
sources past a key keeps this because they are sorted. The lemma `LostIs` says that the scans of the
SSTs lose nothing of the memtable, and nothing without a transaction.

*Two-way merge.* `MergeInv`: what was delivered and what both iterators still hold together
are all that is wanted, delivered entries are not behind the others, `choose_a` is
up to date and the heads of a query have different keys (`skip_it_b` made it so).

*Heap.* The loops of `HeapIterator` are recursive functions on positions. `Loop` describes
them (a position, a test to stop, a next position that is greater); `LoopEnds` and
`LoopKeeps` show, by a least counterexample instead of an induction, that such a function
ends at a position where the loop stops, and that what every turn keeps it keeps. `HeapInv`:
the top is the end or a legal, current version (`Clean`), and, if nothing is invisible or
deletions are kept, all that is `Due` before it was delivered.

*SSTs.* `Leveled` says what the SSTs of a level are; on it the order of entries and
the order of places agree (`EarlierPrecedes`, `PrecedingIsEarlier`), so that positions can be left out of
the invariant. `ScanInv`: the iterator stands at a wanted entry, behind everything it
delivered; `Kept`: without a transaction what is wanted was delivered or is not before
where it stands. `ScanMoves` shows for each of the three ways of `operator++` that it goes to
an entry that `Follows`: wanted, later and, without a transaction, with nothing wanted in
between. This is where a transaction makes the difference: a block without visible
entries ends the SST early. *Search.* `SearchInv` is `Kept` for the matches, that nothing in front of the
range is delivered, and that the second iterator is behind all matches; `MatchIsSearched` is
the argument that the loop over the blocks misses none.

### Log, filter, files

`CleanerKeepsUnfinished` needs `LoggedInv` (a transaction is logged once, in one call) and
`CleanerInv`: the cleaner, which takes no mutex, only looks at files that are not active
and so do not grow any more; all records before its offset are below the checkpoint; and
`del_paths` has finished files only.

`NoFalseNegatives` needs `ImageInv`, the same for the encoded image, whose bit i is bit
i mod w of byte i div w for bytes of width w. Both hold of the composition because each
step of `Disk` is a step of one component and leaves the variables of the others alone. For the `tranc_id` file the invariant `IdsInv` says that
the file holds a state that may be found and the stream's buffer the manager's own:
a write at offset 0 in front of the rest of a longer file is read back
(`WriteEncodes`, `EncodedIsRead`), because the count comes before the ids.
`AscendingEnumerates` shows by the ranks of its elements that a set is written out in
full.

### Redis values

All three invariants contain `Busy`: a thread between the two critical sections of a command is
in one of the commands, and so in one of its clean or apply steps. `HashInv`,
`SetInv` and `ZSetInv` are the properties together with the types of the keys. They are inductive
because each critical section by itself leaves the keys of a value consistent, whatever another
thread did in between; the threads' decisions may be stale, the keys are not. For a hash the
work is in HSET (`PutPairs`, `ListPairs`: the fields added are those not listed before, once
each, those with an empty value included) and in HDEL; for a set in the counting of what SADD adds
and SREM removes, argument by argument, which is the number of members that come and go if
nothing is named twice; for a sorted set
in ZADD and ZINCRBY, which replace both keys of a pair unless the score changes or is taken.
Expiry makes a value right again that was `miscounted` or `unpaired`, as it removes all its keys.

### Redis server

`TakenInv`: what was executed has been taken out of `buffer_`, at least in part; so a
request executed later begins behind it, which gives `ExecutedInOrder` even for a session
that has lost track of where requests begin. `OrderInv` is the same for replies: each one is for a
request that was taken at least in part, and the one being written `Follows` those before it,
later or one more error for a request in pieces. `WholeInv`, for clients whose requests
arrive whole: a session stands at the beginning of a request and has one reply for each
request before it, the one being written included, but for a request whose handling
has ended the server. Underneath, `SessionsTake` says that
each of the three ways of `do_read` takes something out of the buffer, and exactly one
request if requests arrive whole.

### Only model-checked

- Liveness (`FlushAllEnds`, `ServerAnswers`) and
  `NoDeadlock`, which uses `ENABLED`: out of this prover's reach.
- What a recursion over data computes for every input: `RecoverReturnsSynced` and
  `IndexReadsBack` (the decoding of records and of the index). The loops of
  `HeapIterator` and of the skip list could be treated as above since they only move a
  position along an order that is known beforehand; these decode a value cell by cell.
- `RangesAreExact`, which compares LRANGE and ZRANGE with a definition of ranges over sequences.

## 5. Not modelled

- `Block`, `SST`, `SSTBuilder`, compaction, the value log, `LSMEngine::put` and `flush`,
  seeking by key in an SST, `merge_sst_iterator`, the cleaner's loop: no bodies, or
  only calls of functions without one. What others need of them is external.
- `MmapFile` and `Cursor`: wrappers of system calls that nothing modelled here uses.
- Configuration, logging, bindings, scripts and examples: no state of the system.
- In what is modelled: collisions of encoded Redis keys, malformed requests, the accept
  loop, comparison operators of iterators (but for the end of a search), hit rates and
  printing, the logarithms that size a Bloom filter, the lifetime of a reply string.

## 6. Plan

Done: the modules above, in the order cache, skip list, transaction manager,
transactions, memtable, scans, Redis, server, log and files; the theorems of section 4.

Next, in this order:

1. `RecoverReturnsSynced` by the number of records instead of a recursion over cells.
2. A composition of `Transactions` with recovery: the writes of an aborted
   READ_UNCOMMITTED transaction and of unfinished ones across a crash; Redis commands
   of several puts with a crash between them; `LSMEngine::clear` against readers.
3. Runs that show the two cases excepted in `KeysComeInPairs` and `OrderedWithMarkersLast` as
   disagreements of their own.
4. Compaction and the missing bodies, when the repository has them.
