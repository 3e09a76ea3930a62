-------------------------- MODULE TranManagerProofs --------------------------
(***************************************************************************)
(* Proofs about TranManager, for every bound on ids, writes, tables and    *)
(* crashes and for every mix of isolation levels.                          *)
(***************************************************************************)
EXTENDS TranManager, TLAPS, WellFoundedInduction

-----------------------------------------------------------------------------
\* Least and CompressSet.

\* A nonempty set of natural numbers has a smallest element.
LEMMA NatHasLeast ==
  ASSUME NEW S \in SUBSET Nat, S # {}
  PROVE  \E x \in S : \A y \in S : x <= y
<1>1. PICK x \in S : \A y \in S : ~ (<<y, x>> \in OpToRel(<, Nat))
  BY NatLessThanWellFounded, WFMin
<1>2. \A y \in S : ~ (y < x)
  BY <1>1 DEF OpToRel
<1> QED
  BY <1>2

\* Least(S), the first element of a std::set, is what its name says.
LEMMA LeastIsLeast ==
  ASSUME NEW S \in SUBSET Nat, S # {}
  PROVE  /\ Least(S) \in S
         /\ Least(S) \in Nat
         /\ \A y \in S : Least(S) <= y
<1>1. \E x \in S : \A y \in S : x <= y
  BY NatHasLeast
<1> QED
  BY <1>1 DEF Least

\* The set of one element.
LEMMA LeastOfOne ==
  ASSUME NEW x \in Nat
  PROVE  Least({x}) = x
BY LeastIsLeast, {x} \in SUBSET Nat, {x} # {}

\* Above the smallest element of S there is a first number that is not in S,
\* below any given one; everything between is in S.
LEMMA FirstGap ==
  ASSUME NEW S \in SUBSET Nat, S # {},
         NEW z \in Nat, Least(S) < z, z \notin S
  PROVE  \E r \in S : /\ r < z
                      /\ r + 1 \notin S
                      /\ Least(S)..r \subseteq S
<1> DEFINE G == {y \in Nat : Least(S) < y /\ y \notin S}
<1>1. PICK g \in G : \A y \in G : g <= y
  BY NatHasLeast
<1>2. Least(S) \in Nat /\ Least(S) \in S
  BY LeastIsLeast
<1>3. \A y \in Least(S)..(g - 1) : y \in S
  <2>1. TAKE y \in Least(S)..(g - 1)
  <2>2. y \notin G
    BY <1>1, <1>2
  <2> QED
    BY <2>2, <1>2
<1>4. g - 1 \in S /\ g - 1 < z /\ (g - 1) + 1 \notin S
  BY <1>1, <1>2, <1>3
<1> QED
  BY <1>3, <1>4

\* compressSet neither empties a bounded set nor puts anything new into it.
LEMMA CompressSetNonempty ==
  ASSUME NEW N \in Nat, NEW S \in SUBSET (0..N), S # {}
  PROVE  CompressSet(S) \in SUBSET S /\ CompressSet(S) # {}
<1>1. Least(S) \in S /\ Least(S) \in Nat /\ Least(S) < N + 1
  BY LeastIsLeast
<1>2. PICK r \in S : r + 1 \notin S
  BY <1>1, FirstGap, N + 1 \notin S
<1>3. r + 1 \in Least(S)..(r + 1)
  BY <1>1, LeastIsLeast
<1>4. r \in CompressSet(S)
  BY <1>2, <1>3 DEF CompressSet
<1> QED
  BY <1>4 DEF CompressSet

\* What compressSet drops lies below the smallest id it keeps, and every number
\* below that was either below the smallest id before or in the set: the meaning
\* of the set as "all ids up to the smallest, and the others" does not change.
LEMMA CompressSetCovers ==
  ASSUME NEW N \in Nat, NEW S \in SUBSET (0..N), S # {},
         NEW x \in Nat
  PROVE  (x <= Least(CompressSet(S)) \/ x \in CompressSet(S))
           => (x <= Least(S) \/ x \in S)
<1> DEFINE C == CompressSet(S)
<1>1. C \in SUBSET S /\ C # {}
  BY CompressSetNonempty
<1>2. Least(S) \in Nat /\ Least(S) \in S
  BY LeastIsLeast
<1> HIDE DEF C
<1>a. C \in SUBSET Nat
  BY <1>1
<1>3. /\ Least(C) \in Nat /\ Least(C) \in C
      /\ \A y \in C : Least(C) <= y
  BY <1>1, <1>a, LeastIsLeast
<1>4. ASSUME x <= Least(C), ~ (x <= Least(S)), x \notin S
      PROVE  FALSE
  <2>1. PICK r \in S : r < x /\ r + 1 \notin S
    BY <1>2, <1>4, FirstGap
  <2>2. r + 1 \in Least(S)..(r + 1)
    BY <1>2, LeastIsLeast
  <2>3. r \in C
    BY <2>1, <2>2 DEF C, CompressSet
  <2> QED
    BY <1>3, <1>4, <2>1, <2>3
<1> QED
  BY <1>1, <1>4 DEF C

-----------------------------------------------------------------------------
\* The inductive invariant.

\* Only a running program has transactions.
StoppedIsIdle ==
  up # "up" => /\ pending = {}
               /\ \A t \in Ids : status[t] = "none" /\ ready[t] = "absent"

\* Ids that have not been handed out in this run are not in use.
FreshIds ==
  /\ first_id <= next_id
  /\ \A t \in Ids : t >= next_id \/ t < first_id =>
                      status[t] = "none" /\ ready[t] = "absent"

\* readyToFlushTrancIds_ tells how a transaction ended, and keeps only those
\* that do not count as flushed yet.
ReadyTellsOutcome ==
  \A t \in Ids :
    /\ ready[t] = "ABORTED" => status[t] = "aborted"
    /\ ready[t] = "OP_COMMITTED" => status[t] \in {"committed", "skipped"}
    /\ ready[t] # "absent" => ~ Covered(t)

\* A marker in a memtable is that of a commit of this run.
MarkerIsOfCommit ==
  \A t \in Ids : InMemory(t, 0) => status[t] \in {"marked", "committed"}

\* What a flush is about to report is a commit whose marker it has written.
PendingIsFlushed ==
  \A t \in pending : status[t] \in {"marked", "committed"} /\ InSst(t, 0)

\* The marker comes last: it is in no older table than the writes.
MarkerComesLast ==
  \A t \in Ids :
    /\ status[t] \in {"marked", "committed"} =>
         /\ place[t][0] \in 1..cur
         /\ \A n \in 1..writes[t] : place[t][n] \in 1..place[t][0]
    /\ status[t] = "active" /\ isolation[t] = "RU" =>
         \A n \in 1..writes[t] : place[t][n] \in 1..cur

IInv ==
  /\ TypeOK
  /\ StoppedIsIdle
  /\ FreshIds
  /\ ReadyTellsOutcome
  /\ MarkerIsOfCommit
  /\ PendingIsFlushed
  /\ MarkerComesLast
  /\ CheckpointIsSafe

-----------------------------------------------------------------------------
\* Type correctness.

\* Putting pieces into the current table keeps the shape of place.
LEMMA PutPiecesType ==
  ASSUME TypeOK, NEW t \in Ids, NEW pieces, PutPieces(t, pieces)
  PROVE  place' \in [Ids -> [Pieces -> Nat]]
BY DEF TypeOK, PutPieces

\* What add_flushed_tranc_id makes of flushedTrancIds_ is again a nonempty set of
\* ids.
LEMMA FlushedType ==
  ASSUME TypeOK, NEW t \in Ids
  PROVE  LET S == flushed \cup FlushedWith(t)
         IN  /\ S \in SUBSET (0..MaxId) /\ S # {}
             /\ CompressSet(S) \in SUBSET (0..MaxId) /\ CompressSet(S) # {}
<1> DEFINE S == flushed \cup FlushedWith(t)
<1>1. S \in SUBSET (0..MaxId) /\ S # {}
  BY DEF TypeOK, FlushedWith, Ids
<1> HIDE DEF S
<1>2. CompressSet(S) \in SUBSET S /\ CompressSet(S) # {}
  BY <1>1, CompressSetNonempty, TranManagerParameters
<1> QED
  BY <1>1, <1>2 DEF S

\* The initial state has its type.
LEMMA TypeInit == Init => TypeOK
BY TranManagerParameters DEF Init, TypeOK, Ids, Pieces, File, States

\* getNextTransactionId stays within the ids.
LEMMA NextIdType ==
  ASSUME TypeOK, getNextTransactionId
  PROVE  next_id \in Ids /\ next_id' \in 1..(MaxId + 1)
BY TranManagerParameters DEF TypeOK, getNextTransactionId, Ids

\* Forget leaves nothing but initial values.
LEMMA ForgetType ==
  ASSUME Forget
  PROVE  /\ up' = "down" /\ pending' = {}
         /\ next_id' \in 1..(MaxId + 1) /\ first_id' \in 1..(MaxId + 1)
         /\ ready' \in [Ids -> {"absent", "OP_COMMITTED", "ABORTED"}]
         /\ flushed' \in SUBSET (0..MaxId) /\ flushed' # {}
         /\ status' \in [Ids -> States]
         /\ isolation' \in [Ids -> {"RU", "buffered"}]
         /\ writes' \in [Ids -> 0..MaxWrites]
<1>1. next_id' = 1 /\ first_id' = 1 /\ flushed' = {0}
  BY DEF Forget
<1>2. next_id' \in 1..(MaxId + 1) /\ first_id' \in 1..(MaxId + 1)
  BY <1>1, TranManagerParameters
<1>3. flushed' \in SUBSET (0..MaxId) /\ flushed' # {}
  BY <1>1, TranManagerParameters
<1>4. writes' \in [Ids -> 0..MaxWrites]
  BY TranManagerParameters DEF Forget
<1> QED
  BY <1>2, <1>3, <1>4 DEF Forget, States

\* Each action keeps the type.
LEMMA TypeStep == TypeOK /\ [Next]_vars => TypeOK'
<1> SUFFICES ASSUME TypeOK, [Next]_vars
             PROVE  TypeOK'
  OBVIOUS
<1>1. CASE OpenNew
  BY <1>1 DEF OpenNew, manager, contexts, tables, disk, ghosts, TypeOK, File
<1>2. CASE OpenFails
  BY <1>2 DEF OpenFails, manager, contexts, tables, disk, ghosts, TypeOK
<1>3. CASE Reopen
  <2>1. /\ next_id' \in 1..(MaxId + 1) /\ first_id' \in 1..(MaxId + 1)
        /\ flushed' \in SUBSET (0..MaxId) /\ flushed' # {}
    BY <1>3, TranManagerParameters DEF Reopen, TypeOK, File
  <2>2. place' \in [Ids -> [Pieces -> Nat]]
    BY <1>3 DEF Reopen, TypeOK
  <2>3. wal' \in [Ids -> -1..MaxWrites]
    BY <1>3, TranManagerParameters DEF Reopen
  <2> QED
    BY <1>3, <2>1, <2>2, <2>3 DEF Reopen, contexts, ghosts, TypeOK
<1>4. ASSUME NEW level \in Isolations, new_tranc(level)
      PROVE  TypeOK'
  <2>1. next_id \in Ids /\ next_id' \in 1..(MaxId + 1)
    BY <1>4, NextIdType DEF new_tranc
  <2>2. writes' \in [Ids -> 0..MaxWrites]
    <3>1. 0 \in 0..MaxWrites
      BY TranManagerParameters
    <3> QED
      BY <1>4, <3>1 DEF new_tranc, TypeOK
  <2>3. isolation' \in [Ids -> {"RU", "buffered"}]
    BY <1>4, TranManagerParameters DEF new_tranc, TypeOK
  <2> QED
    BY <1>4, <2>1, <2>2, <2>3 DEF new_tranc, tables, disk, ghosts, TypeOK, States
<1>5. CASE LsmGet
  <2>1. next_id' \in 1..(MaxId + 1)
    BY <1>5, NextIdType DEF LsmGet
  <2> QED
    BY <1>5, <2>1 DEF LsmGet, contexts, tables, disk, ghosts, TypeOK
<1>6. CASE LsmPut
  <2>1. next_id \in Ids /\ next_id' \in 1..(MaxId + 1)
    BY <1>6, NextIdType DEF LsmPut
  <2>2. place' \in [Ids -> [Pieces -> Nat]]
    BY <1>6, <2>1, PutPiecesType DEF LsmPut
  <2> QED
    BY <1>6, <2>1, <2>2 DEF LsmPut, contexts, disk, ghosts, TypeOK
<1>7. ASSUME NEW t \in Ids, Write(t)
      PROVE  TypeOK'
  <2>1. place' \in [Ids -> [Pieces -> Nat]]
    BY <1>7, PutPiecesType DEF Write, TypeOK
  <2>2. writes' \in [Ids -> 0..MaxWrites]
    BY <1>7, TranManagerParameters DEF Write, TypeOK
  <2> QED
    BY <1>7, <2>1, <2>2 DEF Write, manager, disk, ghosts, TypeOK
<1>l. ASSUME NEW t \in Ids, CommitLog(t)
      PROVE  TypeOK'
  <2>1. wal' \in [Ids -> -1..MaxWrites] /\ acked' \in [Ids -> 0..MaxWrites]
    BY <1>l, TranManagerParameters DEF CommitLog, Log, TypeOK
  <2> QED
    BY <1>l, <2>1 DEF CommitLog, manager, tables, TypeOK, States
<1>8. ASSUME NEW t \in Ids, Commit(t)
      PROVE  TypeOK'
  <2>1. place' \in [Ids -> [Pieces -> Nat]]
    BY <1>8, PutPiecesType DEF Commit, BufferedApply
  <2> QED
    BY <1>8, <2>1 DEF Commit, add_ready_to_flush_tranc_id, disk, ghosts, TypeOK, States
<1>s. ASSUME NEW t \in Ids, CommitTestFail(t)
      PROVE  TypeOK'
  <2>1. crashes' \in Nat
    BY <1>s DEF CommitTestFail, TypeOK
  <2> QED
    BY <1>s, <2>1 DEF CommitTestFail, add_ready_to_flush_tranc_id, tables, disk, TypeOK, States
<1>9. ASSUME NEW t \in Ids, CommitRUMark(t)
      PROVE  TypeOK'
  <2>1. place' \in [Ids -> [Pieces -> Nat]]
    BY <1>9, PutPiecesType DEF CommitRUMark
  <2>2. wal' \in [Ids -> -1..MaxWrites] /\ acked' \in [Ids -> 0..MaxWrites]
    BY <1>9, TranManagerParameters DEF CommitRUMark, Log, TypeOK
  <2> QED
    BY <1>9, <2>1, <2>2 DEF CommitRUMark, manager, TypeOK, States
<1>10. ASSUME NEW t \in Ids, CommitRUReady(t)
       PROVE  TypeOK'
  BY <1>10 DEF CommitRUReady, add_ready_to_flush_tranc_id, tables, disk, ghosts, TypeOK, States
<1>11. ASSUME NEW t \in Ids, Abort(t)
       PROVE  TypeOK'
  BY <1>11 DEF Abort, add_ready_to_flush_tranc_id, tables, disk, ghosts, TypeOK, States
<1>12. ASSUME NEW t \in Ids, add_flushed_tranc_id(t)
       PROVE  TypeOK'
  <2>1. flushed' \in SUBSET (0..MaxId) /\ flushed' # {}
    BY <1>12, FlushedType DEF add_flushed_tranc_id
  <2> QED
    BY <1>12, <2>1 DEF add_flushed_tranc_id, contexts, disk, ghosts, TypeOK
<1>13. CASE Freeze
  BY <1>13 DEF Freeze, manager, contexts, disk, ghosts, TypeOK
<1>14. CASE Flush
  <2>1. lo' \in Nat \ {0} /\ cur' \in Nat /\ lo' <= cur'
    BY <1>14 DEF Flush, TypeOK
  <2>2. sst' \subseteq Ids \X Pieces /\ pending' \subseteq Ids
    BY <1>14 DEF Flush, TypeOK
  <2> QED
    BY <1>14, <2>1, <2>2 DEF Flush, manager, contexts, disk, ghosts, TypeOK
<1>15. CASE Shutdown
  <2>1. file' \in File /\ file'.flushed # {}
    BY <1>15 DEF Shutdown, TypeOK, File
  <2> QED
    BY <1>15, <2>1, ForgetType DEF Shutdown, ghosts, TypeOK
<1>16. CASE Crash
  <2>1. place' \in [Ids -> [Pieces -> Nat]]
    BY <1>16 DEF Crash, TypeOK
  <2>2. crashes' \in Nat
    BY <1>16 DEF Crash, TypeOK
  <2> QED
    BY <1>16, <2>1, <2>2, ForgetType DEF Crash, disk, TypeOK
<1>17. CASE UNCHANGED vars
  BY <1>17 DEF vars, TypeOK
<1> QED
  BY <1>1, <1>2, <1>3, <1>4, <1>5, <1>6, <1>7, <1>l, <1>8, <1>s, <1>9, <1>10, <1>11, <1>12,
     <1>13, <1>14, <1>15, <1>16, <1>17 DEF Next

\* The state of TranManager always has its type, and flushedTrancIds_ is never
\* empty, so that get_checkpoint_tranc_id always has an element to return.
THEOREM TypeCorrect == Spec => []TypeOK
BY TypeInit, TypeStep, PTL DEF Spec

-----------------------------------------------------------------------------
\* The invariant step.

\* The effect of PutPieces, piece by piece.
LEMMA PutPiecesEffect ==
  ASSUME TypeOK, NEW t \in Ids, NEW pieces, PutPieces(t, pieces),
         NEW s \in Ids, NEW n \in Pieces
  PROVE  place'[s][n] = IF s = t /\ n \in pieces THEN cur ELSE place[s][n]
BY DEF TypeOK, PutPieces

\* Numbers of tables, writes and pieces.
LEMMA Numbers ==
  ASSUME TypeOK
  PROVE  /\ lo \in Nat /\ cur \in Nat /\ 1 <= lo /\ lo <= cur
         /\ 0 \in Pieces
         /\ \A t \in Ids : /\ t \in Nat /\ t >= 1
                           /\ writes[t] \in Nat
                           /\ 1..writes[t] \subseteq Pieces
                           /\ \A n \in Pieces : place[t][n] \in Nat
         /\ next_id \in Nat /\ first_id \in Nat
<1>1. lo \in Nat /\ cur \in Nat /\ 1 <= lo /\ lo <= cur /\ 0 \in Pieces
  BY TranManagerParameters DEF TypeOK, Pieces
<1>2. next_id \in Nat /\ first_id \in Nat
  BY TranManagerParameters DEF TypeOK
<1>3. ASSUME NEW t \in Ids
      PROVE  /\ t \in Nat /\ t >= 1 /\ writes[t] \in Nat /\ 1..writes[t] \subseteq Pieces
             /\ \A n \in Pieces : place[t][n] \in Nat
  <2>1. t \in Nat /\ t >= 1
    BY TranManagerParameters DEF Ids
  <2>2. writes[t] \in 0..MaxWrites
    BY DEF TypeOK
  <2>3. \A n \in Pieces : place[t][n] \in Nat
    BY DEF TypeOK
  <2> QED
    BY <2>1, <2>2, <2>3, TranManagerParameters DEF Pieces
<1> QED
  BY <1>1, <1>2, <1>3

\* Each action keeps the invariant.
LEMMA InvStep == IInv /\ [Next]_vars => IInv'
<1> SUFFICES ASSUME IInv, [Next]_vars
             PROVE  IInv'
  OBVIOUS
<1>0. TypeOK'
  BY TypeStep DEF IInv
<1>a. /\ TypeOK /\ StoppedIsIdle /\ FreshIds /\ ReadyTellsOutcome /\ MarkerIsOfCommit
      /\ PendingIsFlushed /\ MarkerComesLast /\ CheckpointIsSafe
  BY DEF IInv
<1>b. /\ lo \in Nat /\ cur \in Nat /\ 1 <= lo /\ lo <= cur
      /\ 0 \in Pieces
      /\ \A t \in Ids : /\ t \in Nat /\ t >= 1
                        /\ writes[t] \in Nat
                        /\ 1..writes[t] \subseteq Pieces
                        /\ \A n \in Pieces : place[t][n] \in Nat
      /\ next_id \in Nat /\ first_id \in Nat
  BY <1>a, Numbers
<1> DEFINE SameManager == UNCHANGED <<next_id, first_id, ready, flushed>>
           SameTables == UNCHANGED <<place, lo, cur, pending>>
           SameContexts == UNCHANGED <<status, isolation, writes>>
<1>c. ASSUME UNCHANGED flushed
      PROVE  \A t \in Ids : Covered(t)' <=> Covered(t)
  BY <1>c DEF Covered, get_checkpoint_tranc_id
<1>1. CASE OpenNew \/ OpenFails
  <2>1. SameManager /\ SameTables /\ SameContexts
    BY <1>1 DEF OpenNew, OpenFails, manager, contexts, tables
  <2>2. up # "up"
    BY <1>1 DEF OpenNew, OpenFails
  <2>3. StoppedIsIdle' /\ FreshIds' /\ MarkerIsOfCommit' /\ PendingIsFlushed' /\ MarkerComesLast'
    BY <1>a, <2>1, <2>2 DEF StoppedIsIdle, FreshIds, MarkerIsOfCommit, PendingIsFlushed,
                            MarkerComesLast, InMemory, InSst
  <2>4. ReadyTellsOutcome' /\ CheckpointIsSafe'
    BY <1>a, <1>c, <2>1 DEF ReadyTellsOutcome, CheckpointIsSafe, InSst
  <2> QED
    BY <1>0, <2>3, <2>4 DEF IInv
<1>3. CASE Reopen
  <2>1. /\ pending' = {} /\ up' = "up"
        /\ \A t \in Ids : status'[t] = "none" /\ ready'[t] = "absent" /\ status[t] = "none"
    BY <1>3, <1>a DEF Reopen, contexts, StoppedIsIdle
  <2>2. \A t \in Ids : place'[t][0] = place[t][0]
    BY <1>3, <1>b DEF Reopen
  <2>3. lo' = lo
    BY <1>3 DEF Reopen
  <2>4. StoppedIsIdle' /\ ReadyTellsOutcome' /\ PendingIsFlushed' /\ MarkerComesLast'
    BY <2>1 DEF StoppedIsIdle, ReadyTellsOutcome, PendingIsFlushed, MarkerComesLast
  <2>5. MarkerIsOfCommit'
    BY <1>a, <2>1, <2>2, <2>3 DEF MarkerIsOfCommit, InMemory
  <2>6. FreshIds'
    <3>1. first_id' = next_id' /\ next_id' \in Nat
      BY <1>3, <1>0, TranManagerParameters DEF Reopen, TypeOK
    <3> QED
      BY <2>1, <3>1 DEF FreshIds
  <2>7. CheckpointIsSafe'
    <3>1. file.next - 1 \in Nat
      BY <1>a, TranManagerParameters DEF TypeOK, File
    <3>2. flushed' = {file.next - 1} /\ first_id' = (file.next - 1) + 1
      BY <1>3, <1>a DEF Reopen, TypeOK, File
    <3>3. \A t \in Ids : t >= first_id' => ~ Covered(t)'
      <4>1. Least(flushed') = file.next - 1
        BY <3>1, <3>2, LeastOfOne
      <4> QED
        BY <1>b, <3>1, <3>2, <4>1 DEF Covered, get_checkpoint_tranc_id
    <3> QED
      BY <3>3 DEF CheckpointIsSafe
  <2> QED
    BY <1>0, <2>4, <2>5, <2>6, <2>7 DEF IInv
<1>4. ASSUME NEW level \in Isolations, new_tranc(level)
      PROVE  IInv'
  <2>1. /\ next_id \in Ids /\ next_id' = next_id + 1 /\ up = "up"
        /\ SameTables
        /\ UNCHANGED <<up, ready, flushed, first_id>>
    BY <1>4 DEF new_tranc, getNextTransactionId, tables
  <2>2. \A t \in Ids : /\ status'[t] = IF t = next_id THEN "active" ELSE status[t]
                       /\ writes'[t] = IF t = next_id THEN 0 ELSE writes[t]
                       /\ t # next_id => isolation'[t] = isolation[t]
    BY <1>4, <1>a DEF new_tranc, TypeOK
  <2>3. status[next_id] = "none" /\ ready[next_id] = "absent"
    BY <1>a, <1>b, <2>1 DEF FreshIds
  <2>4. StoppedIsIdle'
    BY <2>1 DEF StoppedIsIdle
  <2>5. FreshIds'
    BY <1>a, <1>b, <2>1, <2>2, <2>3 DEF FreshIds
  <2>6. ReadyTellsOutcome'
    BY <1>a, <1>c, <2>1, <2>2, <2>3 DEF ReadyTellsOutcome
  <2>7. MarkerIsOfCommit'
    BY <1>a, <2>1, <2>2, <2>3 DEF MarkerIsOfCommit, InMemory
  <2>8. PendingIsFlushed'
    <3>1. pending \subseteq Ids
      BY <1>a DEF TypeOK
    <3> QED
      BY <1>a, <2>1, <2>2, <2>3, <3>1 DEF PendingIsFlushed, InSst
  <2>9. MarkerComesLast'
    BY <1>a, <2>1, <2>2 DEF MarkerComesLast
  <2>10. CheckpointIsSafe'
    BY <1>a, <1>c, <2>1, <2>2, <2>3 DEF CheckpointIsSafe, InSst
  <2> QED
    BY <1>0, <2>4, <2>5, <2>6, <2>7, <2>8, <2>9, <2>10 DEF IInv
<1>5. CASE LsmGet
  <2>1. /\ next_id \in Ids /\ next_id' = next_id + 1 /\ up = "up"
        /\ SameTables /\ SameContexts
        /\ UNCHANGED <<up, ready, flushed, first_id>>
    BY <1>5 DEF LsmGet, getNextTransactionId, tables, contexts
  <2>2. FreshIds'
    BY <1>a, <1>b, <2>1 DEF FreshIds
  <2>3. StoppedIsIdle' /\ MarkerIsOfCommit' /\ PendingIsFlushed' /\ MarkerComesLast'
    BY <1>a, <2>1 DEF StoppedIsIdle, MarkerIsOfCommit, PendingIsFlushed,
                      MarkerComesLast, InMemory, InSst
  <2>4. ReadyTellsOutcome' /\ CheckpointIsSafe'
    BY <1>a, <1>c, <2>1 DEF ReadyTellsOutcome, CheckpointIsSafe, InSst
  <2> QED
    BY <1>0, <2>2, <2>3, <2>4 DEF IInv
<1>6. CASE LsmPut
  <2>1. /\ next_id \in Ids /\ next_id' = next_id + 1 /\ up = "up"
        /\ SameContexts
        /\ UNCHANGED <<up, ready, flushed, first_id, lo, cur, pending>>
    BY <1>6 DEF LsmPut, getNextTransactionId, contexts
  <2>2. \A t \in Ids : \A n \in Pieces :
          place'[t][n] = IF t = next_id /\ n \in {1} THEN cur ELSE place[t][n]
    BY <1>6, <1>a, <2>1, PutPiecesEffect DEF LsmPut
  <2>3. status[next_id] = "none"
    BY <1>a, <1>b, <2>1 DEF FreshIds
  <2>4. \A t \in Ids : /\ place'[t][0] = place[t][0]
                       /\ t # next_id => \A n \in Pieces : place'[t][n] = place[t][n]
    BY <1>b, <2>2
  <2>5. StoppedIsIdle' /\ FreshIds'
    BY <1>a, <1>b, <2>1 DEF StoppedIsIdle, FreshIds
  <2>6. ReadyTellsOutcome'
    BY <1>a, <1>c, <2>1 DEF ReadyTellsOutcome
  <2>7. MarkerIsOfCommit'
    BY <1>a, <2>1, <2>4 DEF MarkerIsOfCommit, InMemory
  <2>8. PendingIsFlushed'
    <3>1. pending \subseteq Ids
      BY <1>a DEF TypeOK
    <3> QED
      BY <1>a, <2>1, <2>4, <3>1 DEF PendingIsFlushed, InSst
  <2>9. MarkerComesLast'
    BY <1>a, <1>b, <2>1, <2>3, <2>4 DEF MarkerComesLast
  <2>10. CheckpointIsSafe'
    BY <1>a, <1>b, <1>c, <2>1, <2>3, <2>4 DEF CheckpointIsSafe, InSst
  <2> QED
    BY <1>0, <2>5, <2>6, <2>7, <2>8, <2>9, <2>10 DEF IInv
<1>7. ASSUME NEW t \in Ids, Write(t)
      PROVE  IInv'
  <2>1. /\ SameManager /\ up = "up" /\ status[t] = "active"
        /\ UNCHANGED <<up, status, isolation, lo, cur, pending>>
    BY <1>7 DEF Write, manager
  <2>2. \A s \in Ids : writes'[s] = IF s = t THEN writes[t] + 1 ELSE writes[s]
    BY <1>7, <1>a DEF Write, TypeOK
  <2>3. \A s \in Ids : \A n \in Pieces :
          place'[s][n] = IF s = t /\ isolation[t] = "RU" /\ n = writes[t] + 1
                           THEN cur ELSE place[s][n]
    <3>1. CASE isolation[t] = "RU"
      <4>1. PutPieces(t, {writes[t] + 1})
        BY <1>7, <3>1 DEF Write
      <4> QED
        BY <1>a, <3>1, <4>1, PutPiecesEffect
    <3>2. CASE isolation[t] # "RU"
      BY <1>7, <3>2 DEF Write
    <3> QED
      BY <3>1, <3>2
  <2>4. \A s \in Ids : /\ place'[s][0] = place[s][0]
                       /\ s # t => \A n \in Pieces : place'[s][n] = place[s][n]
    BY <1>b, <2>3
  <2>5. StoppedIsIdle' /\ FreshIds'
    BY <1>a, <2>1 DEF StoppedIsIdle, FreshIds
  <2>6. ReadyTellsOutcome'
    BY <1>a, <1>c, <2>1 DEF ReadyTellsOutcome
  <2>7. MarkerIsOfCommit'
    BY <1>a, <2>1, <2>4 DEF MarkerIsOfCommit, InMemory
  <2>8. PendingIsFlushed'
    <3>1. pending \subseteq Ids
      BY <1>a DEF TypeOK
    <3> QED
      BY <1>a, <2>1, <2>4, <3>1 DEF PendingIsFlushed, InSst
  <2>9. MarkerComesLast'
    <3>1. ASSUME NEW s \in Ids, s # t
          PROVE  /\ writes'[s] = writes[s] /\ place'[s][0] = place[s][0]
                 /\ \A n \in 1..writes[s] : place'[s][n] = place[s][n]
      BY <1>b, <2>2, <2>4, <3>1
    <3>2. ASSUME isolation[t] = "RU"
          PROVE  \A n \in 1..writes'[t] : place'[t][n] \in 1..cur
      <4>1. writes'[t] \in Nat /\ 1..writes'[t] \subseteq Pieces /\ writes'[t] = writes[t] + 1
        BY <1>0, <2>2, TranManagerParameters DEF TypeOK, Pieces
      <4>2. TAKE n \in 1..writes'[t]
      <4>3. CASE n = writes[t] + 1
        BY <1>b, <2>3, <3>2, <4>1, <4>3
      <4>4. CASE n # writes[t] + 1
        <5>1. n \in 1..writes[t] /\ n \in Pieces
          BY <1>b, <4>1, <4>4
        <5>2. place[t][n] \in 1..cur
          BY <1>a, <2>1, <3>2, <5>1 DEF MarkerComesLast
        <5> QED
          BY <2>3, <4>4, <5>1, <5>2
      <4> QED
        BY <4>3, <4>4
    <3> QED
      BY <1>a, <2>1, <3>1, <3>2 DEF MarkerComesLast
  <2>10. CheckpointIsSafe'
    <3>1. ASSUME NEW s \in Ids, s # t
          PROVE  /\ writes'[s] = writes[s]
                 /\ \A n \in 1..writes[s] : place'[s][n] = place[s][n]
      BY <1>b, <2>2, <2>4, <3>1
    <3> QED
      BY <1>a, <1>c, <2>1, <3>1 DEF CheckpointIsSafe, InSst
  <2> QED
    BY <1>0, <2>5, <2>6, <2>7, <2>8, <2>9, <2>10 DEF IInv
<1>d. ASSUME NEW t \in Ids, status[t] \in {"active", "logged", "marked"}
      PROVE  ~ Covered(t) /\ first_id <= t /\ t < next_id
  BY <1>a, <1>b, <1>d DEF CheckpointIsSafe, FreshIds
<1>l. ASSUME NEW t \in Ids, CommitLog(t)
      PROVE  IInv'
  <2>1. /\ up = "up" /\ status[t] = "active" /\ isolation[t] = "buffered"
        /\ SameManager /\ SameTables
        /\ UNCHANGED <<up, isolation, writes>>
    BY <1>l DEF CommitLog, manager, tables
  <2>2. \A s \in Ids : status'[s] = IF s = t THEN "logged" ELSE status[s]
    BY <1>l, <1>a DEF CommitLog, TypeOK
  <2>3. StoppedIsIdle' /\ FreshIds'
    BY <1>a, <1>b, <1>d, <2>1, <2>2 DEF StoppedIsIdle, FreshIds
  <2>4. ReadyTellsOutcome'
    BY <1>a, <1>c, <2>1, <2>2 DEF ReadyTellsOutcome
  <2>5. MarkerIsOfCommit' /\ MarkerComesLast'
    BY <1>a, <2>1, <2>2 DEF MarkerIsOfCommit, MarkerComesLast, InMemory
  <2>6. PendingIsFlushed'
    <3>1. pending \subseteq Ids
      BY <1>a DEF TypeOK
    <3> QED
      BY <1>a, <2>1, <2>2, <3>1 DEF PendingIsFlushed, InSst
  <2>7. CheckpointIsSafe'
    BY <1>a, <1>c, <1>d, <2>1, <2>2 DEF CheckpointIsSafe, InSst
  <2> QED
    BY <1>0, <2>3, <2>4, <2>5, <2>6, <2>7 DEF IInv
<1>s. ASSUME NEW t \in Ids, CommitTestFail(t)
      PROVE  IInv'
  <2>1. /\ up = "up" /\ status[t] = "logged" /\ SameTables
        /\ UNCHANGED <<up, next_id, first_id, flushed, isolation, writes>>
    BY <1>s DEF CommitTestFail, tables
  <2>2. \A s \in Ids : /\ status'[s] = IF s = t THEN "skipped" ELSE status[s]
                       /\ ready'[s] = IF s = t THEN "OP_COMMITTED" ELSE ready[s]
    BY <1>s, <1>a DEF CommitTestFail, add_ready_to_flush_tranc_id, TypeOK
  <2>3. StoppedIsIdle' /\ FreshIds'
    BY <1>a, <1>b, <1>d, <2>1, <2>2 DEF StoppedIsIdle, FreshIds
  <2>4. ReadyTellsOutcome'
    BY <1>a, <1>c, <1>d, <2>1, <2>2 DEF ReadyTellsOutcome
  <2>5. MarkerIsOfCommit' /\ MarkerComesLast'
    BY <1>a, <2>1, <2>2 DEF MarkerIsOfCommit, MarkerComesLast, InMemory
  <2>6. PendingIsFlushed'
    <3>1. pending \subseteq Ids
      BY <1>a DEF TypeOK
    <3> QED
      BY <1>a, <2>1, <2>2, <3>1 DEF PendingIsFlushed, InSst
  <2>7. CheckpointIsSafe'
    BY <1>a, <1>c, <1>d, <2>1, <2>2 DEF CheckpointIsSafe, InSst
  <2> QED
    BY <1>0, <2>3, <2>4, <2>5, <2>6, <2>7 DEF IInv
<1>8. ASSUME NEW t \in Ids, Commit(t)
      PROVE  IInv'
  <2>1. /\ up = "up" /\ status[t] = "logged"
        /\ UNCHANGED <<up, next_id, first_id, flushed, isolation, writes, lo, cur, pending>>
    BY <1>8 DEF Commit
  <2>2. \A s \in Ids : /\ status'[s] = IF s = t THEN "committed" ELSE status[s]
                       /\ ready'[s] = IF s = t THEN "OP_COMMITTED" ELSE ready[s]
    BY <1>8, <1>a DEF Commit, add_ready_to_flush_tranc_id, TypeOK
  <2>3. \A s \in Ids : \A n \in Pieces :
          place'[s][n] = IF s = t /\ n \in 0..writes[t] THEN cur ELSE place[s][n]
    <3> DEFINE P == 0..writes[t]
    <3>1. PutPieces(t, P)
      BY <1>8 DEF Commit, BufferedApply
    <3> HIDE DEF P
    <3>2. \A s \in Ids : \A n \in Pieces :
            place'[s][n] = IF s = t /\ n \in P THEN cur ELSE place[s][n]
      BY <1>a, <3>1, PutPiecesEffect
    <3> QED
      BY <3>2 DEF P
  <2>4. \A s \in Ids : s # t => \A n \in Pieces : place'[s][n] = place[s][n]
    BY <2>3
  <2>5. place'[t][0] = cur /\ \A n \in 1..writes[t] : place'[t][n] = cur
    BY <1>b, <2>3
  <2>6. StoppedIsIdle' /\ FreshIds'
    BY <1>a, <1>b, <1>d, <2>1, <2>2 DEF StoppedIsIdle, FreshIds
  <2>7. ReadyTellsOutcome'
    BY <1>a, <1>c, <1>d, <2>1, <2>2 DEF ReadyTellsOutcome
  <2>8. MarkerIsOfCommit'
    BY <1>a, <1>b, <2>1, <2>2, <2>4 DEF MarkerIsOfCommit, InMemory
  <2>9. PendingIsFlushed'
    <3>1. pending \subseteq Ids
      BY <1>a DEF TypeOK
    <3> QED
      BY <1>a, <1>b, <2>1, <2>2, <2>4, <3>1 DEF PendingIsFlushed, InSst
  <2>10. MarkerComesLast'
    <3>1. cur \in 1..cur
      BY <1>b
    <3> QED
      BY <1>a, <1>b, <2>1, <2>2, <2>4, <2>5, <3>1 DEF MarkerComesLast
  <2>11. CheckpointIsSafe'
    BY <1>a, <1>b, <1>c, <1>d, <2>1, <2>2, <2>4 DEF CheckpointIsSafe, InSst
  <2> QED
    BY <1>0, <2>6, <2>7, <2>8, <2>9, <2>10, <2>11 DEF IInv
<1>9. ASSUME NEW t \in Ids, CommitRUMark(t)
      PROVE  IInv'
  <2>1. /\ up = "up" /\ status[t] = "active" /\ isolation[t] = "RU"
        /\ SameManager
        /\ UNCHANGED <<up, isolation, writes, lo, cur, pending>>
    BY <1>9 DEF CommitRUMark, manager
  <2>2. \A s \in Ids : status'[s] = IF s = t THEN "marked" ELSE status[s]
    BY <1>9, <1>a DEF CommitRUMark, TypeOK
  <2>3. \A s \in Ids : \A n \in Pieces :
          place'[s][n] = IF s = t /\ n \in {0} THEN cur ELSE place[s][n]
    BY <1>9, <1>a, PutPiecesEffect DEF CommitRUMark
  <2>4. /\ \A s \in Ids : s # t => \A n \in Pieces : place'[s][n] = place[s][n]
        /\ place'[t][0] = cur
        /\ \A n \in 1..writes[t] : place'[t][n] = place[t][n]
    BY <1>b, <2>3
  <2>5. StoppedIsIdle' /\ FreshIds'
    BY <1>a, <1>b, <1>d, <2>1, <2>2 DEF StoppedIsIdle, FreshIds
  <2>6. ReadyTellsOutcome'
    BY <1>a, <1>c, <2>1, <2>2 DEF ReadyTellsOutcome
  <2>7. MarkerIsOfCommit'
    BY <1>a, <1>b, <2>1, <2>2, <2>4 DEF MarkerIsOfCommit, InMemory
  <2>8. PendingIsFlushed'
    <3>1. pending \subseteq Ids
      BY <1>a DEF TypeOK
    <3> QED
      BY <1>a, <1>b, <2>1, <2>2, <2>4, <3>1 DEF PendingIsFlushed, InSst
  <2>9. MarkerComesLast'
    <3>1. cur \in 1..cur
      BY <1>b
    <3> QED
      BY <1>a, <1>b, <2>1, <2>2, <2>4, <3>1 DEF MarkerComesLast
  <2>10. CheckpointIsSafe'
    BY <1>a, <1>b, <1>c, <1>d, <2>1, <2>2, <2>4 DEF CheckpointIsSafe, InSst
  <2> QED
    BY <1>0, <2>5, <2>6, <2>7, <2>8, <2>9, <2>10 DEF IInv
<1>10. ASSUME NEW t \in Ids, CommitRUReady(t)
       PROVE  IInv'
  <2>1. /\ up = "up" /\ status[t] = "marked" /\ SameTables
        /\ UNCHANGED <<up, next_id, first_id, flushed, isolation, writes>>
    BY <1>10 DEF CommitRUReady, tables
  <2>2. \A s \in Ids : /\ status'[s] = IF s = t THEN "committed" ELSE status[s]
                       /\ ready'[s] = IF s = t THEN "OP_COMMITTED" ELSE ready[s]
    BY <1>10, <1>a DEF CommitRUReady, add_ready_to_flush_tranc_id, TypeOK
  <2>3. StoppedIsIdle' /\ FreshIds'
    BY <1>a, <1>b, <1>d, <2>1, <2>2 DEF StoppedIsIdle, FreshIds
  <2>4. ReadyTellsOutcome'
    BY <1>a, <1>c, <1>d, <2>1, <2>2 DEF ReadyTellsOutcome
  <2>5. MarkerIsOfCommit' /\ MarkerComesLast'
    BY <1>a, <2>1, <2>2 DEF MarkerIsOfCommit, MarkerComesLast, InMemory
  <2>6. PendingIsFlushed'
    <3>1. pending \subseteq Ids
      BY <1>a DEF TypeOK
    <3> QED
      BY <1>a, <2>1, <2>2, <3>1 DEF PendingIsFlushed, InSst
  <2>7. CheckpointIsSafe'
    BY <1>a, <1>c, <1>d, <2>1, <2>2 DEF CheckpointIsSafe, InSst
  <2> QED
    BY <1>0, <2>3, <2>4, <2>5, <2>6, <2>7 DEF IInv
<1>11. ASSUME NEW t \in Ids, Abort(t)
       PROVE  IInv'
  <2>1. /\ up = "up" /\ status[t] = "active" /\ SameTables
        /\ UNCHANGED <<up, next_id, first_id, flushed, isolation, writes>>
    BY <1>11 DEF Abort, tables
  <2>2. \A s \in Ids : /\ status'[s] = IF s = t THEN "aborted" ELSE status[s]
                       /\ ready'[s] = IF s = t THEN "ABORTED" ELSE ready[s]
    BY <1>11, <1>a DEF Abort, add_ready_to_flush_tranc_id, TypeOK
  <2>3. StoppedIsIdle' /\ FreshIds'
    BY <1>a, <1>b, <1>d, <2>1, <2>2 DEF StoppedIsIdle, FreshIds
  <2>4. ReadyTellsOutcome'
    BY <1>a, <1>c, <1>d, <2>1, <2>2 DEF ReadyTellsOutcome
  <2>5. MarkerIsOfCommit' /\ MarkerComesLast'
    BY <1>a, <2>1, <2>2 DEF MarkerIsOfCommit, MarkerComesLast, InMemory
  <2>6. PendingIsFlushed'
    <3>1. pending \subseteq Ids
      BY <1>a DEF TypeOK
    <3> QED
      BY <1>a, <2>1, <2>2, <3>1 DEF PendingIsFlushed, InSst
  <2>7. CheckpointIsSafe'
    BY <1>a, <1>c, <1>d, <2>1, <2>2 DEF CheckpointIsSafe, InSst
  <2> QED
    BY <1>0, <2>3, <2>4, <2>5, <2>6, <2>7 DEF IInv
<1>12. ASSUME NEW t \in Ids, add_flushed_tranc_id(t)
       PROVE  IInv'
  <2> DEFINE S == flushed \cup FlushedWith(t)
  <2>1. /\ up = "up" /\ t \in pending
        /\ flushed' = CompressSet(S)
        /\ pending' = pending \ {t}
        /\ SameContexts
        /\ UNCHANGED <<up, next_id, first_id, place, lo, cur>>
    BY <1>12 DEF add_flushed_tranc_id, contexts
  <2>2. \A s \in Ids : ready'[s] = IF s \in FlushedWith(t) THEN "absent" ELSE ready[s]
    BY <1>12 DEF add_flushed_tranc_id
  <2>3. S \in SUBSET (0..MaxId) /\ S # {}
    BY <1>a, FlushedType
  <2>4. ASSUME NEW s \in Ids, Covered(s)'
        PROVE  Covered(s) \/ s \in FlushedWith(t)
    <3>1. s \in Nat
      BY <1>b
    <3>2. s <= Least(S) \/ s \in S
      <4> HIDE DEF S
      <4> QED
        BY <2>1, <2>3, <2>4, <3>1, CompressSetCovers, TranManagerParameters
          DEF Covered, get_checkpoint_tranc_id
    <3>3. Least(S) \in Nat /\ \A y \in S : Least(S) <= y
      <4>1. S \in SUBSET Nat
        BY <2>3
      <4> HIDE DEF S
      <4> QED
        BY <2>3, <4>1, LeastIsLeast
    <3>4. Least(flushed) \in Nat /\ Least(flushed) \in S
      <4>1. flushed \in SUBSET Nat /\ flushed # {}
        BY <1>a DEF TypeOK
      <4> QED
        BY <4>1, LeastIsLeast
    <3>5. Least(S) <= Least(flushed)
      BY <3>3, <3>4
    <3> QED
      BY <3>1, <3>2, <3>3, <3>4, <3>5 DEF Covered, get_checkpoint_tranc_id
  <2>5. StoppedIsIdle' /\ FreshIds'
    BY <1>a, <2>1, <2>2 DEF StoppedIsIdle, FreshIds
  <2>6. ReadyTellsOutcome'
    BY <1>a, <2>1, <2>2, <2>4 DEF ReadyTellsOutcome
  <2>7. MarkerIsOfCommit' /\ MarkerComesLast' /\ PendingIsFlushed'
    BY <1>a, <2>1 DEF MarkerIsOfCommit, MarkerComesLast, PendingIsFlushed, InMemory, InSst
  <2>8. CheckpointIsSafe'
    <3>1. ASSUME NEW s \in Ids, s \in FlushedWith(t), status[s] # "aborted"
          PROVE  /\ status[s] = "committed"
                 /\ \A n \in 1..writes[s] : InSst(s, n)
      <4>1. s = t /\ status[s] = "committed"
        BY <1>a, <2>1, <3>1 DEF FlushedWith, ReadyTellsOutcome, PendingIsFlushed, TypeOK
      <4>2. InSst(s, 0)
        BY <1>a, <2>1, <4>1 DEF PendingIsFlushed
      <4>3. \A n \in 1..writes[s] : place[s][n] \in 1..place[s][0]
        BY <1>a, <4>1 DEF MarkerComesLast
      <4> QED
        BY <1>b, <4>1, <4>2, <4>3 DEF InSst
    <3> QED
      BY <1>a, <2>1, <2>4, <3>1 DEF CheckpointIsSafe, InSst
  <2> QED
    BY <1>0, <2>5, <2>6, <2>7, <2>8 DEF IInv
<1>13. CASE Freeze
  <2>1. /\ SameManager /\ SameContexts /\ cur' = cur + 1
        /\ UNCHANGED <<up, place, lo, pending>>
    BY <1>13 DEF Freeze, manager, contexts
  <2>2. StoppedIsIdle' /\ FreshIds' /\ MarkerIsOfCommit' /\ PendingIsFlushed'
    BY <1>a, <2>1 DEF StoppedIsIdle, FreshIds, MarkerIsOfCommit, PendingIsFlushed,
                      InMemory, InSst
  <2>3. ReadyTellsOutcome' /\ CheckpointIsSafe'
    BY <1>a, <1>c, <2>1 DEF ReadyTellsOutcome, CheckpointIsSafe, InSst
  <2>4. MarkerComesLast'
    <3>1. 1..cur \subseteq 1..cur'
      BY <1>b, <2>1
    <3> QED
      BY <1>a, <2>1, <3>1 DEF MarkerComesLast
  <2> QED
    BY <1>0, <2>2, <2>3, <2>4 DEF IInv
<1>14. CASE Flush
  <2>1. /\ SameManager /\ SameContexts /\ lo' = lo + 1 /\ up = "up"
        /\ pending' = {t \in Ids : place[t][0] = lo}
        /\ UNCHANGED <<up, place>>
    BY <1>14 DEF Flush, manager, contexts
  <2>2. cur' \in Nat /\ cur <= cur'
    BY <1>14, <1>b DEF Flush
  <2>3. StoppedIsIdle' /\ FreshIds'
    BY <1>a, <2>1 DEF StoppedIsIdle, FreshIds
  <2>4. ReadyTellsOutcome'
    BY <1>a, <1>c, <2>1 DEF ReadyTellsOutcome
  <2>5. MarkerIsOfCommit'
    BY <1>a, <1>b, <2>1 DEF MarkerIsOfCommit, InMemory
  <2>6. PendingIsFlushed'
    BY <1>a, <1>b, <2>1 DEF MarkerIsOfCommit, PendingIsFlushed, InMemory, InSst
  <2>7. MarkerComesLast'
    <3>1. 1..cur \subseteq 1..cur'
      BY <1>b, <2>2
    <3> QED
      BY <1>a, <2>1, <3>1 DEF MarkerComesLast
  <2>8. CheckpointIsSafe'
    <3>1. 1..(lo - 1) \subseteq 1..(lo' - 1)
      BY <1>b, <2>1
    <3> QED
      BY <1>a, <1>c, <2>1, <3>1 DEF CheckpointIsSafe, InSst
  <2> QED
    BY <1>0, <2>3, <2>4, <2>5, <2>6, <2>7, <2>8 DEF IInv
<1>15. CASE Shutdown \/ Crash
  <2>1. Forget /\ lo' = lo
    BY <1>15 DEF Shutdown, Crash
  <2>2. /\ pending' = {} /\ next_id' = 1 /\ first_id' = 1 /\ flushed' = {0}
        /\ \A t \in Ids : status'[t] = "none" /\ ready'[t] = "absent"
    BY <2>1 DEF Forget
  <2>3. \A t \in Ids : ~ (place'[t][0] >= lo)
    <3>1. CASE Shutdown
      BY <1>b, <3>1 DEF Shutdown, MemtableEmpty, InMemory
    <3>2. CASE Crash
      BY <1>b, <3>2 DEF Crash, InMemory
    <3> QED
      BY <1>15, <3>1, <3>2
  <2>4. /\ StoppedIsIdle' /\ FreshIds' /\ ReadyTellsOutcome' /\ PendingIsFlushed'
        /\ MarkerComesLast'
    BY <2>2 DEF StoppedIsIdle, FreshIds, ReadyTellsOutcome, PendingIsFlushed, MarkerComesLast
  <2>5. MarkerIsOfCommit'
    BY <2>1, <2>3 DEF MarkerIsOfCommit, InMemory
  <2>6. CheckpointIsSafe'
    <3>1. Least(flushed') = 0
      BY <2>2, LeastOfOne
    <3> QED
      BY <1>b, <2>2, <3>1 DEF CheckpointIsSafe, Covered, get_checkpoint_tranc_id
  <2> QED
    BY <1>0, <2>4, <2>5, <2>6 DEF IInv
<1>16. CASE UNCHANGED vars
  <2>1. SameManager /\ SameContexts /\ SameTables /\ UNCHANGED up
    BY <1>16 DEF vars
  <2>2. StoppedIsIdle' /\ FreshIds' /\ MarkerIsOfCommit' /\ PendingIsFlushed' /\ MarkerComesLast'
    BY <1>a, <2>1 DEF StoppedIsIdle, FreshIds, MarkerIsOfCommit, PendingIsFlushed,
                      MarkerComesLast, InMemory, InSst
  <2>3. ReadyTellsOutcome' /\ CheckpointIsSafe'
    BY <1>a, <1>c, <2>1 DEF ReadyTellsOutcome, CheckpointIsSafe, InSst
  <2> QED
    BY <1>0, <2>2, <2>3 DEF IInv
<1> QED
  BY <1>1, <1>3, <1>4, <1>5, <1>6, <1>7, <1>l, <1>8, <1>s, <1>9, <1>10, <1>11, <1>12, <1>13,
     <1>14, <1>15, <1>16 DEF Next

-----------------------------------------------------------------------------
\* The theorems.

\* The initial state satisfies the invariant.
LEMMA InvInit == Init => IInv
<1> SUFFICES ASSUME Init
             PROVE  IInv
  OBVIOUS
<1>1. TypeOK
  BY TypeInit
<1>2. /\ up = "down" /\ pending = {} /\ next_id = 1 /\ first_id = 1
      /\ lo = 1 /\ flushed = {0}
      /\ \A t \in Ids : status[t] = "none" /\ ready[t] = "absent"
    BY DEF Init
<1>3. \A t \in Ids : place[t][0] = 0 /\ t \in Nat /\ t >= 1
  <2>1. 0 \in Pieces /\ \A t \in Ids : t \in Nat /\ t >= 1
    BY <1>1, Numbers
  <2> QED
    BY <2>1 DEF Init
<1>4. /\ StoppedIsIdle /\ FreshIds /\ ReadyTellsOutcome /\ PendingIsFlushed
      /\ MarkerComesLast
  BY <1>2 DEF StoppedIsIdle, FreshIds, ReadyTellsOutcome, PendingIsFlushed, MarkerComesLast
<1>5. MarkerIsOfCommit
  BY <1>2, <1>3 DEF MarkerIsOfCommit, InMemory
<1>6. CheckpointIsSafe
  <2>1. Least(flushed) = 0
    BY <1>2, LeastOfOne
  <2> QED
    BY <1>2, <1>3, <2>1 DEF CheckpointIsSafe, Covered, get_checkpoint_tranc_id
<1> QED
  BY <1>1, <1>4, <1>5, <1>6 DEF IInv

\* Recovery never skips, and the WAL cleaner never gives up, a committed
\* transaction whose writes are still in a memtable: whatever the order of
\* commits, aborts and flushes, get_checkpoint_tranc_id and flushedTrancIds_ only
\* cover transactions that are over and whose writes are in SSTs.
THEOREM CheckpointSafe == Spec => []CheckpointIsSafe
<1>1. IInv => CheckpointIsSafe
  BY DEF IInv
<1> QED
  BY <1>1, InvInit, InvStep, PTL DEF Spec

\* An action of the running program leaves the checkpoint where it is or moves
\* it up.
LEMMA RetreatStep ==
  ASSUME IInv, [Next]_vars, up = "up", up' = "up"
  PROVE  Least(flushed) <= Least(flushed')
<1>1. /\ Least(flushed) \in Nat /\ Least(flushed) \in flushed
      /\ \A y \in flushed : Least(flushed) <= y
  <2>1. flushed \in SUBSET Nat /\ flushed # {}
    BY DEF IInv, TypeOK
  <2> QED
    BY <2>1, LeastIsLeast
<1>2. ASSUME NEW t \in Ids, add_flushed_tranc_id(t)
      PROVE  Least(flushed) <= Least(flushed')
  <2> DEFINE S == flushed \cup FlushedWith(t)
  <2>1. S \in SUBSET (0..MaxId) /\ S # {}
    BY FlushedType DEF IInv
  <2>2. \A y \in S : Least(flushed) <= y
    <3>1. ASSUME NEW y \in FlushedWith(t)
          PROVE  Least(flushed) <= y
      <4>1. y \in Ids /\ ready[y] # "absent"
        BY DEF FlushedWith
      <4>2. y \in Nat
        BY <4>1, TranManagerParameters DEF Ids
      <4>3. ~ Covered(y)
        BY <4>1 DEF IInv, ReadyTellsOutcome
      <4> QED
        BY <1>1, <4>2, <4>3 DEF Covered, get_checkpoint_tranc_id
    <3> QED
      BY <1>1, <3>1
  <2>3. flushed' = CompressSet(S)
    BY <1>2 DEF add_flushed_tranc_id
  <2> HIDE DEF S
  <2>4. flushed' \in SUBSET S /\ flushed' # {} /\ flushed' \in SUBSET Nat
    <3>1. CompressSet(S) \in SUBSET S /\ CompressSet(S) # {}
      BY <2>1, CompressSetNonempty, TranManagerParameters
    <3>2. S \in SUBSET Nat
      BY <2>1
    <3>3. flushed' \in SUBSET S /\ flushed' # {}
      BY <2>3, <3>1
    <3> QED
      BY <3>2, <3>3
  <2>5. Least(flushed') \in flushed'
    BY <2>4, LeastIsLeast
  <2> QED
    BY <2>2, <2>4, <2>5
<1>3. ASSUME UNCHANGED flushed
      PROVE  Least(flushed) <= Least(flushed')
  BY <1>1, <1>3
<1>4. ASSUME NEW level \in Isolations, new_tranc(level)
      PROVE  UNCHANGED flushed
  BY <1>4 DEF new_tranc
<1>5. CASE LsmGet \/ LsmPut \/ Freeze \/ Flush \/ UNCHANGED vars
  BY <1>3, <1>5 DEF LsmGet, LsmPut, Freeze, Flush, vars, manager
<1>6. ASSUME NEW t \in Ids,
             \/ Write(t) \/ CommitLog(t) \/ Commit(t) \/ CommitTestFail(t)
             \/ CommitRUMark(t) \/ CommitRUReady(t) \/ Abort(t)
      PROVE  UNCHANGED flushed
  BY <1>6 DEF Write, CommitLog, Commit, CommitTestFail, CommitRUMark, CommitRUReady, Abort,
              manager
<1>7. ~ OpenNew /\ ~ OpenFails /\ ~ Reopen /\ ~ Shutdown /\ ~ Crash
  BY DEF OpenNew, OpenFails, Reopen, Shutdown, Crash, Forget
<1> QED
  BY <1>2, <1>3, <1>4, <1>5, <1>6, <1>7 DEF Next

\* While the program runs its checkpoint never moves back: add_flushed_tranc_id
\* only inserts ids above it, and compressSet only raises the smallest one.
THEOREM CheckpointMonotone == Spec => CheckpointNeverRetreats
<1>1. IInv /\ [Next]_vars => [up = "up" /\ up' = "up" => Least(flushed) <= Least(flushed')]_vars
  BY RetreatStep
<1> QED
  BY <1>1, InvInit, InvStep, PTL DEF Spec, CheckpointNeverRetreats

-----------------------------------------------------------------------------
\* Flushed commits are recorded.

\* compressSet takes out only what lies below the smallest id it keeps.
LEMMA CompressSetKeeps ==
  ASSUME NEW N \in Nat, NEW S \in SUBSET (0..N), S # {},
         NEW x \in Nat, x <= Least(S) \/ x \in S
  PROVE  x <= Least(CompressSet(S)) \/ x \in CompressSet(S)
<1> DEFINE C == CompressSet(S)
<1>1. C \in SUBSET S /\ C # {}
  BY CompressSetNonempty
<1>2. Least(S) \in Nat /\ \A y \in S : Least(S) <= y
  BY LeastIsLeast, S \in SUBSET Nat
<1>3. Least(C) \in C /\ Least(C) \in Nat
  <2> HIDE DEF C
  <2>1. C \in SUBSET Nat
    BY <1>1
  <2> QED
    BY <1>1, <2>1, LeastIsLeast
<1>4. ~ (Least(S)..(Least(C) + 1) \subseteq S)
  BY <1>3 DEF CompressSet
<1>5. CASE x <= Least(S)
  <2> HIDE DEF C
  <2>1. Least(S) <= Least(C)
    BY <1>1, <1>2, <1>3
  <2>2. x <= Least(C)
    BY <1>2, <1>3, <1>5, <2>1
  <2> QED
    BY <2>2 DEF C
<1>6. CASE x \in S /\ x \notin C
  <2>1. Least(S)..(x + 1) \subseteq S
    BY <1>6 DEF CompressSet
  <2> HIDE DEF C
  <2>2. ~ (Least(C) < x)
    <3>1. SUFFICES ASSUME Least(C) < x
                   PROVE  Least(S)..(Least(C) + 1) \subseteq Least(S)..(x + 1)
      BY <1>4, <2>1
    <3> QED
      BY <1>2, <1>3, <3>1
  <2>3. x <= Least(C)
    BY <1>3, <2>2
  <2> QED
    BY <2>3 DEF C
<1> QED
  BY <1>5, <1>6

\* Only READ_UNCOMMITTED commits in two steps.
MarkedIsRU == \A t \in Ids : status[t] = "marked" => isolation[t] = "RU"

\* A commit at the buffering levels that does not count as flushed yet is ready,
\* and its marker is in a memtable or about to be reported.
CommitsAreTracked ==
  \A t \in Ids :
    status[t] = "committed" /\ isolation[t] = "buffered" =>
      \/ Covered(t)
      \/ ready[t] = "OP_COMMITTED" /\ (InMemory(t, 0) \/ t \in pending)

Tracking == MarkedIsRU /\ CommitsAreTracked

\* Each action keeps track of the commits.
LEMMA TrackingStep == IInv /\ Tracking /\ [Next]_vars => Tracking'
<1> SUFFICES ASSUME IInv, Tracking, [Next]_vars
             PROVE  Tracking'
  OBVIOUS
<1>a. TypeOK /\ StoppedIsIdle /\ FreshIds /\ MarkedIsRU /\ CommitsAreTracked
  BY DEF IInv, Tracking
<1>b. /\ lo \in Nat /\ cur \in Nat /\ lo <= cur
      /\ 0 \in Pieces
      /\ \A t \in Ids : t \in Nat /\ writes[t] \in Nat /\ place[t][0] \in Nat
      /\ next_id \in Nat
  BY <1>a, Numbers
<1>c. ASSUME UNCHANGED flushed
      PROVE  \A t \in Ids : Covered(t)' <=> Covered(t)
  BY <1>c DEF Covered, get_checkpoint_tranc_id
<1>1. ASSUME UNCHANGED <<flushed, ready, status, isolation, lo, pending>>,
             \A t \in Ids : place'[t][0] = place[t][0]
      PROVE  Tracking'
  BY <1>a, <1>c, <1>1 DEF Tracking, MarkedIsRU, CommitsAreTracked, InMemory
<1>2. ASSUME \A t \in Ids : status'[t] = "none"
      PROVE  Tracking'
  BY <1>2 DEF Tracking, MarkedIsRU, CommitsAreTracked
<1>3. CASE OpenNew \/ OpenFails \/ LsmGet \/ Freeze \/ UNCHANGED vars
  BY <1>1, <1>3 DEF OpenNew, OpenFails, LsmGet, Freeze, vars, manager, contexts, tables
<1>4. CASE Reopen
  BY <1>2, <1>4, <1>a DEF Reopen, contexts, StoppedIsIdle
<1>5. CASE Shutdown \/ Crash
  BY <1>2, <1>5 DEF Shutdown, Crash, Forget
<1>6. ASSUME NEW level \in Isolations, new_tranc(level)
      PROVE  Tracking'
  <2>1. UNCHANGED <<ready, flushed, place, lo, pending>>
    BY <1>6 DEF new_tranc, tables
  <2>2. \A t \in Ids : IF t = next_id THEN status'[t] = "active"
                       ELSE status'[t] = status[t] /\ isolation'[t] = isolation[t]
    BY <1>6, <1>a DEF new_tranc, TypeOK
  <2> QED
    BY <1>a, <1>c, <2>1, <2>2 DEF Tracking, MarkedIsRU, CommitsAreTracked, InMemory
<1>7. CASE LsmPut
  <2>1. next_id \in Ids /\ PutPieces(next_id, {1})
    BY <1>7 DEF LsmPut, getNextTransactionId
  <2>2. \A t \in Ids : \A n \in Pieces :
          place'[t][n] = IF t = next_id /\ n \in {1} THEN cur ELSE place[t][n]
    BY <1>a, <2>1, PutPiecesEffect
  <2>3. \A t \in Ids : place'[t][0] = place[t][0]
    BY <1>b, <2>2
  <2> QED
    BY <1>1, <1>7, <2>3 DEF LsmPut, contexts
<1>8. ASSUME NEW t \in Ids, Write(t)
      PROVE  Tracking'
  <2>1. \A s \in Ids : place'[s][0] = place[s][0]
    <3>1. CASE isolation[t] = "RU"
      <4>1. PutPieces(t, {writes[t] + 1}) /\ 0 \notin {writes[t] + 1}
        BY <1>b, <1>8, <3>1 DEF Write
      <4> QED
        BY <1>a, <1>b, <4>1, PutPiecesEffect
    <3>2. CASE isolation[t] # "RU"
      BY <1>8, <3>2 DEF Write
    <3> QED
      BY <3>1, <3>2
  <2> QED
    BY <1>1, <1>8, <2>1 DEF Write, manager
<1>l. ASSUME NEW t \in Ids, CommitLog(t)
      PROVE  Tracking'
  <2>1. UNCHANGED <<flushed, ready, isolation, place, lo, pending>>
    BY <1>l DEF CommitLog, manager, tables
  <2>2. \A s \in Ids : status'[s] = IF s = t THEN "logged" ELSE status[s]
    BY <1>l, <1>a DEF CommitLog, TypeOK
  <2> QED
    BY <1>a, <1>c, <2>1, <2>2 DEF Tracking, MarkedIsRU, CommitsAreTracked, InMemory
<1>s. ASSUME NEW t \in Ids, CommitTestFail(t)
      PROVE  Tracking'
  <2>1. UNCHANGED <<flushed, isolation, place, lo, pending>>
    BY <1>s DEF CommitTestFail, tables
  <2>2. \A s \in Ids : /\ status'[s] = IF s = t THEN "skipped" ELSE status[s]
                       /\ s # t => ready'[s] = ready[s]
    BY <1>s, <1>a DEF CommitTestFail, add_ready_to_flush_tranc_id, TypeOK
  <2> QED
    BY <1>a, <1>c, <2>1, <2>2 DEF Tracking, MarkedIsRU, CommitsAreTracked, InMemory
<1>9. ASSUME NEW t \in Ids, Commit(t)
      PROVE  Tracking'
  <2>1. UNCHANGED <<flushed, isolation, lo, cur, pending>>
    BY <1>9 DEF Commit
  <2>2. \A s \in Ids : /\ status'[s] = IF s = t THEN "committed" ELSE status[s]
                       /\ ready'[s] = IF s = t THEN "OP_COMMITTED" ELSE ready[s]
    BY <1>9, <1>a DEF Commit, add_ready_to_flush_tranc_id, TypeOK
  <2>3. \A s \in Ids : place'[s][0] = IF s = t THEN cur ELSE place[s][0]
    <3> DEFINE P == 0..writes[t]
    <3>1. PutPieces(t, P) /\ 0 \in P
      BY <1>b, <1>9 DEF Commit, BufferedApply
    <3> HIDE DEF P
    <3> QED
      BY <1>a, <1>b, <3>1, PutPiecesEffect
  <2> QED
    BY <1>a, <1>b, <1>c, <2>1, <2>2, <2>3 DEF Tracking, MarkedIsRU, CommitsAreTracked, InMemory
<1>10. ASSUME NEW t \in Ids, CommitRUMark(t)
       PROVE  Tracking'
  <2>1. UNCHANGED <<flushed, ready, isolation, lo, pending>> /\ isolation[t] = "RU"
    BY <1>10 DEF CommitRUMark, manager
  <2>2. \A s \in Ids : status'[s] = IF s = t THEN "marked" ELSE status[s]
    BY <1>10, <1>a DEF CommitRUMark, TypeOK
  <2>3. \A s \in Ids : s # t => place'[s][0] = place[s][0]
    BY <1>10, <1>a, <1>b, PutPiecesEffect DEF CommitRUMark
  <2> QED
    BY <1>a, <1>c, <2>1, <2>2, <2>3 DEF Tracking, MarkedIsRU, CommitsAreTracked, InMemory
<1>11. ASSUME NEW t \in Ids, CommitRUReady(t)
       PROVE  Tracking'
  <2>1. UNCHANGED <<flushed, isolation, place, lo, pending>> /\ status[t] = "marked"
    BY <1>11 DEF CommitRUReady, tables
  <2>2. \A s \in Ids : /\ status'[s] = IF s = t THEN "committed" ELSE status[s]
                       /\ ready'[s] = IF s = t THEN "OP_COMMITTED" ELSE ready[s]
    BY <1>11, <1>a DEF CommitRUReady, add_ready_to_flush_tranc_id, TypeOK
  <2>3. isolation[t] = "RU"
    BY <1>a, <2>1 DEF MarkedIsRU
  <2> QED
    BY <1>a, <1>c, <2>1, <2>2, <2>3 DEF Tracking, MarkedIsRU, CommitsAreTracked, InMemory
<1>12. ASSUME NEW t \in Ids, Abort(t)
       PROVE  Tracking'
  <2>1. UNCHANGED <<flushed, isolation, place, lo, pending>>
    BY <1>12 DEF Abort
  <2>2. \A s \in Ids : /\ status'[s] = IF s = t THEN "aborted" ELSE status[s]
                       /\ s # t => ready'[s] = ready[s]
    BY <1>12, <1>a DEF Abort, add_ready_to_flush_tranc_id, TypeOK
  <2> QED
    BY <1>a, <1>c, <2>1, <2>2 DEF Tracking, MarkedIsRU, CommitsAreTracked, InMemory
<1>13. ASSUME NEW t \in Ids, add_flushed_tranc_id(t)
       PROVE  Tracking'
  <2> DEFINE S == flushed \cup FlushedWith(t)
  <2>1. /\ UNCHANGED <<status, isolation, place, lo>>
        /\ flushed' = CompressSet(S) /\ pending' = pending \ {t}
        /\ \A s \in Ids : ready'[s] = IF s \in FlushedWith(t) THEN "absent" ELSE ready[s]
    BY <1>13 DEF add_flushed_tranc_id, contexts
  <2>2. S \in SUBSET (0..MaxId) /\ S # {}
    BY <1>a, FlushedType
  <2>3. ASSUME NEW s \in Ids, Covered(s) \/ s \in FlushedWith(t)
        PROVE  Covered(s)'
    <3>1. flushed \in SUBSET Nat /\ flushed # {} /\ s \in Nat
      BY <1>a, <1>b DEF TypeOK
    <3>2. Least(flushed) \in Nat /\ \A y \in flushed : Least(flushed) <= y
      BY <3>1, LeastIsLeast
    <3>3. s <= Least(S) \/ s \in S
      <4>1. CASE s \in S
        BY <4>1
      <4>2. CASE s \notin S
        <5>1. s <= Least(flushed)
          BY <2>3, <4>2 DEF Covered, get_checkpoint_tranc_id
        <5>2. Least(S) \in S /\ Least(S) \in Nat
          <6>1. S \in SUBSET Nat
            BY <2>2
          <6> HIDE DEF S
          <6> QED
            BY <2>2, <6>1, LeastIsLeast
        <5>3. CASE Least(S) \in flushed
          BY <3>1, <3>2, <5>1, <5>2, <5>3
        <5>4. CASE Least(S) \in FlushedWith(t)
          <6>1. Least(S) \in Ids /\ ready[Least(S)] # "absent"
            BY <5>4 DEF FlushedWith
          <6>2. ~ Covered(Least(S))
            BY <6>1 DEF IInv, ReadyTellsOutcome
          <6> QED
            BY <3>1, <3>2, <5>1, <5>2, <6>2 DEF Covered, get_checkpoint_tranc_id
        <5> QED
          BY <5>2, <5>3, <5>4
      <4> QED
        BY <4>1, <4>2
    <3> HIDE DEF S
    <3>4. s <= Least(CompressSet(S)) \/ s \in CompressSet(S)
      BY <2>2, <3>1, <3>3, CompressSetKeeps, TranManagerParameters
    <3> QED
      BY <2>1, <3>4 DEF Covered, get_checkpoint_tranc_id
  <2>4. ASSUME NEW s \in Ids, ready[s] = "OP_COMMITTED", s \notin FlushedWith(t)
        PROVE  s # t
    BY <2>4 DEF FlushedWith
  <2> QED
    BY <1>a, <2>1, <2>3, <2>4 DEF Tracking, MarkedIsRU, CommitsAreTracked, InMemory
<1>14. CASE Flush
  <2>1. /\ UNCHANGED <<flushed, ready, status, isolation, place>>
        /\ lo' = lo + 1 /\ pending = {} /\ pending' = {t \in Ids : place[t][0] = lo}
    BY <1>14 DEF Flush, manager, contexts
  <2> QED
    BY <1>a, <1>b, <1>c, <2>1 DEF Tracking, MarkedIsRU, CommitsAreTracked, InMemory
<1> QED
  BY <1>3, <1>4, <1>5, <1>6, <1>7, <1>8, <1>l, <1>9, <1>s, <1>10, <1>11, <1>12, <1>13,
     <1>14 DEF Next

\* A flush that has reported the marker of a buffering transaction's commit leaves
\* the transaction recorded in flushedTrancIds_, for any number of transactions
\* and whatever else is reported, aborted or merged by compressSet meanwhile.
THEOREM FlushedCommitsRecorded == Spec => []FlushedMarkerIsRecorded
<1>1. Init => Tracking
  BY DEF Init, Tracking, MarkedIsRU, CommitsAreTracked
<1>2. IInv /\ Tracking => FlushedMarkerIsRecorded
  <2> SUFFICES ASSUME IInv, Tracking, NEW t \in Ids,
                      isolation[t] = "buffered", status[t] = "committed",
                      InSst(t, 0), t \notin pending
               PROVE  Covered(t)
    BY DEF FlushedMarkerIsRecorded
  <2>1. lo \in Nat /\ ~ InMemory(t, 0)
    BY Numbers DEF IInv, InMemory, InSst
  <2> QED
    BY <2>1 DEF Tracking, CommitsAreTracked
<1> QED
  BY <1>1, <1>2, InvInit, InvStep, TrackingStep, PTL DEF Spec

-----------------------------------------------------------------------------
\* The log and the checkpoint of the WAL.

\* Ids count as flushed only after they were handed out.
FlushedAreOlder ==
  /\ \A s \in flushed : s < next_id
  /\ \A s \in file.flushed : s < file.next

\* A run begins behind all ids of the tranc_id file, and logs only its own.
LogIsOfThisRun ==
  /\ file.state = "absent" => up = "down"
  /\ up = "up" \/ file.state = "absent" =>
       /\ \A s \in file.flushed : s < first_id
       /\ \A t \in Ids : wal[t] >= 0 => t >= first_id

Logging == FlushedAreOlder /\ LogIsOfThisRun

\* Each action keeps the log ahead of the tranc_id file.
LEMMA LoggingStep == IInv /\ Logging /\ [Next]_vars => Logging'
<1> SUFFICES ASSUME IInv, Logging, [Next]_vars
             PROVE  Logging'
  OBVIOUS
<1>a. TypeOK /\ FreshIds /\ FlushedAreOlder /\ LogIsOfThisRun
  BY DEF IInv, Logging
<1>b. /\ flushed \subseteq Nat /\ file.flushed \subseteq Nat
      /\ next_id \in Nat \ {0} /\ first_id \in Nat /\ file.next \in Nat
      /\ Ids \subseteq Nat
      /\ wal \in [Ids -> Int]
  BY <1>a, TranManagerParameters DEF TypeOK, File, Ids
<1>1. ASSUME UNCHANGED <<up, first_id, flushed, wal, file>>, next_id' \in {next_id, next_id + 1}
      PROVE  Logging'
  BY <1>a, <1>b, <1>1 DEF Logging, FlushedAreOlder, LogIsOfThisRun
<1>2. CASE \/ \E level \in Isolations : new_tranc(level)
           \/ LsmGet \/ LsmPut
           \/ \E t \in Ids : \/ Write(t) \/ Commit(t) \/ CommitTestFail(t)
                             \/ CommitRUReady(t) \/ Abort(t)
           \/ Freeze \/ Flush \/ UNCHANGED vars
  BY <1>1, <1>2 DEF new_tranc, getNextTransactionId, LsmGet, LsmPut, Write, Commit,
                    CommitTestFail, CommitRUReady, Abort, Freeze, Flush, vars, manager, disk
<1>3. CASE OpenNew
  BY <1>3, <1>a, <1>b DEF OpenNew, manager, Logging, FlushedAreOlder, LogIsOfThisRun, TypeOK, File
<1>4. CASE OpenFails
  BY <1>4, <1>a DEF OpenFails, manager, disk, Logging, FlushedAreOlder, LogIsOfThisRun
<1>5. CASE Reopen
  <2>1. /\ up' = "up" /\ next_id' = file.next /\ first_id' = file.next
        /\ flushed' = {file.next - 1} /\ file' = file /\ file.state = "written"
        /\ \A t \in Ids : wal'[t] = -1
    BY <1>5 DEF Reopen
  <2>2. FlushedAreOlder'
    BY <1>a, <1>b, <2>1 DEF FlushedAreOlder
  <2>3. LogIsOfThisRun'
    <3>1. \A t \in Ids : ~ (wal'[t] >= 0)
      BY <2>1
    <3> QED
      BY <1>a, <2>1, <3>1 DEF FlushedAreOlder, LogIsOfThisRun
  <2> QED
    BY <2>2, <2>3 DEF Logging
<1>6. ASSUME NEW t \in Ids, CommitLog(t) \/ CommitRUMark(t)
      PROVE  Logging'
  <2>1. /\ up = "up" /\ status[t] = "active"
        /\ UNCHANGED <<up, next_id, first_id, flushed, file>>
        /\ \A s \in Ids : s # t => wal'[s] = wal[s]
    BY <1>b, <1>6 DEF CommitLog, CommitRUMark, Log, manager
  <2>2. t >= first_id
    BY <1>a, <1>b, <2>1 DEF FreshIds
  <2> QED
    BY <1>a, <2>1, <2>2 DEF Logging, FlushedAreOlder, LogIsOfThisRun
<1>7. ASSUME NEW t \in Ids, add_flushed_tranc_id(t)
      PROVE  Logging'
  <2>1. /\ flushed' = CompressSet(flushed \cup FlushedWith(t))
        /\ UNCHANGED <<up, next_id, first_id, wal, file>>
    BY <1>7 DEF add_flushed_tranc_id, disk
  <2>2. \A s \in FlushedWith(t) : s < next_id
    BY <1>a, <1>b DEF FlushedWith, FreshIds
  <2>3. \A s \in flushed' : s < next_id
    BY <1>a, <2>1, <2>2 DEF CompressSet, FlushedAreOlder
  <2> QED
    BY <1>a, <2>1, <2>3 DEF Logging, FlushedAreOlder, LogIsOfThisRun
<1>8. CASE Shutdown
  <2>1. /\ up' = "down" /\ next_id' = 1 /\ flushed' = {0}
        /\ file'.state = "written" /\ file'.next = next_id /\ file'.flushed = flushed
    BY <1>8 DEF Shutdown, Forget
  <2> QED
    BY <1>a, <2>1 DEF Logging, FlushedAreOlder, LogIsOfThisRun
<1>9. CASE Crash
  <2>1. up = "up" /\ up' = "down" /\ next_id' = 1 /\ flushed' = {0} /\ file' = file
    BY <1>9 DEF Crash, Forget, disk
  <2> QED
    BY <1>a, <2>1 DEF Logging, FlushedAreOlder, LogIsOfThisRun
<1> QED
  BY <1>2, <1>3, <1>4, <1>5, <1>6, <1>7, <1>8, <1>9 DEF Next

\* Nothing is logged at first.
LEMMA LoggingInit == Init => Logging
BY TranManagerParameters DEF Init, Logging, FlushedAreOlder, LogIsOfThisRun, Ids

\* Everything a run logs is newer than the largest flushed id of the tranc_id file,
\* the checkpoint init_new_wal gives to the WAL: for any number of runs and crashes
\* the cleaner, which deletes what is not above that checkpoint, takes nothing of
\* the current run.
THEOREM LogAboveCheckpoint == Spec => []LogAboveWalCheckpoint
<1>1. Init => Logging
  BY LoggingInit
<1>2. IInv /\ Logging => LogAboveWalCheckpoint
  <2> SUFFICES ASSUME IInv, Logging, up = "up", NEW t \in Ids, wal[t] >= 0,
                      NEW s \in file.flushed
               PROVE  t > s
    BY DEF LogAboveWalCheckpoint
  <2>1. t \in Nat /\ s \in Nat /\ first_id \in Nat
    BY TranManagerParameters DEF IInv, TypeOK, File, Ids
  <2> QED
    BY <2>1 DEF Logging, LogIsOfThisRun
<1> QED
  BY <1>1, <1>2, InvInit, InvStep, LoggingStep, PTL DEF Spec

-----------------------------------------------------------------------------
\* What a crash leaves behind.

\* What is in a flushed table has a copy in an SST.
SstHoldsFlushed == \A t \in Ids, n \in Pieces : InSst(t, n) => <<t, n>> \in sst

\* commit logs before it applies anything or puts the marker.
MarkedIsLogged ==
  \A t \in Ids : status[t] \in {"logged", "marked", "skipped"} =>
    wal[t] = writes[t] /\ acked[t] = writes[t]

\* Before the first crash no id is used twice.
AckedAreOld ==
  /\ file.state = "absent" => crashes = 0 /\ \A t \in Ids : acked[t] = 0
  /\ crashes = 0 => \A t \in Ids :
       /\ up = "up" /\ (t >= next_id \/ status[t] = "active") => acked[t] = 0
       /\ up = "down" /\ t >= file.next => acked[t] = 0

\* Nobody fails without a crash.
NoneSkipped == crashes = 0 => \A t \in Ids : status[t] # "skipped"

\* Before the first crash what was acknowledged is in an SST or in the log of the
\* run.
AckedAreDurable ==
  crashes = 0 => \A t \in Ids : \A n \in 1..acked[t] :
    <<t, n>> \in sst \/ (up = "up" /\ wal[t] >= n)

\* After the crash what was acknowledged is stored or will be replayed.
CrashIsRecoverable ==
  crashes > 0 /\ up = "down" => \A t \in Ids : \A n \in 1..acked[t] :
    Stored(t, n) \/ (t \in Replayed /\ n <= wal[t])

Kept ==
  /\ SstHoldsFlushed
  /\ MarkedIsLogged
  /\ NoneSkipped
  /\ AckedAreOld
  /\ AckedAreDurable
  /\ CrashIsRecoverable
  /\ NoCommitLost

\* Each action keeps what was acknowledged, as long as there is one crash.
LEMMA KeptStep ==
  ASSUME MaxCrashes <= 1
  PROVE  IInv /\ Logging /\ Kept /\ [Next]_vars => Kept'
<1> SUFFICES ASSUME IInv, Logging, Kept, [Next]_vars
             PROVE  Kept'
  OBVIOUS
<1>a. /\ TypeOK /\ StoppedIsIdle /\ FreshIds /\ MarkerComesLast
      /\ FlushedAreOlder /\ LogIsOfThisRun
      /\ SstHoldsFlushed /\ MarkedIsLogged /\ NoneSkipped /\ AckedAreOld
      /\ AckedAreDurable /\ CrashIsRecoverable /\ NoCommitLost
  BY DEF IInv, Logging, Kept
<1>b. /\ lo \in Nat /\ cur \in Nat /\ 1 <= lo /\ lo <= cur
      /\ next_id \in Nat /\ first_id \in Nat /\ crashes \in Nat /\ file.next \in Nat
      /\ file.flushed \subseteq Nat /\ file.flushed # {} /\ Ids \subseteq Nat
      /\ \A t \in Ids, n \in Pieces : place[t][n] \in Nat
  <2>1. /\ lo \in Nat /\ cur \in Nat /\ 1 <= lo /\ lo <= cur
        /\ next_id \in Nat /\ first_id \in Nat
        /\ \A t \in Ids : t \in Nat /\ \A n \in Pieces : place[t][n] \in Nat
    BY <1>a, Numbers
  <2>2. crashes \in Nat /\ file.next \in Nat /\ file.flushed \subseteq Nat /\ file.flushed # {}
    BY <1>a, TranManagerParameters DEF TypeOK, File
  <2> QED
    BY <2>1, <2>2
<1>c. \A t \in Ids : /\ wal[t] \in Int /\ acked[t] \in Nat /\ writes[t] \in Nat
                     /\ 1..acked[t] \subseteq Pieces /\ 1..writes[t] \subseteq Pieces
  BY <1>a, TranManagerParameters DEF TypeOK, Pieces
<1>1. ASSUME UNCHANGED <<up, sst, lo, wal, file, acked, crashes>>,
             next_id' \in {next_id, next_id + 1},
             \A t \in Ids :
               \/ status'[t] = status[t] /\ (status[t] # "active" => writes'[t] = writes[t])
               \/ t = next_id /\ status[t] = "none" /\ status'[t] = "active"
               \/ status[t] = "active" /\ status'[t] = "aborted",
             \A t \in Ids, n \in Pieces : place'[t][n] \in {place[t][n], cur}
      PROVE  Kept'
  <2>1. SstHoldsFlushed'
    BY <1>a, <1>b, <1>1 DEF SstHoldsFlushed, InSst
  <2>2. MarkedIsLogged'
    BY <1>a, <1>1 DEF MarkedIsLogged
  <2>3. AckedAreOld' /\ NoneSkipped'
    BY <1>a, <1>b, <1>1 DEF AckedAreOld, NoneSkipped
  <2>4. AckedAreDurable'
    BY <1>a, <1>1 DEF AckedAreDurable
  <2>5. \A t \in Ids, n \in Pieces : Stored(t, n) => Stored(t, n)'
    BY <1>b, <1>1 DEF Stored
  <2>6. CrashIsRecoverable'
    <3>1. Replayed' = Replayed
      BY <1>1 DEF Replayed
    <3> QED
      BY <1>a, <1>c, <1>1, <2>5, <3>1 DEF CrashIsRecoverable
  <2>7. NoCommitLost'
    BY <1>a, <1>c, <1>1, <2>5 DEF NoCommitLost
  <2> QED
    BY <2>1, <2>2, <2>3, <2>4, <2>6, <2>7 DEF Kept
<1>2. CASE UNCHANGED vars
  BY <1>1, <1>2 DEF vars
<1>3. ASSUME NEW level \in Isolations, new_tranc(level)
      PROVE  Kept'
  <2>1. /\ UNCHANGED <<up, sst, lo, wal, file, acked, crashes, place>> /\ next_id' = next_id + 1
        /\ next_id \in Ids
        /\ status' = [status EXCEPT ![next_id] = "active"]
        /\ writes' = [writes EXCEPT ![next_id] = 0]
    BY <1>3 DEF new_tranc, getNextTransactionId, tables, disk, ghosts
  <2>2. \A t \in Ids :
          \/ status'[t] = status[t] /\ writes'[t] = writes[t]
          \/ t = next_id /\ status[t] = "none" /\ status'[t] = "active"
    BY <1>a, <1>b, <2>1 DEF TypeOK, FreshIds
  <2> QED
    BY <1>1, <2>1, <2>2
<1>4. CASE LsmGet
  BY <1>1, <1>4 DEF LsmGet, getNextTransactionId, contexts, tables, disk, ghosts
<1>5. CASE LsmPut
  <2>1. /\ UNCHANGED <<up, sst, lo, wal, file, acked, crashes, status, writes>>
        /\ next_id' = next_id + 1 /\ next_id \in Ids /\ PutPieces(next_id, {1})
    BY <1>5 DEF LsmPut, getNextTransactionId, contexts, disk, ghosts
  <2>2. \A t \in Ids, n \in Pieces : place'[t][n] \in {place[t][n], cur}
    BY <1>a, <2>1, PutPiecesEffect
  <2> QED
    BY <1>1, <2>1, <2>2
<1>6. ASSUME NEW s \in Ids, Write(s)
      PROVE  Kept'
  <2>1. /\ UNCHANGED <<up, sst, lo, wal, file, acked, crashes, status, next_id>>
        /\ status[s] = "active"
        /\ \A t \in Ids : t # s => writes'[t] = writes[t]
        /\ PutPieces(s, {writes[s] + 1}) \/ place' = place
    BY <1>a, <1>6 DEF Write, manager, disk, ghosts, TypeOK
  <2>2. \A t \in Ids, n \in Pieces : place'[t][n] \in {place[t][n], cur}
    BY <1>a, <2>1, PutPiecesEffect
  <2> QED
    BY <1>1, <2>1, <2>2
<1>7. ASSUME NEW s \in Ids, Abort(s)
      PROVE  Kept'
  <2>1. /\ UNCHANGED <<up, sst, lo, wal, file, acked, crashes, next_id, writes, place>>
        /\ status[s] = "active" /\ status' = [status EXCEPT ![s] = "aborted"]
    BY <1>7 DEF Abort, disk, ghosts
  <2>2. \A t \in Ids : status'[t] = status[t] \/ (status[t] = "active" /\ status'[t] = "aborted")
    BY <1>a, <2>1 DEF TypeOK
  <2> QED
    BY <1>1, <2>1, <2>2
<1>8. ASSUME NEW s \in Ids, add_flushed_tranc_id(s)
      PROVE  Kept'
  BY <1>1, <1>8 DEF add_flushed_tranc_id, contexts, disk, ghosts
<1>9. CASE Freeze
  BY <1>1, <1>9 DEF Freeze, manager, contexts, disk, ghosts
<1>10. CASE OpenNew
  <2>1. /\ UNCHANGED <<place, sst, lo, wal, acked, crashes, status, writes>>
        /\ up = "down" /\ up' = "up" /\ file.state = "absent" /\ file'.state # "absent"
    BY <1>10, <1>a DEF OpenNew, manager, contexts, tables, ghosts, TypeOK, File
  <2>2. crashes = 0 /\ \A t \in Ids : acked[t] = 0 /\ 1..acked[t] = {}
    BY <1>a, <2>1 DEF AckedAreOld
  <2>3. \A t \in Ids : status[t] = "none"
    BY <1>a, <2>1 DEF StoppedIsIdle
  <2>4. SstHoldsFlushed'
    BY <1>a, <2>1 DEF SstHoldsFlushed, InSst
  <2>5. MarkedIsLogged' /\ NoneSkipped' /\ AckedAreOld'
    BY <2>1, <2>2, <2>3 DEF MarkedIsLogged, NoneSkipped, AckedAreOld
  <2>6. AckedAreDurable' /\ CrashIsRecoverable' /\ NoCommitLost'
    BY <2>1, <2>2 DEF AckedAreDurable, CrashIsRecoverable, NoCommitLost
  <2> QED
    BY <2>4, <2>5, <2>6 DEF Kept
<1>11. CASE OpenFails
  <2>1. /\ UNCHANGED <<place, sst, lo, wal, acked, crashes, status, writes, file>>
        /\ up = "down" /\ up' = "failed" /\ file.state = "empty"
    BY <1>11 DEF OpenFails, contexts, tables, disk, ghosts
  <2>2. SstHoldsFlushed' /\ MarkedIsLogged' /\ NoneSkipped'
    BY <1>a, <2>1 DEF SstHoldsFlushed, InSst, MarkedIsLogged, NoneSkipped
  <2>3. AckedAreOld' /\ AckedAreDurable'
    BY <1>a, <2>1 DEF AckedAreOld, AckedAreDurable
  <2>4. CrashIsRecoverable' /\ NoCommitLost'
    BY <2>1 DEF CrashIsRecoverable, NoCommitLost
  <2> QED
    BY <2>2, <2>3, <2>4 DEF Kept
<1>12. CASE Reopen
  <2>1. /\ UNCHANGED <<sst, lo, acked, crashes, status, writes, file>>
        /\ up = "down" /\ up' = "up" /\ file.state = "written" /\ next_id' = file.next
        /\ \A t \in Ids, n \in Pieces :
             place'[t][n] = IF t \in Replayed /\ n \in 1..wal[t] THEN cur ELSE place[t][n]
    BY <1>12 DEF Reopen, contexts, ghosts
  <2>2. \A t \in Ids : status[t] = "none"
    BY <1>a, <2>1 DEF StoppedIsIdle
  <2>3. SstHoldsFlushed'
    <3>1. \A t \in Ids, n \in Pieces : place'[t][n] \in {place[t][n], cur}
      BY <2>1
    <3> QED
      BY <1>a, <1>b, <2>1, <3>1 DEF SstHoldsFlushed, InSst
  <2>4. MarkedIsLogged' /\ NoneSkipped'
    BY <2>1, <2>2 DEF MarkedIsLogged, NoneSkipped
  <2>5. AckedAreOld'
    BY <1>a, <2>1, <2>2 DEF AckedAreOld
  <2>6. AckedAreDurable'
    BY <1>a, <2>1 DEF AckedAreDurable
  <2>7. CrashIsRecoverable'
    BY <2>1 DEF CrashIsRecoverable
  <2>8. NoCommitLost'
    <3> SUFFICES ASSUME NEW t \in Ids, NEW n \in 1..acked[t]
                 PROVE  place'[t][n] # 0 \/ <<t, n>> \in sst
      BY <2>1 DEF NoCommitLost, Stored
    <3>1. n \in Pieces /\ n \in Nat /\ n >= 1 /\ cur # 0
      BY <1>b, <1>c
    <3>2. CASE crashes = 0
      BY <1>a, <2>1, <3>2 DEF AckedAreDurable
    <3>3. CASE crashes > 0
      <4>1. Stored(t, n) \/ (t \in Replayed /\ n <= wal[t])
        BY <1>a, <2>1, <3>3 DEF CrashIsRecoverable
      <4>2. t \in Replayed /\ n <= wal[t] => n \in 1..wal[t]
        BY <1>c, <3>1
      <4> QED
        BY <2>1, <3>1, <4>1, <4>2 DEF Stored
    <3> QED
      BY <1>b, <3>2, <3>3
  <2> QED
    BY <2>3, <2>4, <2>5, <2>6, <2>7, <2>8 DEF Kept
<1>l. ASSUME NEW s \in Ids, CommitLog(s)
      PROVE  Kept'
  <2>1. /\ UNCHANGED <<up, next_id, writes, place, sst, lo, file, crashes>> /\ up = "up"
        /\ status[s] = "active"
        /\ \A t \in Ids : /\ wal'[t] = IF t = s THEN writes[s] ELSE wal[t]
                          /\ acked'[t] = IF t = s THEN writes[s] ELSE acked[t]
                          /\ status'[t] = IF t = s THEN "logged" ELSE status[t]
    BY <1>a, <1>l DEF CommitLog, Log, TypeOK, manager, tables
  <2>2. SstHoldsFlushed'
    BY <1>a, <2>1 DEF SstHoldsFlushed, InSst
  <2>3. MarkedIsLogged' /\ NoneSkipped'
    BY <1>a, <2>1 DEF MarkedIsLogged, NoneSkipped
  <2>4. AckedAreOld'
    <3>1. ~ (s >= next_id)
      BY <1>a, <2>1 DEF FreshIds
    <3>2. file.state # "absent"
      BY <1>a, <2>1 DEF LogIsOfThisRun
    <3> QED
      BY <1>a, <2>1, <3>1, <3>2 DEF AckedAreOld
  <2>5. AckedAreDurable'
    <3> SUFFICES ASSUME crashes = 0, NEW t \in Ids, NEW n \in 1..acked'[t]
                 PROVE  <<t, n>> \in sst \/ wal'[t] >= n
      BY <2>1 DEF AckedAreDurable
    <3>1. CASE t = s
      BY <1>c, <2>1, <3>1
    <3>2. CASE t # s
      BY <1>a, <2>1, <3>2 DEF AckedAreDurable
    <3> QED
      BY <3>1, <3>2
  <2>6. CrashIsRecoverable'
    BY <2>1 DEF CrashIsRecoverable
  <2>7. NoCommitLost'
    BY <1>a, <2>1 DEF NoCommitLost, Stored
  <2> QED
    BY <2>2, <2>3, <2>4, <2>5, <2>6, <2>7 DEF Kept
<1>13. ASSUME NEW s \in Ids, Commit(s)
       PROVE  Kept'
  <2>1. /\ UNCHANGED <<up, next_id, writes, sst, lo, wal, file, acked, crashes>> /\ up = "up"
        /\ status[s] = "logged"
        /\ PutPieces(s, 0..writes[s])
        /\ \A t \in Ids : status'[t] = IF t = s THEN "committed" ELSE status[t]
    BY <1>a, <1>13 DEF Commit, BufferedApply, TypeOK, disk, ghosts
  <2>2. \A t \in Ids, n \in Pieces :
          place'[t][n] = IF t = s /\ n \in 0..writes[s] THEN cur ELSE place[t][n]
    <3> DEFINE pieces == 0..writes[s]
    <3>1. PutPieces(s, pieces)
      BY <2>1
    <3> HIDE DEF pieces
    <3>2. \A t \in Ids, n \in Pieces :
            place'[t][n] = IF t = s /\ n \in pieces THEN cur ELSE place[t][n]
      BY <1>a, <3>1, PutPiecesEffect
    <3> QED
      BY <3>2 DEF pieces
  <2>3. SstHoldsFlushed'
    BY <1>a, <1>b, <2>1, <2>2 DEF SstHoldsFlushed, InSst
  <2>4. MarkedIsLogged' /\ NoneSkipped'
    BY <1>a, <2>1 DEF MarkedIsLogged, NoneSkipped
  <2>5. AckedAreOld' /\ AckedAreDurable' /\ CrashIsRecoverable'
    BY <1>a, <2>1 DEF AckedAreOld, AckedAreDurable, CrashIsRecoverable
  <2>6. NoCommitLost'
    <3> SUFFICES ASSUME NEW t \in Ids, status'[t] \notin {"logged", "skipped"},
                        NEW n \in 1..acked[t]
                 PROVE  place'[t][n] # 0 \/ <<t, n>> \in sst
      BY <2>1 DEF NoCommitLost, Stored
    <3>1. CASE t = s
      <4>1. n \in Pieces /\ n \in 0..writes[s]
        BY <1>a, <1>c, <2>1, <3>1 DEF MarkedIsLogged
      <4> QED
        BY <1>b, <2>2, <3>1, <4>1
    <3>2. CASE t # s
      <4>1. n \in Pieces
        BY <1>c
      <4> QED
        BY <1>a, <2>1, <2>2, <3>2, <4>1 DEF NoCommitLost, Stored
    <3> QED
      BY <3>1, <3>2
  <2> QED
    BY <2>3, <2>4, <2>5, <2>6 DEF Kept
<1>s. ASSUME NEW s \in Ids, CommitTestFail(s)
      PROVE  Kept'
  <2>1. /\ UNCHANGED <<up, next_id, writes, place, sst, lo, wal, file, acked>> /\ up = "up"
        /\ status[s] = "logged" /\ crashes' = crashes + 1
        /\ \A t \in Ids : status'[t] = IF t = s THEN "skipped" ELSE status[t]
    BY <1>a, <1>s DEF CommitTestFail, TypeOK, tables, disk
  <2>2. crashes' # 0 /\ file.state # "absent"
    BY <1>a, <1>b, <2>1 DEF LogIsOfThisRun
  <2>3. SstHoldsFlushed' /\ MarkedIsLogged' /\ NoneSkipped'
    BY <1>a, <2>1, <2>2 DEF SstHoldsFlushed, InSst, MarkedIsLogged, NoneSkipped
  <2>4. AckedAreOld' /\ AckedAreDurable' /\ CrashIsRecoverable'
    BY <2>1, <2>2 DEF AckedAreOld, AckedAreDurable, CrashIsRecoverable
  <2>5. NoCommitLost'
    BY <1>a, <2>1 DEF NoCommitLost, Stored
  <2> QED
    BY <2>3, <2>4, <2>5 DEF Kept
<1>14. ASSUME NEW s \in Ids, CommitRUMark(s)
       PROVE  Kept'
  <2>1. /\ UNCHANGED <<up, next_id, writes, sst, lo, file, crashes>> /\ up = "up"
        /\ status[s] = "active" /\ isolation[s] = "RU"
        /\ PutPieces(s, {0})
        /\ \A t \in Ids : /\ wal'[t] = IF t = s THEN writes[s] ELSE wal[t]
                          /\ acked'[t] = IF t = s THEN writes[s] ELSE acked[t]
                          /\ status'[t] = IF t = s THEN "marked" ELSE status[t]
    BY <1>a, <1>14 DEF CommitRUMark, Log, TypeOK, manager
  <2>2. \A t \in Ids, n \in Pieces : place'[t][n] \in {place[t][n], cur}
    BY <1>a, <2>1, PutPiecesEffect
  <2>3. SstHoldsFlushed'
    <3> SUFFICES ASSUME NEW t \in Ids, NEW n \in Pieces, place'[t][n] \in 1..(lo - 1)
                 PROVE  <<t, n>> \in sst
      BY <2>1 DEF SstHoldsFlushed, InSst
    <3>1. place'[t][n] # cur
      BY <1>b
    <3>2. InSst(t, n)
      BY <2>2, <3>1 DEF InSst
    <3> QED
      BY <1>a, <3>2 DEF SstHoldsFlushed
  <2>4. MarkedIsLogged' /\ NoneSkipped'
    BY <1>a, <2>1 DEF MarkedIsLogged, NoneSkipped
  <2>5. AckedAreOld'
    <3>1. ~ (s >= next_id)
      BY <1>a, <2>1 DEF FreshIds
    <3>2. file.state # "absent"
      BY <1>a, <2>1 DEF LogIsOfThisRun
    <3> QED
      BY <1>a, <2>1, <3>1, <3>2 DEF AckedAreOld
  <2>6. AckedAreDurable'
    <3> SUFFICES ASSUME crashes = 0, NEW t \in Ids, NEW n \in 1..acked'[t]
                 PROVE  <<t, n>> \in sst \/ wal'[t] >= n
      BY <2>1 DEF AckedAreDurable
    <3>1. CASE t = s
      BY <1>c, <2>1, <3>1
    <3>2. CASE t # s
      BY <1>a, <2>1, <3>2 DEF AckedAreDurable
    <3> QED
      BY <3>1, <3>2
  <2>7. CrashIsRecoverable'
    BY <2>1 DEF CrashIsRecoverable
  <2>8. NoCommitLost'
    <3> SUFFICES ASSUME NEW t \in Ids, status'[t] \notin {"logged", "skipped"},
                        NEW n \in 1..acked'[t]
                 PROVE  place'[t][n] # 0 \/ <<t, n>> \in sst
      BY <2>1 DEF NoCommitLost, Stored
    <3>1. CASE t = s
      <4>1. n \in Pieces /\ n \in 1..writes[s]
        BY <1>c, <2>1, <3>1
      <4>2. place[s][n] # 0
        BY <1>a, <2>1, <4>1 DEF MarkerComesLast
      <4> QED
        BY <1>b, <2>2, <3>1, <4>1, <4>2
    <3>2. CASE t # s
      <4>1. n \in 1..acked[t] /\ n \in Pieces /\ Stored(t, n)
        BY <1>a, <1>c, <2>1, <3>2 DEF NoCommitLost
      <4>2. place'[t][n] = place[t][n] \/ place'[t][n] = cur
        BY <2>2, <4>1
      <4> QED
        BY <1>b, <4>1, <4>2 DEF Stored
    <3> QED
      BY <3>1, <3>2
  <2> QED
    BY <2>3, <2>4, <2>5, <2>6, <2>7, <2>8 DEF Kept
<1>15. ASSUME NEW s \in Ids, CommitRUReady(s)
       PROVE  Kept'
  <2>1. /\ UNCHANGED <<up, next_id, writes, place, sst, lo, file, crashes, wal, acked>>
        /\ up = "up" /\ status[s] = "marked"
        /\ \A t \in Ids : status'[t] = IF t = s THEN "committed" ELSE status[t]
    BY <1>a, <1>15 DEF CommitRUReady, TypeOK, tables, disk, ghosts
  <2>2. SstHoldsFlushed' /\ MarkedIsLogged' /\ NoneSkipped'
    BY <1>a, <2>1 DEF SstHoldsFlushed, InSst, MarkedIsLogged, NoneSkipped
  <2>3. AckedAreOld' /\ AckedAreDurable' /\ CrashIsRecoverable'
    BY <1>a, <2>1 DEF AckedAreOld, AckedAreDurable, CrashIsRecoverable
  <2>4. NoCommitLost'
    BY <1>a, <2>1 DEF NoCommitLost, Stored
  <2> QED
    BY <2>2, <2>3, <2>4 DEF Kept
<1>16. CASE Flush
  <2>1. /\ UNCHANGED <<up, next_id, writes, place, file, crashes, wal, acked, status>>
        /\ up = "up" /\ lo' = lo + 1
        /\ sst' = sst \cup {p \in Ids \X Pieces : place[p[1]][p[2]] = lo}
    BY <1>16 DEF Flush, manager, contexts, disk, ghosts
  <2>2. SstHoldsFlushed'
    <3> SUFFICES ASSUME NEW t \in Ids, NEW n \in Pieces, place[t][n] \in 1..lo
                 PROVE  <<t, n>> \in sst'
      BY <1>b, <2>1 DEF SstHoldsFlushed, InSst
    <3>1. CASE place[t][n] = lo
      BY <2>1, <3>1
    <3>2. CASE place[t][n] # lo
      <4>1. InSst(t, n)
        BY <1>b, <3>2 DEF InSst
      <4> QED
        BY <1>a, <2>1, <4>1 DEF SstHoldsFlushed
    <3> QED
      BY <3>1, <3>2
  <2>3. MarkedIsLogged' /\ NoneSkipped' /\ AckedAreOld'
    BY <1>a, <2>1 DEF MarkedIsLogged, NoneSkipped, AckedAreOld
  <2>4. AckedAreDurable' /\ CrashIsRecoverable'
    BY <1>a, <2>1 DEF AckedAreDurable, CrashIsRecoverable
  <2>5. NoCommitLost'
    BY <1>a, <2>1 DEF NoCommitLost, Stored
  <2> QED
    BY <2>2, <2>3, <2>4, <2>5 DEF Kept
<1>17. CASE Shutdown
  <2>1. /\ UNCHANGED <<place, sst, lo, wal, acked, crashes>>
        /\ up = "up" /\ up' = "down" /\ file'.next = next_id /\ file'.state = "written"
        /\ \A t \in Ids : status'[t] = "none"
        /\ \A t \in Ids, n \in Pieces : ~ InMemory(t, n)
    BY <1>17 DEF Shutdown, Forget, ghosts, MemtableEmpty
  <2>2. SstHoldsFlushed'
    BY <1>a, <2>1 DEF SstHoldsFlushed, InSst
  <2>3. MarkedIsLogged' /\ NoneSkipped' /\ AckedAreOld'
    BY <1>a, <2>1 DEF MarkedIsLogged, NoneSkipped, AckedAreOld
  <2>4. ASSUME NEW t \in Ids, NEW n \in 1..acked[t], status[t] # "skipped"
        PROVE  <<t, n>> \in sst
    <3>1. n \in Pieces /\ Stored(t, n)
      BY <1>a, <1>c, <1>17, <2>1, <2>4 DEF NoCommitLost, Shutdown, Unlocked
    <3>2. place[t][n] # 0 => InSst(t, n)
      BY <1>b, <2>1, <3>1 DEF InMemory, InSst
    <3> QED
      BY <1>a, <3>1, <3>2 DEF Stored, SstHoldsFlushed
  <2>5. AckedAreDurable'
    BY <1>a, <2>1, <2>4 DEF AckedAreDurable, NoneSkipped
  <2>6. CrashIsRecoverable'
    <3> SUFFICES ASSUME NEW t \in Ids, NEW n \in 1..acked[t], status[t] = "skipped"
                 PROVE  t \in Replayed' /\ n <= wal[t]
      BY <2>1, <2>4 DEF CrashIsRecoverable, Stored
    <3>1. wal[t] = writes[t] /\ acked[t] = writes[t] /\ writes[t] \in Nat
      BY <1>a, <1>c DEF MarkedIsLogged
    <3>2. ~ Covered(t)
      BY <1>a, <1>b DEF IInv, CheckpointIsSafe, FreshIds
    <3>3. file'.flushed = flushed /\ Least(flushed) \in Nat /\ t \in Nat
      <4>1. flushed \in SUBSET Nat /\ flushed # {}
        BY <1>a DEF TypeOK
      <4> QED
        BY <1>b, <1>17, <4>1, LeastIsLeast DEF Shutdown
    <3>4. t > Least(file'.flushed) /\ t \notin file'.flushed
      BY <3>2, <3>3 DEF Covered, get_checkpoint_tranc_id
    <3> QED
      BY <2>1, <3>1, <3>4 DEF Replayed
  <2>7. NoCommitLost'
    BY <2>1 DEF NoCommitLost
  <2> QED
    BY <2>2, <2>3, <2>5, <2>6, <2>7 DEF Kept
<1>18. CASE Crash
  <2>1. /\ UNCHANGED <<sst, lo, wal, file, acked>>
        /\ up = "up" /\ up' = "down" /\ crashes < MaxCrashes /\ crashes' = crashes + 1
        /\ \A t \in Ids : status'[t] = "none"
        /\ \A t \in Ids, n \in Pieces : place'[t][n] \in {place[t][n], 0}
    BY <1>18 DEF Crash, Forget, disk
  <2>2. crashes = 0 /\ crashes' > 0
    BY <1>b, <2>1, TranManagerParameters
  <2>3. SstHoldsFlushed'
    <3> SUFFICES ASSUME NEW t \in Ids, NEW n \in Pieces, place'[t][n] \in 1..(lo - 1)
                 PROVE  <<t, n>> \in sst
      BY <2>1 DEF SstHoldsFlushed, InSst
    <3>1. place'[t][n] = place[t][n]
      BY <2>1
    <3> QED
      BY <1>a, <3>1 DEF SstHoldsFlushed, InSst
  <2>4. MarkedIsLogged' /\ NoneSkipped' /\ AckedAreDurable' /\ NoCommitLost'
    BY <2>1, <2>2 DEF MarkedIsLogged, NoneSkipped, AckedAreDurable, NoCommitLost
  <2>5. AckedAreOld'
    BY <1>a, <2>1, <2>2 DEF AckedAreOld, LogIsOfThisRun
  <2>6. CrashIsRecoverable'
    <3> SUFFICES ASSUME NEW t \in Ids, NEW n \in 1..acked[t], <<t, n>> \notin sst
                 PROVE  t \in Replayed' /\ n <= wal[t]
      BY <2>1 DEF CrashIsRecoverable, Stored
    <3>1. wal[t] >= n /\ n >= 1 /\ n \in Nat
      BY <1>a, <1>c, <2>2 DEF AckedAreDurable
    <3>2. wal[t] >= 0
      BY <1>c, <3>1
    <3>3. \A x \in file.flushed : t > x
      BY <1>a, <1>b, <2>1, <3>2 DEF LogIsOfThisRun
    <3>4. Least(file.flushed) \in file.flushed
      BY <1>b, LeastIsLeast
    <3>5. t > Least(file.flushed) /\ t \notin file.flushed
      BY <1>b, <3>3, <3>4
    <3> QED
      BY <1>c, <2>1, <3>1, <3>2, <3>5 DEF Replayed
  <2> QED
    BY <2>3, <2>4, <2>5, <2>6 DEF Kept
<1> QED
  BY <1>2, <1>3, <1>4, <1>5, <1>6, <1>7, <1>8, <1>9, <1>10, <1>11, <1>12, <1>l, <1>13, <1>s,
     <1>14, <1>15, <1>16, <1>17, <1>18 DEF Next

\* With at most one crash, at any moment, between the log write of a commit and its
\* writes to the memtable among them, and over any number of orderly restarts, no logged
\* commit is lost: the log holds what the SSTs do not, and the replay skips none of it.
\* A second crash can lose writes, because the replay does not
\* log again what it puts into the memtable.
THEOREM CommitsSurviveACrash ==
  ASSUME MaxCrashes <= 1
  PROVE  Spec => []NoCommitLost
<1>1. Init => Kept
  <2> SUFFICES ASSUME Init
               PROVE  Kept
    OBVIOUS
  <2>1. /\ \A t \in Ids : acked[t] = 0 /\ status[t] = "none" /\ 1..acked[t] = {}
        /\ \A t \in Ids, n \in Pieces : place[t][n] = 0
        /\ crashes = 0
    BY DEF Init
  <2>2. SstHoldsFlushed
    BY <2>1 DEF SstHoldsFlushed, InSst
  <2>3. MarkedIsLogged /\ NoneSkipped /\ AckedAreOld
    BY <2>1 DEF MarkedIsLogged, NoneSkipped, AckedAreOld
  <2>4. AckedAreDurable /\ CrashIsRecoverable /\ NoCommitLost
    BY <2>1 DEF AckedAreDurable, CrashIsRecoverable, NoCommitLost
  <2> QED
    BY <2>2, <2>3, <2>4 DEF Kept
<1>2. Init => Logging
  BY LoggingInit
<1>3. IInv /\ Logging /\ Kept /\ [Next]_vars => Kept'
  BY KeptStep
<1>4. Kept => NoCommitLost
  BY DEF Kept
<1> QED
  BY <1>1, <1>2, <1>3, <1>4, InvInit, InvStep, LoggingStep, PTL DEF Spec
=============================================================================
