----------------------------- MODULE DiskProofs -----------------------------
(***************************************************************************)
(* Proofs about Disk and the parts it puts next to each other, for every   *)
(* value of the constants: the cleaner of the write-ahead log never takes  *)
(* a record that recovery would need, the Bloom filter of an SST denies no *)
(* key, and the tranc_id file reads back.                                  *)
(***************************************************************************)
EXTENDS Disk, TLAPS, FiniteSetTheorems, FunctionTheorems, SequenceTheorems,
        WellFoundedInduction

-----------------------------------------------------------------------------
\* The write-ahead log: for every number of transactions, every set of writes and
\* every file size.

\* The records transaction t logs when its writes are w, and all records.
RecordsOf(t, w) ==
  {createRecord(t), commitRecord(t)}
    \cup {deleteRecord(t, w[i][1]) : i \in {j \in 1..Len(w) : Len(w[j]) = 1}}
    \cup {putRecord(t, w[i][1], w[i][2]) : i \in {j \in 1..Len(w) : Len(w[j]) # 1}}

Records == UNION {RecordsOf(t, w) : t \in TrancIds, w \in Writes}

\* All records of run are t's.
IsOf(run, t) == \A i \in 1..Len(run) : run[i].tranc_id = t

Without(records, t) == \A i \in 1..Len(records) : records[i].tranc_id # t

-----------------------------------------------------------------------------
\* Numbers and sequences of records.

\* The lowest number of a nonempty set is in it.
LEMMA MinIsIn ==
  ASSUME NEW S \in SUBSET Nat, S # {}
  PROVE  Min(S) \in S
<1>1. PICK x \in S : \A y \in S : ~ (<<y, x>> \in OpToRel(<, Nat))
  BY NatLessThanWellFounded, WFMin
<1>2. \A y \in S : ~ (y < x)
  BY <1>1 DEF OpToRel
<1>3. \A y \in S : x <= y
  BY <1>2
<1> QED
  BY <1>3 DEF Min

\* log's records are those of its transaction, and there is at least one.
LEMMA OperationsOfOne ==
  ASSUME NEW t \in TrancIds, NEW w \in Writes
  PROVE  /\ Operations(t, w) \in Seq(Records)
         /\ Operations(t, w) # << >>
         /\ IsOf(Operations(t, w), t)
<1> DEFINE body == [i \in DOMAIN w |-> IF Len(w[i]) = 1 THEN deleteRecord(t, w[i][1])
                                       ELSE putRecord(t, w[i][1], w[i][2])]
           R == RecordsOf(t, w)
<1>1. Len(w) \in Nat /\ DOMAIN w = 1..Len(w)
  BY WalParameters
<1>2. \A i \in 1..Len(w) : body[i] \in R
  BY <1>1 DEF RecordsOf
<1>3. body \in Seq(R)
  BY <1>1, <1>2
<1>4. createRecord(t) \in R /\ commitRecord(t) \in R
  BY DEF RecordsOf
<1>5. \A r \in R : r.tranc_id = t
  BY DEF RecordsOf, createRecord, commitRecord, deleteRecord, putRecord, Record
<1>6. R \subseteq Records
  BY DEF Records
<1>7. Operations(t, w) = <<createRecord(t)>> \o body \o <<commitRecord(t)>>
  BY DEF Operations
<1> HIDE DEF body, R
<1>8. Operations(t, w) \in Seq(R) /\ Len(Operations(t, w)) = Len(body) + 2
  BY <1>3, <1>4, <1>7
<1>9. Operations(t, w) \in Seq(Records)
  BY <1>6, <1>8, SeqMonotonic
<1>10. Operations(t, w) # << >>
  BY <1>3, <1>8
<1>11. IsOf(Operations(t, w), t)
  BY <1>5, <1>8 DEF IsOf
<1> QED
  BY <1>9, <1>10, <1>11

\* A file keeps the run of a transaction when records of others are appended.
LEMMA AppendKeepsRun ==
  ASSUME NEW records \in Seq(Records), NEW more \in Seq(Records),
         NEW run \in Seq(Records), NEW t,
         HoldsRun(records, run, t), Without(more, t)
  PROVE  HoldsRun(records \o more, run, t)
<1> DEFINE all == records \o more
<1>1. PICK n \in 0..Len(records) :
         /\ n + Len(run) <= Len(records)
         /\ \A i \in 1..Len(run) : records[n + i] = run[i]
         /\ \A j \in 1..Len(records) :
              records[j].tranc_id = t => j \in (n + 1)..(n + Len(run))
  BY DEF HoldsRun
<1>2. /\ Len(all) = Len(records) + Len(more)
      /\ \A i \in 1..Len(records) : all[i] = records[i]
      /\ \A i \in 1..Len(all) : i > Len(records) => all[i] = more[i - Len(records)]
  BY ConcatProperties
<1>3. Len(records) \in Nat /\ Len(more) \in Nat /\ Len(run) \in Nat
  OBVIOUS
<1> HIDE DEF all
<1>4. ASSUME NEW i \in 1..Len(run)
      PROVE  all[n + i] = run[i]
  <2>1. n + i \in 1..Len(records)
    BY <1>1, <1>3
  <2> QED
    BY <1>1, <1>2, <2>1
<1>5. ASSUME NEW j \in 1..Len(all), all[j].tranc_id = t
      PROVE  j \in (n + 1)..(n + Len(run))
  <2>1. CASE j <= Len(records)
    BY <1>1, <1>2, <1>3, <1>5, <2>1
  <2>2. CASE j > Len(records)
    <3>1. j - Len(records) \in 1..Len(more)
      BY <1>2, <1>3, <2>2
    <3> QED
      BY <1>2, <1>5, <2>2, <3>1 DEF Without
  <2> QED
    BY <1>2, <1>3, <2>1, <2>2
<1>6. n \in 0..Len(all) /\ n + Len(run) <= Len(all)
  BY <1>1, <1>2, <1>3
<1> QED
  BY <1>4, <1>5, <1>6 DEF HoldsRun, all

\* A file that had no record of a transaction has its run once it is appended.
LEMMA AppendAddsRun ==
  ASSUME NEW records \in Seq(Records), NEW run \in Seq(Records), NEW t,
         Without(records, t)
  PROVE  HoldsRun(records \o run, run, t)
<1> DEFINE all == records \o run
           n == Len(records)
<1>1. /\ Len(all) = n + Len(run)
      /\ \A i \in 1..n : all[i] = records[i]
      /\ \A i \in 1..Len(run) : all[n + i] = run[i]
  BY ConcatProperties
<1>2. n \in Nat /\ Len(run) \in Nat
  OBVIOUS
<1> HIDE DEF all
<1>3. ASSUME NEW j \in 1..Len(all), all[j].tranc_id = t
      PROVE  j \in (n + 1)..(n + Len(run))
  <2>1. ~ (j \in 1..n)
    BY <1>1, <1>3 DEF Without
  <2> QED
    BY <1>1, <1>2, <2>1
<1>4. n \in 0..Len(all) /\ n + Len(run) <= Len(all)
  BY <1>1, <1>2
<1> QED
  BY <1>1, <1>3, <1>4 DEF HoldsRun, all

-----------------------------------------------------------------------------
\* The inductive invariant.

\* The files are numbered up to the active one, which exists.
FilesInv ==
  /\ active \in Nat /\ active \in DOMAIN files /\ DOMAIN files \subseteq 0..active
  /\ files \in [DOMAIN files -> Seq(Records)]
  /\ checkpoint \in Nat

\* Each transaction is logged once, in one call.
LoggedInv ==
  /\ synced \in [TrancIds -> Seq(Records)]
  /\ \A t \in TrancIds : IsOf(synced[t], t)
  /\ writing \in Seq(Records)
  /\ writing # << >> => \E t \in TrancIds : synced[t] = << >> /\ IsOf(writing, t)
  /\ \A t \in TrancIds : synced[t] = << >> => \A s \in DOMAIN files : Without(files[s], t)

\* The first n records of file s are below the checkpoint.
DoneUpTo(s, n) == \A i \in 1..Len(files[s]) : i <= n => files[s][i].tranc_id <= checkpoint

\* The cleaner looks only at files that nobody writes to any more, has seen that
\* the records before offset are finished, and deletes only finished files.
CleanerInv ==
  /\ offset \in Nat \ {0}
  /\ unread \in SUBSET DOMAIN files /\ active \notin unread
  /\ del_paths \in SUBSET DOMAIN files /\ active \notin del_paths
  /\ cleaner # "walk" => unread = {}
  /\ cleaner \notin {"walk", "delete"} => del_paths = {}
  /\ unread # {} => DoneUpTo(Current, offset - 1)
  /\ \A s \in del_paths : DoneUpTo(s, Len(files[s]))

IInv == FilesInv /\ LoggedInv /\ CleanerInv /\ CleanerKeepsUnfinished

\* The log as a start leaves it.
Fresh ==
  /\ files = NewLog /\ active = 0 /\ writing = << >> /\ checkpoint \in Nat
  /\ cleaner = "asleep" /\ unread = {} /\ offset = 1 /\ del_paths = {}
  /\ synced = NothingSynced

\* A new log has no transaction.
LEMMA FreshLog == Fresh => IInv
<1> SUFFICES ASSUME Fresh
             PROVE  IInv
  OBVIOUS
<1> USE DEF Fresh
<1>1. DOMAIN files = {0} /\ files[0] = << >> /\ files \in [DOMAIN files -> Seq(Records)]
  BY DEF NewLog
<1>2. FilesInv
  BY <1>1 DEF FilesInv
<1>3. LoggedInv
  BY <1>1 DEF LoggedInv, NothingSynced, IsOf, Without
<1>4. CleanerInv
  BY DEF CleanerInv
<1>5. CleanerKeepsUnfinished
  BY DEF CleanerKeepsUnfinished, NothingSynced
<1> QED
  BY <1>2, <1>3, <1>4, <1>5 DEF IInv

\* The first file the cleaner has not looked at is one of them.
LEMMA CurrentIsUnread ==
  ASSUME FilesInv, CleanerInv, unread # {}
  PROVE  Current \in unread /\ Current \in DOMAIN files /\ Current # active
<1>1. unread \in SUBSET Nat
  BY DEF FilesInv, CleanerInv
<1> QED
  BY <1>1, MinIsIn DEF Current, CleanerInv

\* Initially the log is new.
LEMMA InvInit == Init => IInv
BY FreshLog DEF Init, Fresh

\* Steps that leave the log alone.
LEMMA LogUntouched ==
  ASSUME IInv, UNCHANGED <<files, log_state>>, checkpoint' \in Nat, checkpoint <= checkpoint'
  PROVE  FilesInv' /\ LoggedInv' /\ CleanerKeepsUnfinished'
<1>1. FilesInv' /\ LoggedInv'
  BY DEF IInv, FilesInv, LoggedInv, log_state
<1>2. CleanerKeepsUnfinished'
  BY DEF IInv, FilesInv, CleanerKeepsUnfinished, log_state, TrancIds
<1> QED
  BY <1>1, <1>2

\* log writes the records of a new transaction.
LEMMA LogStep ==
  ASSUME IInv, NEW t \in TrancIds, NEW w \in Writes, log(t, w)
  PROVE  IInv'
<1>1. /\ writing' \in Seq(Records) /\ IsOf(writing', t) /\ synced'[t] = << >>
  BY OperationsOfOne DEF log
<1>2. LoggedInv'
  BY <1>1 DEF IInv, LoggedInv, log
<1> QED
  BY <1>2 DEF IInv, FilesInv, CleanerInv, DoneUpTo, CleanerKeepsUnfinished, log, cleaning, Current

\* A sync appends the records of one transaction to the active file.
LEMMA SyncStep ==
  ASSUME IInv, Sync
  PROVE  IInv'
<1>1. PICK t \in TrancIds : synced[t] = << >> /\ IsOf(writing, t)
  BY DEF IInv, LoggedInv, Sync
<1>2. /\ writing \in Seq(Records) /\ Len(writing) \in Nat \ {0}
      /\ writing[1].tranc_id = t
  BY <1>1 DEF IInv, LoggedInv, Sync, IsOf
<1>3. /\ synced' = [synced EXCEPT ![t] = writing] /\ writing' = << >>
      /\ files' = [files EXCEPT ![active] = @ \o writing]
      /\ UNCHANGED <<active, checkpoint, cleaning>>
  BY <1>2 DEF Sync
<1>4. files[active] \in Seq(Records) /\ files[active] \o writing \in Seq(Records)
  BY <1>2 DEF IInv, FilesInv
<1>5. /\ DOMAIN files' = DOMAIN files /\ files'[active] = files[active] \o writing
      /\ \A s \in DOMAIN files : s # active => files'[s] = files[s]
      /\ files' \in [DOMAIN files' -> Seq(Records)]
  BY <1>3, <1>4 DEF IInv, FilesInv
<1>6. /\ synced'[t] = writing /\ \A u \in TrancIds : u # t => synced'[u] = synced[u]
      /\ synced' \in [TrancIds -> Seq(Records)]
  BY <1>2, <1>3 DEF IInv, LoggedInv
<1>7. FilesInv'
  BY <1>3, <1>5 DEF IInv, FilesInv
<1>8. \A u \in TrancIds : u # t => Without(writing, u)
  BY <1>1 DEF IsOf, Without
<1>9. LoggedInv'
  <2>1. \A u \in TrancIds : IsOf(synced'[u], u)
    BY <1>1, <1>6 DEF IInv, LoggedInv
  <2>2. ASSUME NEW u \in TrancIds, synced'[u] = << >>, NEW s \in DOMAIN files'
        PROVE  Without(files'[s], u)
    <3>1. u # t /\ synced[u] = << >> /\ Without(files[s], u)
      BY <1>2, <1>5, <1>6, <2>2 DEF IInv, LoggedInv
    <3>2. CASE s # active
      BY <1>5, <3>1, <3>2
    <3>3. CASE s = active
      <4>1. Without(writing, u)
        BY <1>8, <3>1
      <4>2. \A i \in 1..Len(files'[s]) :
              files'[s][i] = IF i <= Len(files[s]) THEN files[s][i]
                             ELSE writing[i - Len(files[s])]
        BY <1>2, <1>4, <1>5, <3>3, ConcatProperties
      <4>3. ASSUME NEW i \in 1..Len(files'[s]), i > Len(files[s])
            PROVE  i - Len(files[s]) \in 1..Len(writing)
        BY <1>2, <1>4, <1>5, <3>3, <4>3
      <4> QED
        BY <1>4, <3>1, <3>3, <4>1, <4>2, <4>3 DEF Without
    <3> QED
      BY <3>2, <3>3
  <2> QED
    BY <1>3, <1>6, <2>1, <2>2 DEF LoggedInv
<1>10. CleanerInv'
  <2>1. unread' = unread /\ offset' = offset /\ Current' = Current /\ del_paths' = del_paths
        /\ active' = active /\ cleaner' = cleaner
    BY <1>3 DEF Current, cleaning
  <2>2. unread # {} => DoneUpTo(Current, offset - 1)'
    BY <1>3, <1>5, <2>1, CurrentIsUnread DEF IInv, CleanerInv, DoneUpTo
  <2>3. \A s \in del_paths : DoneUpTo(s, Len(files[s]))'
    BY <1>3, <1>5 DEF IInv, CleanerInv, DoneUpTo
  <2> QED
    BY <1>5, <2>1, <2>2, <2>3 DEF IInv, CleanerInv
<1>11. CleanerKeepsUnfinished'
  <2>1. SUFFICES ASSUME NEW u \in TrancIds, u > checkpoint', synced'[u] # << >>
                 PROVE  \E s \in DOMAIN files' : HoldsRun(files'[s], synced'[u], u)
    BY DEF CleanerKeepsUnfinished
  <2>2. CASE u = t
    <3>1. Without(files[active], t)
      BY <1>1 DEF IInv, LoggedInv, FilesInv
    <3>2. HoldsRun(files[active] \o writing, writing, t)
      BY <1>2, <1>4, <3>1, AppendAddsRun
    <3> QED
      BY <1>5, <1>6, <2>2, <3>2 DEF IInv, FilesInv
  <2>3. CASE u # t
    <3>1. PICK s \in DOMAIN files : HoldsRun(files[s], synced[u], u)
      BY <1>3, <1>6, <2>1, <2>3 DEF IInv, CleanerKeepsUnfinished
    <3>2. CASE s # active
      BY <1>5, <1>6, <2>3, <3>1, <3>2
    <3>3. CASE s = active
      <4>1. Without(writing, u) /\ synced[u] \in Seq(Records)
        BY <1>8, <2>3 DEF IInv, LoggedInv
      <4>2. HoldsRun(files[active] \o writing, synced[u], u)
        BY <1>2, <1>4, <3>1, <3>3, <4>1, AppendKeepsRun
      <4> QED
        BY <1>5, <1>6, <2>3, <3>3, <4>2
    <3> QED
      BY <3>2, <3>3
  <2> QED
    BY <2>2, <2>3
<1> QED
  BY <1>7, <1>9, <1>10, <1>11 DEF IInv

\* The next file is empty and becomes the active one.
LEMMA ResetStep ==
  ASSUME IInv, reset_file
  PROVE  IInv'
<1>1. /\ active' = active + 1 /\ DOMAIN files' = DOMAIN files \cup {active + 1}
      /\ \A s \in DOMAIN files : s # active + 1 => files'[s] = files[s]
      /\ files'[active + 1] = << >>
      /\ UNCHANGED <<writing, synced, checkpoint, cleaning>>
  BY DEF reset_file
<1>2. active + 1 \notin DOMAIN files /\ active \in Nat
  BY DEF IInv, FilesInv
<1>3. files' \in [DOMAIN files' -> Seq(Records)]
  BY <1>1, <1>2 DEF IInv, FilesInv, reset_file
<1>4. FilesInv'
  BY <1>1, <1>2, <1>3 DEF IInv, FilesInv
<1>5. LoggedInv'
  <2>1. \A t \in TrancIds : Without(<< >>, t)
    BY DEF Without
  <2>2. \A t \in TrancIds : synced'[t] = << >> => \A s \in DOMAIN files' : Without(files'[s], t)
    BY <1>1, <1>2, <2>1 DEF IInv, LoggedInv
  <2> QED
    BY <1>1, <2>2 DEF IInv, LoggedInv
<1>6. CleanerInv'
  <2>1. /\ unread' = unread /\ offset' = offset /\ Current' = Current
        /\ del_paths' = del_paths /\ cleaner' = cleaner
    BY <1>1 DEF Current, cleaning
  <2>2. unread # {} => DoneUpTo(Current, offset - 1)'
    BY <1>1, <1>2, <2>1, CurrentIsUnread DEF IInv, CleanerInv, DoneUpTo
  <2>3. \A s \in del_paths : DoneUpTo(s, Len(files[s]))'
    BY <1>1, <1>2 DEF IInv, CleanerInv, DoneUpTo
  <2>4. /\ unread \in SUBSET DOMAIN files' /\ active' \notin unread
        /\ del_paths \in SUBSET DOMAIN files' /\ active' \notin del_paths
    BY <1>1, <1>2 DEF IInv, CleanerInv
  <2> QED
    BY <2>1, <2>2, <2>3, <2>4 DEF IInv, CleanerInv
<1>7. CleanerKeepsUnfinished'
  BY <1>1, <1>2 DEF IInv, CleanerKeepsUnfinished
<1> QED
  BY <1>4, <1>5, <1>6, <1>7 DEF IInv

\* Of the listed files the active one, which has the highest number, is left out.
LEMMA CleanListStep ==
  ASSUME IInv, CleanList
  PROVE  IInv'
<1>1. Max(DOMAIN files) = active
  BY DEF IInv, FilesInv, Max
<1>2. /\ unread' = DOMAIN files \ {active} /\ offset' = 1 /\ cleaner' = "walk"
      /\ UNCHANGED <<files, log_state, checkpoint, del_paths>> /\ active' = active
      /\ cleaner = "list"
  BY <1>1 DEF CleanList, log_state
<1>3. CleanerInv'
  BY <1>2 DEF IInv, CleanerInv, DoneUpTo
<1> QED
  BY <1>2, <1>3, LogUntouched DEF IInv, FilesInv

\* A finished record; the cleaner goes on to the next.
LEMMA CleanNextRecordStep ==
  ASSUME IInv, CleanNextRecord
  PROVE  IInv'
<1>1. /\ offset' = offset + 1 /\ Finished /\ AtRecord
      /\ UNCHANGED <<files, log_state, checkpoint, cleaner, unread, del_paths>>
      /\ active' = active /\ Current' = Current
  BY DEF CleanNextRecord, log_state, Current
<1>2. Current \in DOMAIN files /\ offset \in Nat /\ files[Current] \in Seq(Records)
  BY <1>1, CurrentIsUnread DEF AtRecord, IInv, FilesInv, CleanerInv
<1>3. DoneUpTo(Current, offset - 1) /\ files[Current][offset].tranc_id <= checkpoint
  BY <1>1 DEF AtRecord, Finished, IInv, CleanerInv
<1>4. DoneUpTo(Current, offset' - 1)
  BY <1>1, <1>2, <1>3 DEF DoneUpTo
<1>5. CleanerInv'
  BY <1>1, <1>2, <1>4 DEF IInv, CleanerInv, DoneUpTo
<1> QED
  BY <1>1, <1>5, LogUntouched DEF IInv, FilesInv

\* An unfinished record: the file is left out.
LEMMA CleanUnfinishedStep ==
  ASSUME IInv, CleanUnfinished
  PROVE  IInv'
<1>1. /\ unread' = unread \ {Current} /\ offset' = 1 /\ cleaner = "walk"
      /\ UNCHANGED <<files, log_state, checkpoint, cleaner, del_paths>> /\ active' = active
  BY DEF CleanUnfinished, AtRecord, log_state
<1>2. CleanerInv'
  BY <1>1 DEF IInv, CleanerInv, DoneUpTo
<1> QED
  BY <1>1, <1>2, LogUntouched DEF IInv, FilesInv

\* At the end of a file every record of it has been found finished.
LEMMA CleanEndOfFileStep ==
  ASSUME IInv, CleanEndOfFile
  PROVE  IInv'
<1>1. /\ unread' = unread \ {Current} /\ offset' = 1 /\ cleaner = "walk" /\ unread # {}
      /\ del_paths' = del_paths \cup {Current}
      /\ UNCHANGED <<files, log_state, checkpoint, cleaner>> /\ active' = active
      /\ ~ (offset <= Len(files[Current]))
  BY DEF CleanEndOfFile, AtRecord, log_state
<1>2. /\ Current \in DOMAIN files /\ Current # active
      /\ offset \in Nat /\ files[Current] \in Seq(Records)
  BY <1>1, CurrentIsUnread DEF IInv, FilesInv, CleanerInv
<1>3. DoneUpTo(Current, Len(files[Current]))
  BY <1>1, <1>2 DEF DoneUpTo, IInv, CleanerInv
<1>4. CleanerInv'
  BY <1>1, <1>2, <1>3 DEF IInv, CleanerInv, DoneUpTo
<1> QED
  BY <1>1, <1>4, LogUntouched DEF IInv, FilesInv

\* Steps of the cleaner that only change its place.
LEMMA CleanerMoves ==
  ASSUME IInv, CleanStart \/ CleanWalked \/ CleanDone
  PROVE  IInv'
<1>1. /\ UNCHANGED <<files, log_state, checkpoint, unread, offset, del_paths>>
      /\ active' = active /\ Current' = Current
      /\ cleaner' # "walk" /\ unread = {}
      /\ cleaner' \notin {"walk", "delete"} => del_paths = {}
  BY DEF CleanStart, CleanWalked, CleanDone, log_state, Current, IInv, CleanerInv
<1>2. CleanerInv'
  BY <1>1 DEF IInv, CleanerInv, DoneUpTo
<1> QED
  BY <1>1, <1>2, LogUntouched DEF IInv, FilesInv

\* The deleted file has no record of a transaction above the checkpoint.
LEMMA CleanDeleteStep ==
  ASSUME IInv, CleanDelete
  PROVE  IInv'
<1> DEFINE gone == Min(del_paths)
<1>1. /\ files' = [s \in DOMAIN files \ {gone} |-> files[s]]
      /\ del_paths' = del_paths \ {gone} /\ del_paths # {} /\ cleaner = "delete"
      /\ UNCHANGED <<log_state, checkpoint, cleaner, unread, offset>>
      /\ active' = active /\ synced' = synced /\ writing' = writing
  BY DEF CleanDelete, log_state
<1>2. gone \in del_paths
  <2>1. del_paths \in SUBSET Nat
    BY DEF IInv, FilesInv, CleanerInv
  <2> QED
    BY <1>1, <2>1, MinIsIn
<1> HIDE DEF gone
<1>3. gone # active /\ DoneUpTo(gone, Len(files[gone])) /\ unread = {} /\ gone \in DOMAIN files
  BY <1>1, <1>2 DEF IInv, CleanerInv
<1>4. /\ DOMAIN files' = DOMAIN files \ {gone}
      /\ \A s \in DOMAIN files' : files'[s] = files[s]
  BY <1>1
<1>5. FilesInv'
  BY <1>1, <1>3, <1>4 DEF IInv, FilesInv
<1>6. LoggedInv'
  BY <1>1, <1>4 DEF IInv, LoggedInv
<1>7. CleanerInv'
  BY <1>1, <1>3, <1>4 DEF IInv, CleanerInv, DoneUpTo
<1>8. CleanerKeepsUnfinished'
  <2>1. SUFFICES ASSUME NEW t \in TrancIds, t > checkpoint, synced[t] # << >>
                 PROVE  \E s \in DOMAIN files' : HoldsRun(files'[s], synced[t], t)
    BY <1>1 DEF CleanerKeepsUnfinished
  <2>2. PICK s \in DOMAIN files : HoldsRun(files[s], synced[t], t)
    BY <2>1 DEF IInv, CleanerKeepsUnfinished
  <2>3. s # gone
    <3>1. SUFFICES ASSUME s = gone
                   PROVE  FALSE
      OBVIOUS
    <3>2. Len(synced[t]) \in Nat \ {0} /\ synced[t][1].tranc_id = t
      BY <2>1 DEF IInv, LoggedInv, IsOf
    <3>3. files[s] \in Seq(Records) /\ Len(files[s]) \in Nat
      BY DEF IInv, FilesInv
    <3>4. PICK n \in 0..Len(files[s]) :
             /\ n + Len(synced[t]) <= Len(files[s])
             /\ \A i \in 1..Len(synced[t]) : files[s][n + i] = synced[t][i]
      BY <2>2 DEF HoldsRun
    <3>5. n + 1 \in 1..Len(files[s]) /\ files[s][n + 1].tranc_id = t
      BY <3>2, <3>3, <3>4
    <3>6. t <= checkpoint
      BY <1>3, <3>1, <3>3, <3>5 DEF DoneUpTo
    <3> QED
      BY <2>1, <3>6, WalParameters DEF IInv, FilesInv, TrancIds
  <2> QED
    BY <1>4, <2>2, <2>3
<1> QED
  BY <1>5, <1>6, <1>7, <1>8 DEF IInv

\* Every step of the writers, of the cleaner and of a restart keeps the invariant.
LEMMA InvStep == IInv /\ [Next]_vars => IInv'
<1>1. SUFFICES ASSUME IInv, [Next]_vars
               PROVE  IInv'
  OBVIOUS
<1>2. ASSUME NEW t \in TrancIds, NEW w \in Writes, log(t, w)
      PROVE  IInv'
  BY <1>1, <1>2, LogStep
<1>3. CASE Sync
  BY <1>1, <1>3, SyncStep
<1>4. CASE reset_file
  BY <1>1, <1>4, ResetStep
<1>6. CASE cleanWALFile
  BY <1>1, <1>6, CleanerMoves, CleanListStep, CleanUnfinishedStep, CleanNextRecordStep,
     CleanEndOfFileStep, CleanDeleteStep DEF cleanWALFile
<1>7. ASSUME NEW m \in 0..MaxId, init_new_wal(m)
      PROVE  IInv'
  <2>1. m \in Nat
    BY WalParameters
  <2>2. Fresh'
    BY <1>7, <2>1 DEF init_new_wal, Fresh, NewLog, NothingSynced
  <2>3. Fresh' => IInv'
    BY FreshLog, PTL
  <2> QED
    BY <2>2, <2>3
<1>8. CASE UNCHANGED vars
  BY <1>1, <1>8 DEF vars, IInv, FilesInv, LoggedInv, CleanerInv, DoneUpTo, Current,
     CleanerKeepsUnfinished
<1> QED
  BY <1>1, <1>2, <1>3, <1>4, <1>6, <1>7, <1>8 DEF Next

\* The log's invariant is kept by the steps of the log, and nobody else touches it.
LEMMA WalInvariant == DiskSpec => []IInv
<1>1. DiskInit => IInv
  BY InvInit DEF DiskInit
<1>2. IInv /\ [DiskNext]_disk_vars => IInv'
  <2>1. SUFFICES ASSUME IInv, [DiskNext]_disk_vars
                 PROVE  IInv'
    OBVIOUS
  <2>2. [Next]_vars
    BY <2>1 DEF DiskNext, WalStep, disk_vars
  <2> QED
    BY <2>1, <2>2, InvStep
<1> QED
  BY <1>1, <1>2, PTL DEF DiskSpec

\* While log appends and starts new files, the cleaner leaves the records of every
\* transaction above the checkpoint in the files, all of them in one file and as log
\* wrote them: CleanerKeepsUnfinished holds for any number of transactions, whatever
\* they write and whatever the size of a file.
THEOREM LogKept == DiskSpec => []CleanerKeepsUnfinished
<1>1. IInv => CleanerKeepsUnfinished
  BY DEF IInv
<1> QED
  BY <1>1, WalInvariant, PTL

-----------------------------------------------------------------------------
\* The Bloom filter: for every size of the filter, number of hashes, pair of hash
\* functions and width of a byte.

\* Quotient and remainder.
LEMMA DivMod ==
  ASSUME NEW a \in Nat, NEW w \in Nat \ {0}
  PROVE  /\ a \div w \in Nat
         /\ a % w \in 0..(w - 1)
         /\ (a \div w) * w + (a % w) = a
OBVIOUS

\* Fewer whole bytes fit below i than into n bits.
LEMMA ByteExists ==
  ASSUME NEW n \in Nat, NEW i \in 0..(n - 1), NEW w \in Nat \ {0}
  PROVE  i \div w \in 0..(((n + w - 1) \div w) - 1)
<1> DEFINE q == i \div w
           m == (n + w - 1) \div w
           r == (n + w - 1) % w
<1>1. q \in Nat /\ q * w <= i
  BY DivMod
<1>2. m \in Nat /\ r \in 0..(w - 1) /\ m * w + r = n + w - 1
  <2>1. n + w - 1 \in Nat
    OBVIOUS
  <2> QED
    BY <2>1, DivMod
<1> HIDE DEF q, m, r
<1>3. ASSUME q >= m
      PROVE  FALSE
  <2>1. q * w >= m * w
    BY <1>1, <1>2, <1>3
  <2>2. q * w \in Nat /\ m * w \in Nat
    BY <1>1, <1>2
  <2> QED
    BY <1>1, <1>2, <2>1, <2>2
<1>4. q \in 0..(m - 1)
  BY <1>1, <1>2, <1>3
<1> QED
  BY <1>4 DEF q, m

\* The position of hash idx of k in a filter of n bits.
PositionIn(k, idx, n) == ((hash1[k] + ((idx * hash2[k]) % Word)) % Word) % n

FilterTypeInv ==
  /\ num_bits \in Nat \ {0} /\ num_hashes \in Nat
  /\ hash1 \in [BloomKeys -> Nat] /\ hash2 \in [BloomKeys -> Nat]
  /\ bits \in [0..(num_bits - 1) -> BOOLEAN]
  /\ added \in SUBSET BloomKeys /\ imaged \in SUBSET BloomKeys

\* The image denies no key that was in the filter it was made of.
ImageInv ==
  image # NoImage =>
    /\ image.num_bits \in Nat \ {0} /\ image.num_hashes \in Nat
    /\ \A k \in imaged : \A j \in 0..(image.num_hashes - 1) :
         Bloom!Bit(PositionIn(k, j, image.num_bits))

FilterInv == FilterTypeInv /\ ImageInv /\ Bloom!NoFalseNegatives

\* A hash of a key is a position of the filter.
LEMMA PositionInRange ==
  ASSUME Bloom!BloomParameters, FilterTypeInv,
         NEW k \in BloomKeys, NEW j \in Nat, NEW n \in Nat \ {0}
  PROVE  PositionIn(k, j, n) \in 0..(n - 1)
<1>1. Word \in Nat \ {0} /\ hash1[k] \in Nat /\ hash2[k] \in Nat
  BY DEF Bloom!BloomParameters, FilterTypeInv
<1>2. j * hash2[k] \in Nat
  BY <1>1
<1>3. (j * hash2[k]) % Word \in Nat
  BY <1>1, <1>2, DivMod
<1>4. (hash1[k] + ((j * hash2[k]) % Word)) % Word \in Nat
  BY <1>1, <1>3, DivMod
<1> QED
  BY <1>4, DivMod DEF PositionIn

\* hash is PositionIn the filter.
LEMMA HashInRange ==
  ASSUME Bloom!BloomParameters, FilterTypeInv, NEW k \in BloomKeys, NEW j \in 0..(num_hashes - 1)
  PROVE  Bloom!hash(k, j) = PositionIn(k, j, num_bits) /\ Bloom!hash(k, j) \in 0..(num_bits - 1)
<1>1. j \in Nat /\ num_bits \in Nat \ {0}
  BY DEF FilterTypeInv
<1>2. PositionIn(k, j, num_bits) \in 0..(num_bits - 1)
  BY <1>1, PositionInRange
<1> QED
  BY <1>2 DEF Bloom!hash, PositionIn

\* The empty filter.
LEMMA FilterInit ==
  ASSUME Bloom!BloomParameters
  PROVE  Bloom!Init => FilterInv
<1> SUFFICES ASSUME Bloom!Init
             PROVE  FilterInv
  OBVIOUS
<1>1. HashValues \subseteq Nat
  BY DEF Bloom!BloomParameters
<1>2. FilterTypeInv
  BY <1>1 DEF Bloom!Init, FilterTypeInv, Bloom!Empty, Bloom!BloomParameters
<1> QED
  BY <1>2 DEF Bloom!Init, FilterInv, ImageInv, Bloom!NoFalseNegatives

\* add sets the bits of one key and clears none.
LEMMA AddStep ==
  ASSUME Bloom!BloomParameters, FilterInv, NEW k \in BloomKeys, Bloom!add(k)
  PROVE  FilterInv'
<1>1. /\ bits' = [i \in DOMAIN bits |->
                  bits[i] \/ \E j \in 0..(num_hashes - 1) : i = Bloom!hash(k, j)]
      /\ added' = added \cup {k}
      /\ UNCHANGED <<num_bits, num_hashes, hash1, hash2, image, imaged>>
  BY DEF Bloom!add, Bloom!hashes
<1>2. FilterTypeInv /\ DOMAIN bits = 0..(num_bits - 1)
  BY DEF FilterInv, FilterTypeInv
<1>3. FilterTypeInv'
  BY <1>1, <1>2 DEF FilterTypeInv
<1>4. ImageInv'
  BY <1>1 DEF FilterInv, ImageInv, Bloom!Bit, PositionIn
<1>5. \A i \in DOMAIN bits : /\ bits[i] => bits'[i]
                             /\ (\E j \in 0..(num_hashes - 1) : i = Bloom!hash(k, j)) => bits'[i]
  BY <1>1
<1>6. ASSUME NEW x \in added', NEW j \in 0..(num_hashes - 1)
      PROVE  bits'[Bloom!hash(x, j)]
  <2>1. x \in BloomKeys
    BY <1>1, <1>2 DEF FilterTypeInv
  <2>2. Bloom!hash(x, j) \in DOMAIN bits
    BY <1>2, <2>1, HashInRange
  <2>3. CASE x \in added
    <3>1. bits[Bloom!hash(x, j)]
      BY <2>3 DEF FilterInv, Bloom!NoFalseNegatives, Bloom!possibly_contains
    <3> QED
      BY <1>5, <2>2, <3>1
  <2>4. CASE x = k
    BY <1>5, <2>2, <2>4
  <2> QED
    BY <1>1, <2>3, <2>4
<1>7. ASSUME NEW x \in added', NEW j \in 0..(num_hashes' - 1)
      PROVE  bits[Bloom!hash(x, j)]'
  <2>1. Bloom!hash(x, j)' = Bloom!hash(x, j)
    BY <1>1 DEF Bloom!hash
  <2> QED
    BY <1>1, <1>6, <2>1
<1>8. Bloom!NoFalseNegatives'
  BY <1>7 DEF Bloom!NoFalseNegatives, Bloom!possibly_contains
<1> QED
  BY <1>3, <1>4, <1>8 DEF FilterInv

\* A bit read from the image is the bit of the filter.
LEMMA EncodedBit ==
  ASSUME Bloom!BloomParameters, FilterTypeInv, Bloom!encode, NEW i \in 0..(num_bits - 1)
  PROVE  Bloom!Bit(i)' <=> bits[i]
<1> DEFINE q == i \div ByteWidth
           r == i % ByteWidth
<1>1. ByteWidth \in Nat \ {0} /\ num_bits \in Nat
  BY DEF Bloom!BloomParameters, FilterTypeInv
<1>2. q \in Nat /\ r \in 0..(ByteWidth - 1) /\ q * ByteWidth + r = i
  BY <1>1, DivMod
<1>3. q \in 0..(Bloom!NumBytes(num_bits) - 1)
  BY <1>1, ByteExists DEF Bloom!NumBytes
<1>4. image'.bytes[q] = Bloom!Byte(q)
  <2> HIDE DEF q
  <2> QED
    BY <1>3 DEF Bloom!encode
<1>5. r \in Bloom!Byte(q) <=> (q * ByteWidth + r < num_bits /\ bits[q * ByteWidth + r])
  <2> HIDE DEF q, r
  <2> QED
    BY <1>2 DEF Bloom!Byte
<1>6. i < num_bits
  BY <1>1
<1>7. Bloom!Bit(i)' <=> r \in image'.bytes[q]
  BY DEF Bloom!Bit
<1> HIDE DEF q, r
<1> QED
  BY <1>2, <1>4, <1>5, <1>6, <1>7

\* encode makes an image of the filter.
LEMMA EncodeStep ==
  ASSUME Bloom!BloomParameters, FilterInv, Bloom!encode
  PROVE  FilterInv'
<1>1. /\ UNCHANGED <<bits, num_bits, num_hashes, hash1, hash2, added>> /\ imaged' = added
      /\ image'.num_bits = num_bits /\ image'.num_hashes = num_hashes
  BY DEF Bloom!encode, Bloom!hashes
<1>2. FilterTypeInv
  BY DEF FilterInv
<1>3. FilterTypeInv' /\ Bloom!NoFalseNegatives'
  BY <1>1, <1>2 DEF FilterInv, FilterTypeInv, Bloom!NoFalseNegatives,
     Bloom!possibly_contains, Bloom!hash
<1>4. ASSUME NEW k \in imaged', NEW j \in 0..(num_hashes - 1)
      PROVE  Bloom!Bit(PositionIn(k, j, num_bits))'
  <2>1. k \in added /\ k \in BloomKeys
    BY <1>1, <1>2 DEF FilterTypeInv
  <2>2. bits[Bloom!hash(k, j)]
    BY <2>1 DEF FilterInv, Bloom!NoFalseNegatives, Bloom!possibly_contains
  <2>3. PICK i \in 0..(num_bits - 1) : i = Bloom!hash(k, j) /\ i = PositionIn(k, j, num_bits)
    BY <1>2, <2>1, HashInRange
  <2>4. Bloom!Bit(i)'
    BY <1>2, <2>2, <2>3, EncodedBit
  <2>5. PositionIn(k, j, num_bits)' = i
    BY <1>1, <2>3 DEF PositionIn
  <2> QED
    BY <2>4, <2>5 DEF Bloom!Bit
<1>5. ImageInv'
  BY <1>1, <1>2, <1>4 DEF ImageInv, FilterTypeInv, Bloom!Bit, PositionIn
<1> QED
  BY <1>3, <1>5 DEF FilterInv

\* decode makes a filter of the image.
LEMMA DecodeStep ==
  ASSUME Bloom!BloomParameters, FilterInv, Bloom!decode
  PROVE  FilterInv'
<1>1. /\ image # NoImage /\ num_bits' = image.num_bits /\ num_hashes' = image.num_hashes
      /\ bits' = [i \in 0..(image.num_bits - 1) |-> Bloom!Bit(i)]
      /\ added' = imaged /\ UNCHANGED <<hash1, hash2, image, imaged>>
  BY DEF Bloom!decode, Bloom!hashes
<1>2. FilterTypeInv /\ image.num_bits \in Nat \ {0} /\ image.num_hashes \in Nat
  BY <1>1 DEF FilterInv, ImageInv
<1>3. FilterTypeInv'
  BY <1>1, <1>2 DEF FilterTypeInv, Bloom!Bit
<1>4. ImageInv'
  BY <1>1 DEF FilterInv, ImageInv, Bloom!Bit, PositionIn
<1>5. ASSUME NEW k \in imaged, NEW j \in 0..(image.num_hashes - 1)
      PROVE  bits'[PositionIn(k, j, image.num_bits)]
  <2>1. Bloom!Bit(PositionIn(k, j, image.num_bits))
    BY <1>1 DEF FilterInv, ImageInv
  <2>2. PositionIn(k, j, image.num_bits) \in 0..(image.num_bits - 1)
    <3>1. k \in BloomKeys /\ j \in Nat
      BY <1>2 DEF FilterTypeInv
    <3> QED
      BY <1>2, <3>1, PositionInRange
  <2> QED
    BY <1>1, <2>1, <2>2
<1>6. \A k \in imaged, j \in 0..(image.num_hashes - 1) :
        Bloom!hash(k, j)' = PositionIn(k, j, image.num_bits)
  BY <1>1 DEF Bloom!hash, PositionIn
<1>7. Bloom!NoFalseNegatives'
  BY <1>1, <1>5, <1>6 DEF Bloom!NoFalseNegatives, Bloom!possibly_contains
<1> QED
  BY <1>3, <1>4, <1>7 DEF FilterInv

\* Every operation keeps the invariant.
LEMMA FilterStep ==
  ASSUME Bloom!BloomParameters
  PROVE  FilterInv /\ [Bloom!Next]_filter => FilterInv'
<1> SUFFICES ASSUME FilterInv, [Bloom!Next]_filter
             PROVE  FilterInv'
  OBVIOUS
<1>1. ASSUME NEW k \in BloomKeys, Bloom!add(k)
      PROVE  FilterInv'
  BY <1>1, AddStep
<1>2. CASE Bloom!clear
  BY <1>2 DEF Bloom!clear, Bloom!hashes, Bloom!Empty, FilterInv, FilterTypeInv, ImageInv,
     Bloom!Bit, PositionIn, Bloom!NoFalseNegatives
<1>3. CASE Bloom!encode
  BY <1>3, EncodeStep
<1>4. CASE Bloom!decode
  BY <1>4, DecodeStep
<1>5. CASE UNCHANGED filter
  BY <1>5 DEF filter, FilterInv, FilterTypeInv, ImageInv, Bloom!Bit, PositionIn,
     Bloom!NoFalseNegatives, Bloom!possibly_contains, Bloom!hash
<1> QED
  BY <1>1, <1>2, <1>3, <1>4, <1>5 DEF Bloom!Next

\* The Bloom filter of an SST never denies a key that was added to it, whatever the
\* hash functions, the number of bits (a multiple of the width of a byte or not),
\* the number of hashes, and however often it went through the file.
THEOREM FilterKept == DiskSpec => []NoFalseNegatives
<1> DEFINE Inv == kind = "bloom" => FilterInv
<1>1. DiskInit => Inv
  BY FilterParameters, FilterInit DEF DiskInit
<1>2. Inv /\ [DiskNext]_disk_vars => Inv'
  <2>1. SUFFICES ASSUME Inv, [DiskNext]_disk_vars, kind' = "bloom"
                 PROVE  FilterInv'
    OBVIOUS
  <2>2. kind = "bloom" /\ ([Bloom!Next]_filter)
    BY <2>1 DEF DiskNext, WalStep, disk_vars
  <2> QED
    BY <2>1, <2>2, FilterParameters, FilterStep
<1>3. Inv => NoFalseNegatives
  BY DEF FilterInv, NoFalseNegatives
<1> QED
  BY <1>1, <1>2, <1>3, PTL DEF DiskSpec

-----------------------------------------------------------------------------
\* The tranc_id file.

\* The file cells begins with next id n, the number of flushed ids and the ids S.
Encodes(cells, n, S) ==
  /\ n \in Nat /\ S \in SUBSET Nat /\ IsFiniteSet(S)
  /\ cells \in Seq(Nat) /\ Len(cells) >= 2 + Cardinality(S)
  /\ cells[1] = n /\ cells[2] = Cardinality(S)
  /\ {cells[2 + i] : i \in 1..Cardinality(S)} = S

\* The file holds the state s.
Holds(cells, s) ==
  \/ cells = << >> /\ s = << >>
  \/ \E n, S : s = <<n, S>> /\ Encodes(cells, n, S)

\* The file holds a state that may be found, and the buffer the manager's own.
IdsInv ==
  /\ next \in Nat /\ ids \in SUBSET Nat /\ IsFiniteSet(ids)
  /\ \E s \in saved : Holds(disk, s)
  /\ ~ opened => buffered = NoWrite
  /\ buffered # NoWrite =>
       buffered = [offset |-> 0, cells |-> Ids!Buf] /\ <<next, ids>> \in saved

\* The instance of TrancIdFile counts as everybody else.
LEMMA SameCardinality == \A S : Ids!Cardinality(S) = Cardinality(S)
BY DEF Ids!Cardinality, Cardinality

\* Ascending is an enumeration: how many elements are smaller tells an element
\* from the others.
LEMMA AscendingEnumerates ==
  ASSUME NEW S \in SUBSET Nat, IsFiniteSet(S)
  PROVE  /\ Cardinality(S) \in Nat
         /\ Ids!Ascending(S) \in Seq(Nat) /\ Len(Ids!Ascending(S)) = Cardinality(S)
         /\ {Ids!Ascending(S)[i] : i \in 1..Cardinality(S)} = S
<1> DEFINE c == Cardinality(S)
           Below(x) == {y \in S : y < x}
           rank == [x \in S |-> Cardinality(Below(x)) + 1]
           a == Ids!Ascending(S)
<1>1. c \in Nat
  BY FS_CardinalityType
<1>2. \A x \in S : IsFiniteSet(Below(x)) /\ Cardinality(Below(x)) \in Nat
  BY FS_Subset, FS_CardinalityType
<1>3. ASSUME NEW x \in S, NEW T \in SUBSET S, Below(x) \subseteq T, x \in T
      PROVE  Cardinality(Below(x)) < Cardinality(T)
  <2>1. IsFiniteSet(T) /\ Cardinality(T) \in Nat
    BY FS_Subset, FS_CardinalityType
  <2>2. Below(x) \in SUBSET T /\ Below(x) # T
    BY <1>3
  <2>3. Cardinality(Below(x)) <= Cardinality(T) /\ Cardinality(T) # Cardinality(Below(x))
    BY <2>1, <2>2, FS_Subset
  <2> QED
    BY <1>2, <2>1, <2>3
<1>4. rank \in [S -> 1..c]
  <2> SUFFICES ASSUME NEW x \in S
               PROVE  Cardinality(Below(x)) + 1 \in 1..c
    OBVIOUS
  <2>1. Cardinality(Below(x)) < c
    BY <1>3
  <2> QED
    BY <1>1, <1>2, <2>1
<1>5. \A x, y \in S : x < y => rank[x] < rank[y]
  <2> SUFFICES ASSUME NEW x \in S, NEW y \in S, x < y
               PROVE  Cardinality(Below(x)) + 1 < Cardinality(Below(y)) + 1
    OBVIOUS
  <2>1. \A z \in S : z \in Nat
    OBVIOUS
  <2>2. x \in Below(y) /\ Below(y) \in SUBSET S
    OBVIOUS
  <2>3. \A z \in S : z < x => z < y
    BY <2>1
  <2>4. Below(x) \subseteq Below(y)
    BY <2>3
  <2>5. Cardinality(Below(x)) < Cardinality(Below(y))
    BY <1>3, <2>2, <2>4
  <2> QED
    BY <1>2, <2>5
<1>6. \A x \in S : rank[x] \in Nat
  BY <1>2
<1>7. \A x, y \in S : rank[x] = rank[y] => x = y
  <2> SUFFICES ASSUME NEW x \in S, NEW y \in S, rank[x] = rank[y]
               PROVE  x = y
    OBVIOUS
  <2>1. ~ (x < y) /\ ~ (y < x)
    BY <1>5, <1>6
  <2> QED
    BY <2>1
<1>8. \A x \in S : (Cardinality({y \in S : y < x}) + 1) = rank[x]
  OBVIOUS
<1>9. a = [i \in 1..c |-> CHOOSE x \in S : Ids!Cardinality({y \in S : y < x}) = i - 1]
  BY SameCardinality DEF Ids!Ascending
<1> HIDE DEF rank, a, c
<1>10. \A i \in 1..c : \E x \in S : rank[x] = i
  <2>1. rank \in Injection(S, 1..c)
    BY <1>4, <1>7 DEF Injection, IsInjective
  <2>2. IsFiniteSet(1..c) /\ Cardinality(1..c) = c
    BY <1>1, FS_Interval
  <2>3. rank \in Surjection(S, 1..c)
    BY <2>1, <2>2, FS_Injection DEF c
  <2> QED
    BY <2>3 DEF Surjection
<1>11. \A i \in 1..c : a[i] \in S /\ rank[a[i]] = i
  <2> SUFFICES ASSUME NEW i \in 1..c
               PROVE  a[i] \in S /\ rank[a[i]] = i
    OBVIOUS
  <2>1. PICK x \in S : rank[x] = i
    BY <1>10
  <2>2. Cardinality({y \in S : y < x}) = i - 1
    BY <1>2, <1>8, <2>1
  <2>3. Ids!Cardinality({y \in S : y < x}) = i - 1
    BY <2>2, SameCardinality
  <2>4. a[i] = CHOOSE z \in S : Ids!Cardinality({y \in S : y < z}) = i - 1
    BY <1>9
  <2>5. a[i] \in S /\ Ids!Cardinality({y \in S : y < a[i]}) = i - 1
    BY <2>3, <2>4, Zenon
  <2>6. Cardinality({y \in S : y < a[i]}) = i - 1
    BY <2>5, SameCardinality
  <2>7. Cardinality({y \in S : y < a[i]}) + 1 = rank[a[i]]
    BY <1>8, <2>5
  <2>8. i \in Int
    BY <1>1
  <2> QED
    BY <2>5, <2>6, <2>7, <2>8
<1>12. DOMAIN a = 1..c /\ a = [i \in 1..c |-> a[i]]
  BY <1>9
<1>13. a \in Seq(Nat) /\ Len(a) = c
  BY <1>1, <1>11, <1>12
<1>14. \A x \in S : \E i \in 1..c : a[i] = x
  <2> SUFFICES ASSUME NEW x \in S
               PROVE  \E i \in 1..c : a[i] = x
    OBVIOUS
  <2>1. rank[x] \in 1..c
    BY <1>4
  <2>2. a[rank[x]] \in S /\ rank[a[rank[x]]] = rank[x]
    BY <1>11, <2>1
  <2> QED
    BY <1>7, <2>1, <2>2
<1>15. {a[i] : i \in 1..c} = S
  BY <1>11, <1>14
<1> QED
  BY <1>1, <1>13, <1>15 DEF a, c

\* Behind a write at offset 0 the rest of a longer file does no harm.
LEMMA WriteEncodes ==
  ASSUME NEW cells \in Seq(Nat), IdsInv
  PROVE  Encodes(Ids!Written(cells, [offset |-> 0, cells |-> Ids!Buf]), next, ids)
<1> DEFINE c == Cardinality(ids)
           a == Ids!Ascending(ids)
           b == Ids!Buf
           w == Ids!Written(cells, [offset |-> 0, cells |-> b])
           l == IF 0 + Len(b) > Len(cells) THEN 0 + Len(b) ELSE Len(cells)
<1>1. next \in Nat /\ ids \in SUBSET Nat /\ IsFiniteSet(ids)
  BY DEF IdsInv
<1>2. c \in Nat /\ a \in Seq(Nat) /\ Len(a) = c /\ {a[i] : i \in 1..c} = ids
  BY <1>1, AscendingEnumerates
<1>3. b = <<next, c>> \o a
  BY SameCardinality DEF Ids!Buf
<1> HIDE DEF a, b, c
<1>4. /\ b \in Seq(Nat) /\ Len(b) = 2 + c /\ b[1] = next /\ b[2] = c
      /\ \A i \in 1..c : b[2 + i] = a[i]
  BY <1>1, <1>2, <1>3
<1>5. w = [i \in 1..l |-> IF i \in (0 + 1)..(0 + Len(b)) THEN b[i - 0]
                           ELSE IF i <= Len(cells) THEN cells[i] ELSE 0]
  BY DEF Ids!Written
<1>6. Len(cells) \in Nat /\ l \in Nat /\ l >= 2 + c
  BY <1>2, <1>4
<1> HIDE DEF w, l
<1>7. w = [i \in 1..l |-> IF i <= 2 + c THEN b[i] ELSE IF i <= Len(cells) THEN cells[i] ELSE 0]
  BY <1>2, <1>4, <1>5, <1>6
<1>8. \A i \in 1..l : w[i] \in Nat
  <2> SUFFICES ASSUME NEW i \in 1..l
               PROVE  w[i] \in Nat
    OBVIOUS
  <2>1. CASE i <= 2 + c
    BY <1>2, <1>4, <1>7, <2>1
  <2>2. CASE ~ (i <= 2 + c)
    BY <1>6, <1>7, <2>2
  <2> QED
    BY <2>1, <2>2
<1>9. w \in Seq(Nat) /\ Len(w) = l
  <2>1. w = [i \in 1..l |-> w[i]]
    BY <1>7
  <2> QED
    BY <1>6, <1>8, <2>1
<1>10. w[1] = next /\ w[2] = c
  BY <1>2, <1>4, <1>6, <1>7
<1>11. \A i \in 1..c : w[2 + i] = a[i]
  BY <1>2, <1>4, <1>6, <1>7
<1>12. {w[2 + i] : i \in 1..c} = ids
  BY <1>2, <1>11
<1> QED
  BY <1>1, <1>6, <1>9, <1>10, <1>12 DEF Encodes, w, c, b

\* What the constructor reads from such a file.
LEMMA EncodedIsRead ==
  ASSUME NEW n, NEW S, Encodes(disk, n, S)
  PROVE  Ids!Readable /\ Ids!Found = <<n, S>>
<1> DEFINE c == Cardinality(S)
<1>1. /\ n \in Nat /\ S \in SUBSET Nat /\ IsFiniteSet(S)
      /\ disk \in Seq(Nat) /\ Len(disk) >= 2 + c
      /\ disk[1] = n /\ disk[2] = c
      /\ {disk[2 + i] : i \in 1..c} = S
  BY DEF Encodes
<1>2. c \in Nat /\ Len(disk) \in Nat
  BY <1>1, FS_CardinalityType
<1> HIDE DEF c
<1>3. Ids!ReadSize = c /\ Ids!read_uint64(0) = n
  BY <1>1 DEF Ids!ReadSize, Ids!read_uint64
<1>4. Ids!Readable
  BY <1>1, <1>2, <1>3 DEF Ids!Readable, Ids!InRange
<1>5. \A i \in 0..(c - 1) : Ids!read_uint64(2 + i) = disk[2 + (i + 1)]
  BY <1>2 DEF Ids!read_uint64
<1>6. {Ids!read_uint64(2 + i) : i \in 0..(c - 1)} = {disk[2 + i] : i \in 1..c}
  <2>1. \A i \in 0..(c - 1) : i + 1 \in 1..c
    BY <1>2
  <2>2. \A i \in 1..c : i - 1 \in 0..(c - 1) /\ Ids!read_uint64(2 + (i - 1)) = disk[2 + i]
    BY <1>2 DEF Ids!read_uint64
  <2>3. \A i \in 0..(c - 1) : Ids!read_uint64(2 + i) \in {disk[2 + j] : j \in 1..c}
    BY <1>5, <2>1
  <2>4. \A i \in 1..c : disk[2 + i] \in {Ids!read_uint64(2 + j) : j \in 0..(c - 1)}
    BY <2>2
  <2> QED
    BY <2>3, <2>4
<1> QED
  BY <1>1, <1>3, <1>4, <1>6 DEF Ids!Found

\* The steps of the manager and the end of the program.
LEMMA IdsStep ==
  ASSUME IdsInv, Ids!Next
  PROVE  IdsInv'
<1>1. next \in Nat /\ ids \in SUBSET Nat /\ IsFiniteSet(ids)
  BY DEF IdsInv
<1>2. PICK s \in saved : Holds(disk, s)
  BY DEF IdsInv
<1>3. disk \in Seq(Nat)
  <2>1. CASE disk = << >>
    BY <2>1
  <2>2. CASE disk # << >>
    BY <1>2, <2>2 DEF Holds, Encodes
  <2> QED
    BY <2>1, <2>2
<1>4. buffered # NoWrite => Holds(Ids!Flushed, <<next, ids>>) /\ <<next, ids>> \in saved
  <2> SUFFICES ASSUME buffered # NoWrite
               PROVE  Holds(Ids!Flushed, <<next, ids>>) /\ <<next, ids>> \in saved
    OBVIOUS
  <2>1. buffered = [offset |-> 0, cells |-> Ids!Buf] /\ <<next, ids>> \in saved
    BY DEF IdsInv
  <2>2. Ids!Flushed = Ids!Written(disk, [offset |-> 0, cells |-> Ids!Buf])
    BY <2>1 DEF Ids!Flushed
  <2>3. Encodes(Ids!Flushed, next, ids)
    BY <1>3, <2>2, WriteEncodes
  <2> QED
    BY <2>1, <2>3 DEF Holds
<1>5. buffered = NoWrite => Ids!Flushed = disk
  BY DEF Ids!Flushed
<1>6. CASE Ids!Work
  <2>1. /\ buffered = NoWrite /\ buffered' = buffered /\ disk' = disk /\ saved' = saved
        /\ opened /\ opened' = opened
        /\ next' \in next..MaxNext /\ ids' \in SUBSET (0..(next' - 1))
    BY <1>6 DEF Ids!Work
  <2>2. next' \in Nat
    BY <1>1, <2>1, DiskParameters
  <2>3. ids' \in SUBSET Nat /\ IsFiniteSet(ids')
    <3>1. next' - 1 \in Int
      BY <2>2
    <3>2. IsFiniteSet(0..(next' - 1))
      BY <3>1, FS_Interval
    <3>3. \A i \in 0..(next' - 1) : i \in Nat
      BY <3>1
    <3>4. ids' \in SUBSET Nat
      BY <2>1, <3>3
    <3> QED
      BY <2>1, <3>2, <3>4, FS_Subset
  <2> QED
    BY <1>2, <2>1, <2>2, <2>3 DEF IdsInv
<1>7. CASE Ids!WriteIds
  <2>1. /\ buffered = NoWrite /\ disk' = Ids!Flushed /\ next' = next /\ ids' = ids
        /\ opened /\ opened' = opened
        /\ buffered' = [offset |-> 0, cells |-> Ids!Buf] /\ saved' = saved \cup {<<next, ids>>}
    BY <1>7 DEF Ids!WriteIds, Ids!write
  <2>2. Ids!Buf' = Ids!Buf
    BY <2>1 DEF Ids!Buf
  <2> QED
    BY <1>1, <1>2, <1>5, <2>1, <2>2 DEF IdsInv
<1>8. CASE Ids!SyncIds
  <2>1. /\ buffered # NoWrite /\ disk' = Ids!Flushed /\ next' = next /\ ids' = ids
        /\ buffered' = NoWrite /\ saved' = {<<next, ids>>}
    BY <1>8 DEF Ids!SyncIds, Ids!sync
  <2> QED
    BY <1>1, <1>4, <2>1 DEF IdsInv
<1>9. CASE Ids!Crash
  <2>1. /\ disk' \in {disk, Ids!Flushed} /\ next' = next /\ ids' = ids
        /\ buffered' = NoWrite /\ saved' = saved
    BY <1>9 DEF Ids!Crash
  <2>2. \E r \in saved : Holds(disk', r)
    <3>1. CASE disk' = disk
      BY <1>2, <3>1
    <3>2. CASE disk' = Ids!Flushed /\ buffered # NoWrite
      BY <1>4, <3>2
    <3> QED
      BY <1>5, <2>1, <3>1, <3>2
  <2> QED
    BY <1>1, <2>1, <2>2 DEF IdsInv
<1>10. CASE Ids!read_tranc_id_file
  <2>1. /\ ~ opened /\ Ids!Readable /\ <<next', ids'>> = Ids!Found
        /\ saved' = {<<next', ids'>>} /\ disk' = disk /\ buffered' = buffered
    BY <1>10 DEF Ids!read_tranc_id_file, Ids!Found
  <2>2. disk # << >>
    BY <2>1 DEF Ids!Readable, Ids!InRange
  <2>3. PICK n, S : s = <<n, S>> /\ Encodes(disk, n, S)
    BY <1>2, <2>2 DEF Holds
  <2>4. next' = n /\ ids' = S
    BY <2>1, <2>3, EncodedIsRead
  <2>5. next' \in Nat /\ ids' \in SUBSET Nat /\ IsFiniteSet(ids')
    BY <2>3, <2>4 DEF Encodes
  <2>6. Holds(disk', <<next', ids'>>)
    BY <2>1, <2>3, <2>4 DEF Holds
  <2>7. buffered' = NoWrite
    BY <2>1 DEF IdsInv
  <2> QED
    BY <2>1, <2>5, <2>6, <2>7 DEF IdsInv
<1> QED
  BY <1>6, <1>7, <1>8, <1>9, <1>10 DEF Ids!Next

IdFileInv == kind = "ids" => IdsInv

\* After a restart the manager finds in the tranc_id file what it wrote last or, when
\* the program ended between write and sync, what it wrote before, for any number of
\* ids, writes and restarts; only before the first sync it may find nothing.
THEOREM IdFileKept == DiskSpec => []IdFileReadsBack
<1>1. DiskInit => IdFileInv
  <2> SUFFICES ASSUME DiskInit, kind = "ids"
               PROVE  IdsInv
    BY DEF IdFileInv
  <2>1. disk = << >> /\ buffered = NoWrite /\ next = 1 /\ ids = {0} /\ saved = {<< >>}
    BY DEF DiskInit, Ids!Init
  <2>2. IsFiniteSet({0})
    BY FS_Singleton
  <2>3. Holds(<< >>, << >>)
    BY DEF Holds
  <2> QED
    BY <2>1, <2>2, <2>3 DEF IdsInv
<1>2. IdFileInv /\ [DiskNext]_disk_vars => IdFileInv'
  <2> SUFFICES ASSUME IdFileInv, [DiskNext]_disk_vars, kind' = "ids"
               PROVE  IdsInv'
    BY DEF IdFileInv
  <2>1. kind = "ids" /\ (Ids!Next \/ UNCHANGED id_file)
    BY DEF DiskNext, WalStep, disk_vars
  <2>2. IdsInv
    BY <2>1 DEF IdFileInv
  <2>3. CASE UNCHANGED id_file
    <3>1. UNCHANGED <<disk, buffered, opened, next, ids, saved>>
      BY <2>3 DEF id_file
    <3>2. Ids!Buf' = Ids!Buf
      BY <3>1 DEF Ids!Buf
    <3> QED
      BY <2>2, <3>1, <3>2 DEF IdsInv
  <2> QED
    BY <2>1, <2>2, <2>3, IdsStep
<1>3. IdFileInv => IdFileReadsBack
  <2> SUFFICES ASSUME IdsInv
               PROVE  (Ids!Readable /\ Ids!Found \in saved) \/ (disk = << >> /\ << >> \in saved)
    BY DEF IdFileInv, IdFileReadsBack, Ids!IdFileReadsBack
  <2>1. PICK s \in saved : Holds(disk, s)
    BY DEF IdsInv
  <2>2. CASE disk = << >> /\ s = << >>
    BY <2>1, <2>2
  <2>3. ASSUME NEW n, NEW S, s = <<n, S>>, Encodes(disk, n, S)
        PROVE  Ids!Readable /\ Ids!Found \in saved
    BY <2>1, <2>3, EncodedIsRead
  <2> QED
    BY <2>1, <2>2, <2>3 DEF Holds
<1> QED
  BY <1>1, <1>2, <1>3, PTL DEF DiskSpec
=============================================================================
