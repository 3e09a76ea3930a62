--------------------------- MODULE MemTableProofs ---------------------------
(***************************************************************************)
(* Proofs about MemTable, for any number of threads and items and all      *)
(* workloads.                                                              *)
(***************************************************************************)
EXTENDS MemTable, TLAPS, FiniteSetTheorems, SequenceTheorems

-----------------------------------------------------------------------------
\* The inductive invariant.

\* Where a thread may be in a call.
Flushing == {"flush", "flush_size", "flush_lock", "flush_last", "flush_take", "flush_build"}

Steps(call) ==
  CASE call = "none" -> {"idle"}
    [] call = "put" ->
         {"put", "put_insert", "put_freeze", "size_cur", "size_frozen"} \cup Flushing
    [] call \in {"commit", "commit_checked"} ->
         {"commit", "commit_cur", "commit_check", "commit_apply"}
    [] call = "flush" -> Flushing
    [] call = "flush_all" -> {"size_cur", "size_frozen"} \cup Flushing
    [] call = "get" -> {"get", "get_cur", "get_frozen", "get_sst"}
    [] call = "clear" -> {"clear", "clear_frozen", "clear_ssts"}

AllSteps ==
  {"idle", "put", "put_insert", "put_freeze", "size_cur", "size_frozen", "flush", "flush_size",
   "flush_lock", "flush_last", "flush_take", "flush_build", "commit", "commit_cur",
   "commit_check", "commit_apply", "get", "get_cur", "get_frozen", "get_sst", "clear",
   "clear_frozen", "clear_ssts"}

TypeInv ==
  /\ workload \in Workloads
  /\ current_table \in Addresses
  /\ frozen_tables \in Seq(Addresses)
  /\ frozen_bytes \in Nat
  /\ content \in [Addresses -> SUBSET Items]
  /\ ssts \subseteq Items
  /\ op \in [Threads -> Calls \cup {"none"}]
  /\ pc \in [Threads -> AllSteps]
  /\ table \in [Threads -> Addresses]
  /\ item \in [Threads -> Items]
  /\ got \in [Threads -> SUBSET Items]
  /\ known \in [Threads -> SUBSET Items]
  /\ issued \subseteq Items /\ acked \subseteq Items

\* A thread is in a call of the workload; in a disciplined one a put flushes only where
\* it may.
CallInv ==
  \A t \in Threads :
    /\ pc[t] \in Steps(op[t])
    /\ op[t] # "none" => t \in DOMAIN workload.ops /\ op[t] \in workload.ops[t]
    /\ Disciplined(workload) /\ op[t] = "put" /\ pc[t] \in Flushing =>
         workload.total_limit <= Cardinality(Items)

\* Who holds which mutex, and how.
Exclusive(m) ==
  CASE m = "cur" -> {"put_insert", "put_freeze", "commit_check", "commit_apply", "clear_frozen"}
    [] m = "frozen" -> {"flush_take", "flush_build", "commit_cur", "commit_check", "commit_apply"}
    [] m = "ssts" -> {"flush_last", "flush_take", "flush_build"}

Shared(m) == IF m = "cur" THEN {"size_frozen", "flush_size", "get_cur"} ELSE {}

LockInv ==
  /\ lock = [m \in Mutexes |-> [x |-> {t \in Threads : pc[t] \in Exclusive(m)},
                                s |-> {t \in Threads : pc[t] \in Shared(m)}]]
  /\ \A m \in Mutexes : \A t, u \in Threads :
       t # u /\ pc[t] \in Exclusive(m) => pc[u] \notin Exclusive(m) \cup Shared(m)

\* The tables are different ones.  A commit uses the active table, and so does a put where
\* no other thread flushes.
TableInv ==
  /\ \A i, j \in DOMAIN frozen_tables : frozen_tables[i] = frozen_tables[j] => i = j
  /\ current_table \notin Range(frozen_tables)
  /\ \A t \in Threads :
       /\ pc[t] \in {"commit_check", "commit_apply"} => table[t] = current_table
       /\ pc[t] = "put_insert" /\ Disciplined(workload) => table[t] = current_table
       /\ pc[t] = "flush_build" => table[t] \notin {current_table} \cup Range(frozen_tables)
       /\ pc[t] = "flush_take" => frozen_tables # << >>

InFrozen(i) == \E a \in Range(frozen_tables) : i \in content[a]
InFlush(i) == \E t \in Threads : pc[t] = "flush_build" /\ i \in content[table[t]]
Elsewhere(i) == InFrozen(i) \/ InFlush(i) \/ i \in ssts

\* What was written is somewhere.
KeptInv == \A i \in acked : i \in content[current_table] \/ Elsewhere(i)

\* A read still finds what it must where it has not looked yet: once the table it reads
\* has been replaced, everything is behind it.
ReaderInv ==
  /\ \A t \in Threads :
       /\ pc[t] = "get" => known[t] \subseteq acked
       /\ pc[t] = "get_cur" =>
            \A i \in known[t] :
              Elsewhere(i) \/ (table[t] = current_table /\ i \in content[current_table])
       /\ pc[t] = "get_frozen" => \A i \in known[t] : i \in got[t] \/ Elsewhere(i)
       /\ pc[t] = "get_sst" => known[t] \subseteq got[t] \cup ssts
  /\ missed = {}

\* Writes that have not reached a table yet, and the items that have.
Writing == {"put", "put_insert", "commit", "commit_cur", "commit_check", "commit_apply"}
Underway == {item[t] : t \in {u \in Threads : pc[u] \in Writing}}
Done == issued \ Underway

ItemInv ==
  /\ Underway \subseteq issued
  /\ \A t, u \in Threads :
       pc[t] \in Writing /\ pc[u] \in Writing /\ item[t] = item[u] => t = u

\* Every frozen table, empty ones too, was frozen by a put of its own, except the one a
\* flush is about to take out.
At(step) == IF \E t \in Threads : pc[t] = step THEN 1 ELSE 0

CountInv ==
  Len(frozen_tables) + At("put_freeze") <= Cardinality(Done) + At("flush_take")

\* In a disciplined workload frozen_bytes counts at least what the frozen tables hold and,
\* with the active table, at most what was ever written.
BytesInv ==
  Disciplined(workload) =>
    /\ frozen_bytes >= Cardinality(FrozenPairs)
    /\ frozen_bytes + Cardinality(content[current_table]) <= Cardinality(Done)

IInv ==
  /\ TypeInv /\ CallInv /\ LockInv /\ TableInv /\ KeptInv /\ ReaderInv /\ ItemInv
  /\ CountInv /\ BytesInv

-----------------------------------------------------------------------------
\* Sets of pairs.

\* {a} \X S has as many elements as S.
LEMMA PairsOfOne ==
  ASSUME NEW a, NEW S, IsFiniteSet(S)
  PROVE  IsFiniteSet({a} \X S) /\ Cardinality({a} \X S) = Cardinality(S)
<1> DEFINE f == [i \in S |-> <<a, i>>]
<1>1. f \in Bijection(S, {a} \X S)
  BY DEF Bijection, Injection, Surjection, IsInjective
<1> QED
  BY <1>1, FS_Bijection DEF ExistsBijection

\* The pairs of the tables in R under contents c.
PairsOf(R, c) == {p \in R \X Items : p[2] \in c[p[1]]}

\* One more table adds its items.
LEMMA PairsAdd ==
  ASSUME NEW R, IsFiniteSet(R), NEW a, a \notin R, NEW c, c[a] \subseteq Items
  PROVE  /\ IsFiniteSet(PairsOf(R, c)) /\ IsFiniteSet(c[a])
         /\ Cardinality(PairsOf(R \cup {a}, c)) = Cardinality(PairsOf(R, c)) + Cardinality(c[a])
<1>1. IsFiniteSet(R \X Items)
  BY FS_Product, MemTableParameters
<1>2. IsFiniteSet(PairsOf(R, c)) /\ IsFiniteSet(c[a])
  BY <1>1, FS_Subset, MemTableParameters DEF PairsOf
<1>3. PairsOf(R \cup {a}, c) = PairsOf(R, c) \cup ({a} \X c[a])
  BY DEF PairsOf
<1>4. PairsOf(R, c) \cap ({a} \X c[a]) = {}
  BY DEF PairsOf
<1>5. IsFiniteSet({a} \X c[a]) /\ Cardinality({a} \X c[a]) = Cardinality(c[a])
  BY <1>2, PairsOfOne
<1> DEFINE P == PairsOf(R, c)
           Q == {a} \X c[a]
<1>7. IsFiniteSet(P) /\ IsFiniteSet(Q) /\ Cardinality(P \cap Q) = 0
  BY <1>2, <1>4, <1>5, FS_EmptySet
<1> HIDE DEF P, Q
<1>8. Cardinality(P \cup Q) = Cardinality(P) + Cardinality(Q) - Cardinality(P \cap Q)
  BY <1>7, FS_Union
<1>9. Cardinality(P) \in Nat /\ Cardinality(Q) \in Nat
  BY <1>7, FS_CardinalityType
<1>10. Cardinality(P \cup Q) = Cardinality(P) + Cardinality(Q)
  BY <1>7, <1>8, <1>9
<1> QED
  BY <1>2, <1>3, <1>5, <1>10 DEF P, Q

-----------------------------------------------------------------------------
\* Locks.

\* The mutexes and their holders, spelled out.
LEMMA WhoLocks ==
  /\ Exclusive("cur") = {"put_insert", "put_freeze", "commit_check", "commit_apply", "clear_frozen"}
  /\ Exclusive("frozen") =
       {"flush_take", "flush_build", "commit_cur", "commit_check", "commit_apply"}
  /\ Exclusive("ssts") = {"flush_last", "flush_take", "flush_build"}
  /\ Shared("cur") = {"size_frozen", "flush_size", "get_cur"}
  /\ Shared("frozen") = {} /\ Shared("ssts") = {}
BY DEF Exclusive, Shared

\* A mutex that can be taken is held by nobody.
LEMMA FreeMutexes ==
  ASSUME LockInv, NEW m \in Mutexes
  PROVE  /\ CanLock(m) => \A t \in Threads : pc[t] \notin Exclusive(m) \cup Shared(m)
         /\ CanShare(m) => \A t \in Threads : pc[t] \notin Exclusive(m)
BY DEF LockInv, CanLock, CanShare

\* Whether t holds the mutexes of a set the same way at pc as at q.
SameHold(p, q, ms) ==
  \A m \in ms : (p \in Exclusive(m) <=> q \in Exclusive(m)) /\ (p \in Shared(m) <=> q \in Shared(m))

\* From p to q a thread gives up the mutexes ms and no other.
Releases(p, q, ms) ==
  /\ ms \subseteq Mutexes
  /\ SameHold(p, q, Mutexes \ ms)
  /\ \A m \in ms : q \notin Exclusive(m) \cup Shared(m)

\* A step that changes what no mutex depends on keeps the lock invariant.
LEMMA LockKept ==
  ASSUME LockInv, pc \in [Threads -> AllSteps], NEW t \in Threads, NEW q,
         pc' = [pc EXCEPT ![t] = q], lock' = lock, SameHold(pc[t], q, Mutexes)
  PROVE  LockInv'
BY DEF LockInv, SameHold

\* A step that takes a free mutex exclusively keeps it too,
LEMMA LockTaken ==
  ASSUME LockInv, pc \in [Threads -> AllSteps], NEW t \in Threads, NEW q,
         NEW m \in Mutexes, CanLock(m),
         pc' = [pc EXCEPT ![t] = q], lock' = Lock(m, t), SameHold(pc[t], q, Mutexes \ {m}),
         q \in Exclusive(m), q \notin Shared(m)
  PROVE  LockInv'
<1>1. \A u \in Threads : pc[u] \notin Exclusive(m) \cup Shared(m)
  BY FreeMutexes
<1>2. ASSUME NEW k \in Mutexes
      PROVE  lock'[k] = [x |-> {u \in Threads : pc'[u] \in Exclusive(k)},
                         s |-> {u \in Threads : pc'[u] \in Shared(k)}]
  <2>1. CASE k = m
    <3>1. {u \in Threads : pc'[u] \in Exclusive(m)} = {t}
      BY <1>1
    <3>2. {u \in Threads : pc'[u] \in Shared(m)} = {}
      BY <1>1
    <3>3. lock'[m] = [x |-> {t}, s |-> {}]
      BY <1>1 DEF LockInv, Lock
    <3> QED
      BY <2>1, <3>1, <3>2, <3>3
  <2>2. CASE k # m
    BY <2>2 DEF LockInv, Lock, SameHold
  <2> QED
    BY <2>1, <2>2
<1>3. DOMAIN lock' = Mutexes
  BY DEF LockInv, Lock
<1>4. lock' = [k \in Mutexes |-> lock'[k]]
  BY <1>3 DEF LockInv, Lock
<1>5. \A k \in Mutexes : \A u, v \in Threads :
        u # v /\ pc'[u] \in Exclusive(k) => pc'[v] \notin Exclusive(k) \cup Shared(k)
  <2> SUFFICES ASSUME NEW k \in Mutexes, NEW u \in Threads, NEW v \in Threads, u # v,
                      pc'[u] \in Exclusive(k)
               PROVE  pc'[v] \notin Exclusive(k) \cup Shared(k)
    OBVIOUS
  <2>1. CASE k = m
    BY <1>1, <2>1
  <2>2. CASE k # m
    BY <2>2 DEF LockInv, SameHold
  <2> QED
    BY <2>1, <2>2
<1> QED
  BY <1>2, <1>4, <1>5 DEF LockInv

\* and so does one that shares a mutex,
LEMMA LockShared ==
  ASSUME LockInv, pc \in [Threads -> AllSteps], NEW t \in Threads, NEW q,
         NEW m \in Mutexes, CanShare(m),
         pc' = [pc EXCEPT ![t] = q], lock' = Share(m, t), SameHold(pc[t], q, Mutexes \ {m}),
         q \in Shared(m), q \notin Exclusive(m)
  PROVE  LockInv'
<1>1. \A u \in Threads : pc[u] \notin Exclusive(m)
  BY FreeMutexes
<1>2. ASSUME NEW k \in Mutexes
      PROVE  lock'[k] = [x |-> {u \in Threads : pc'[u] \in Exclusive(k)},
                         s |-> {u \in Threads : pc'[u] \in Shared(k)}]
  <2>1. CASE k = m
    <3>1. {u \in Threads : pc'[u] \in Exclusive(m)} = {u \in Threads : pc[u] \in Exclusive(m)}
      BY <1>1
    <3>2. {u \in Threads : pc'[u] \in Shared(m)} = {u \in Threads : pc[u] \in Shared(m)} \cup {t}
      OBVIOUS
    <3>3. lock'[m] = [x |-> {u \in Threads : pc[u] \in Exclusive(m)},
                      s |-> {u \in Threads : pc[u] \in Shared(m)} \cup {t}]
      BY DEF LockInv, Share
    <3> QED
      BY <2>1, <3>1, <3>2, <3>3
  <2>2. CASE k # m
    BY <2>2 DEF LockInv, Share, SameHold
  <2> QED
    BY <2>1, <2>2
<1>3. lock' = [k \in Mutexes |-> lock'[k]]
  BY DEF LockInv, Share
<1>4. \A k \in Mutexes : \A u, v \in Threads :
        u # v /\ pc'[u] \in Exclusive(k) => pc'[v] \notin Exclusive(k) \cup Shared(k)
  <2> SUFFICES ASSUME NEW k \in Mutexes, NEW u \in Threads, NEW v \in Threads, u # v,
                      pc'[u] \in Exclusive(k)
               PROVE  pc'[v] \notin Exclusive(k) \cup Shared(k)
    OBVIOUS
  <2>1. CASE k = m
    BY <1>1, <2>1
  <2>2. CASE k # m
    BY <2>2 DEF LockInv, SameHold
  <2> QED
    BY <2>1, <2>2
<1> QED
  BY <1>2, <1>3, <1>4 DEF LockInv

\* and one that gives mutexes up.
LEMMA LockReleased ==
  ASSUME LockInv, pc \in [Threads -> AllSteps], NEW t \in Threads, NEW q,
         NEW ms, pc' = [pc EXCEPT ![t] = q], lock' = Unlock(ms, t), Releases(pc[t], q, ms)
  PROVE  LockInv'
<1>0. SameHold(pc[t], q, Mutexes \ ms) /\ \A m \in ms : q \notin Exclusive(m) \cup Shared(m)
  BY DEF Releases
<1>1. ASSUME NEW k \in Mutexes
      PROVE  lock'[k] = [x |-> {u \in Threads : pc'[u] \in Exclusive(k)},
                         s |-> {u \in Threads : pc'[u] \in Shared(k)}]
  <2>1. CASE k \in ms
    <3>1. {u \in Threads : pc'[u] \in Exclusive(k)} = {u \in Threads : pc[u] \in Exclusive(k)} \ {t}
      BY <1>0, <2>1
    <3>2. {u \in Threads : pc'[u] \in Shared(k)} = {u \in Threads : pc[u] \in Shared(k)} \ {t}
      BY <1>0, <2>1
    <3>3. lock'[k] = [x |-> {u \in Threads : pc[u] \in Exclusive(k)} \ {t},
                      s |-> {u \in Threads : pc[u] \in Shared(k)} \ {t}]
      BY <2>1 DEF LockInv, Unlock
    <3> QED
      BY <3>1, <3>2, <3>3
  <2>2. CASE k \notin ms
    BY <1>0, <2>2 DEF LockInv, Unlock, SameHold
  <2> QED
    BY <2>1, <2>2
<1>2. lock' = [k \in Mutexes |-> lock'[k]]
  BY DEF Unlock
<1>3. \A k \in Mutexes : \A u, v \in Threads :
        u # v /\ pc'[u] \in Exclusive(k) => pc'[v] \notin Exclusive(k) \cup Shared(k)
  <2> SUFFICES ASSUME NEW k \in Mutexes, NEW u \in Threads, NEW v \in Threads, u # v,
                      pc'[u] \in Exclusive(k)
               PROVE  pc'[v] \notin Exclusive(k) \cup Shared(k)
    OBVIOUS
  <2>1. CASE k \in ms
    BY <1>0, <2>1 DEF LockInv
  <2>2. CASE k \notin ms
    BY <1>0, <2>2 DEF LockInv, SameHold
  <2> QED
    BY <2>1, <2>2
<1> QED
  BY <1>1, <1>2, <1>3 DEF LockInv

-----------------------------------------------------------------------------
\* Calls.

\* A thread's steps, call by call.
LEMMA StepsOf ==
  /\ Steps("none") = {"idle"}
  /\ Steps("put") = {"put", "put_insert", "put_freeze", "size_cur", "size_frozen"} \cup Flushing
  /\ Steps("commit") = {"commit", "commit_cur", "commit_check", "commit_apply"}
  /\ Steps("commit_checked") = {"commit", "commit_cur", "commit_check", "commit_apply"}
  /\ Steps("flush") = Flushing
  /\ Steps("flush_all") = {"size_cur", "size_frozen"} \cup Flushing
  /\ Steps("get") = {"get", "get_cur", "get_frozen", "get_sst"}
  /\ Steps("clear") = {"clear", "clear_frozen", "clear_ssts"}
BY DEF Steps

\* In a disciplined workload nobody puts beside a flush of another thread.
LEMMA FlushAlone ==
  Disciplined(workload) /\ TypeInv /\ CallInv =>
    \A t, u \in Threads : t # u /\ pc[t] \in Flushing => pc[u] # "put_insert"
<1> SUFFICES ASSUME Disciplined(workload), TypeInv, CallInv, NEW t \in Threads, NEW u \in Threads,
                    t # u, pc[t] \in Flushing, pc[u] = "put_insert"
             PROVE  FALSE
  OBVIOUS
<1>1. op[t] \in Calls \cup {"none"} /\ op[u] \in Calls \cup {"none"}
  BY DEF TypeInv
<1>2. op[t] \in {"put", "flush", "flush_all"}
  BY <1>1, StepsOf DEF CallInv, Calls, Flushing
<1>3. op[u] = "put"
  BY <1>1, StepsOf DEF CallInv, Calls, Flushing
<1>4. /\ t \in DOMAIN workload.ops /\ op[t] \in workload.ops[t]
      /\ u \in DOMAIN workload.ops /\ op[u] \in workload.ops[u]
  BY <1>2, <1>3 DEF CallInv
<1>5. op[t] = "put" => workload.total_limit <= Cardinality(Items)
  BY DEF CallInv
<1>6. t \in Flushers(workload)
  BY <1>2, <1>4, <1>5 DEF Flushers
<1> QED
  BY <1>3, <1>4, <1>6 DEF Disciplined

\* A thread goes on inside its call, or returns.
LEMMA CallGoesOn ==
  ASSUME TypeInv, CallInv, NEW t \in Threads, NEW q, Goto(t, q), workload' = workload,
         q \in Steps(op[t]),
         Disciplined(workload) /\ op[t] = "put" /\ q \in Flushing =>
           workload.total_limit <= Cardinality(Items)
  PROVE  CallInv'
BY DEF TypeInv, CallInv, Goto

\* A thread that returns is in no call.
LEMMA CallReturns ==
  ASSUME TypeInv, CallInv, NEW t \in Threads, Return(t), workload' = workload
  PROVE  CallInv'
BY StepsOf DEF TypeInv, CallInv, Return, Flushing

\* What is done are items,
LEMMA DoneIsFinite ==
  ASSUME TypeInv
  PROVE  /\ IsFiniteSet(Done) /\ Cardinality(Done) \in Nat
         /\ Cardinality(Done) <= Cardinality(Items) /\ Cardinality(Items) \in Nat
<1>1. Done \subseteq Items
  BY DEF TypeInv, Done
<1> QED
  BY <1>1, FS_Subset, FS_CardinalityType, MemTableParameters

\* and the total size a call compares with its limit is at most that of all items.
LEMMA TotalIsBounded ==
  ASSUME TypeInv, BytesInv, Disciplined(workload)
  PROVE  /\ frozen_bytes + Cardinality(content[current_table]) <= Cardinality(Items)
         /\ frozen_bytes \in Nat /\ Cardinality(content[current_table]) \in Nat
         /\ Cardinality(Items) \in Nat /\ Cardinality(Done) \in Nat
<1>1. content[current_table] \in SUBSET Items
  BY DEF TypeInv
<1>2. Cardinality(content[current_table]) \in Nat
  BY <1>1, FS_Subset, FS_CardinalityType, MemTableParameters
<1>3. frozen_bytes \in Nat
  BY DEF TypeInv
<1>4. frozen_bytes + Cardinality(content[current_table]) <= Cardinality(Done)
  BY DEF BytesInv
<1> QED
  BY <1>2, <1>3, <1>4, DoneIsFinite

\* Each step keeps threads inside their calls and the mutexes with their holders.
LEMMA ControlStep == IInv /\ Next => CallInv' /\ LockInv'
<1> SUFFICES ASSUME IInv, Next
             PROVE  CallInv' /\ LockInv'
  OBVIOUS
<1>a. TypeInv /\ CallInv /\ LockInv /\ BytesInv /\ pc \in [Threads -> AllSteps]
  BY DEF IInv, TypeInv
<1>b. Mutexes = {"cur", "frozen", "ssts"}
  BY DEF Mutexes
<1>c. \A t \in Threads : pc[t] \in Steps(op[t]) /\ op[t] \in Calls \cup {"none"}
  BY <1>a DEF CallInv, TypeInv
<1>1. ASSUME NEW t \in Threads, Start(t)
      PROVE  CallInv' /\ LockInv'
  <2>1. PICK call \in workload.ops[t] :
          /\ op' = [op EXCEPT ![t] = call]
          /\ pc' = [pc EXCEPT ![t] = FirstStep(call)]
    BY <1>1 DEF Start
  <2>2. /\ t \in DOMAIN workload.ops /\ pc[t] = "idle" /\ lock' = lock /\ workload' = workload
        /\ call \in Calls
    BY <1>1, <1>a, MemTableParameters DEF Start, TypeInv
  <2>3. FirstStep(call) \in Steps(call) /\ (call = "put" => FirstStep(call) = "put")
    BY <2>2, StepsOf DEF FirstStep, Calls, Flushing
  <2>4. FirstStep(call) \in {"put", "commit", "size_cur", "flush", "get", "clear"}
    BY <2>2 DEF FirstStep, Calls
  <2>5. CallInv'
    BY <1>a, <2>1, <2>2, <2>3 DEF CallInv, TypeInv, Flushing
  <2>6. SameHold(pc[t], FirstStep(call), Mutexes)
    BY <1>b, <2>2, <2>4, WhoLocks DEF SameHold
  <2>7. LockInv'
    BY <1>a, <2>1, <2>2, <2>6, LockKept
  <2> QED
    BY <2>5, <2>7
<1>2. ASSUME NEW t \in Threads, workload' = workload, PutLock(t)
      PROVE  CallInv' /\ LockInv'
  <2>1. op[t] = "put" /\ pc[t] = "put" /\ Goto(t, "put_insert")
    BY <1>2, <1>c, StepsOf DEF PutLock, Calls, Flushing
  <2>2. CallInv'
    BY <1>2, <1>a, <2>1, StepsOf, CallGoesOn DEF Flushing
  <2>3. SameHold(pc[t], "put_insert", Mutexes \ {"cur"})
    BY <1>b, <2>1, WhoLocks DEF SameHold
  <2>4. LockInv'
    BY <1>2, <1>a, <1>b, <2>1, <2>3, WhoLocks, LockTaken DEF PutLock, Goto
  <2> QED
    BY <2>2, <2>4
<1>3. ASSUME NEW t \in Threads, workload' = workload, PutInsert(t)
      PROVE  CallInv' /\ LockInv'
  <2>1. op[t] = "put" /\ pc[t] = "put_insert"
    BY <1>3, <1>c, StepsOf DEF PutInsert, Calls, Flushing
  <2>2. CASE Goto(t, "put_freeze") /\ lock' = lock
    <3>1. CallInv'
      BY <1>3, <1>a, <2>1, <2>2, StepsOf, CallGoesOn DEF Flushing
    <3>2. SameHold(pc[t], "put_freeze", Mutexes)
      BY <1>b, <2>1, WhoLocks DEF SameHold
    <3>3. LockInv'
      BY <1>a, <2>2, <3>2, LockKept DEF Goto
    <3> QED
      BY <3>1, <3>3
  <2>3. CASE Goto(t, "size_cur") /\ lock' = Unlock({"cur"}, t)
    <3>1. CallInv'
      BY <1>3, <1>a, <2>1, <2>3, StepsOf, CallGoesOn DEF Flushing
    <3>2. Releases(pc[t], "size_cur", {"cur"})
      BY <1>b, <2>1, WhoLocks DEF Releases, SameHold
    <3>3. LockInv'
      BY <1>a, <2>3, <3>2, LockReleased DEF Goto
    <3> QED
      BY <3>1, <3>3
  <2> QED
    BY <1>3, <2>2, <2>3 DEF PutInsert
<1>4. ASSUME NEW t \in Threads, workload' = workload, PutFreeze(t)
      PROVE  CallInv' /\ LockInv'
  <2>1. op[t] = "put" /\ pc[t] = "put_freeze" /\ Goto(t, "size_cur") /\ lock' = Unlock({"cur"}, t)
    BY <1>4, <1>c, StepsOf DEF PutFreeze, Calls, Flushing
  <2>2. CallInv'
    BY <1>4, <1>a, <2>1, StepsOf, CallGoesOn DEF Flushing
  <2>3. Releases(pc[t], "size_cur", {"cur"})
    BY <1>b, <2>1, WhoLocks DEF Releases, SameHold
  <2>4. LockInv'
    BY <1>a, <2>1, <2>3, LockReleased DEF Goto
  <2> QED
    BY <2>2, <2>4
<1>5. ASSUME NEW t \in Threads, workload' = workload, SizeCur(t)
      PROVE  CallInv' /\ LockInv'
  <2>1. PICK q \in {"size_frozen", "flush_size"} :
          /\ Goto(t, q) /\ pc[t] = IF q = "size_frozen" THEN "size_cur" ELSE "flush"
    BY <1>5 DEF SizeCur
  <2>2. /\ op[t] \in {"put", "flush", "flush_all"} /\ q \in Steps(op[t])
        /\ CanShare("cur") /\ lock' = Share("cur", t)
    BY <1>5, <1>c, <2>1, StepsOf DEF SizeCur, Calls, Flushing
  <2>3. CallInv'
    BY <1>5, <1>a, <2>1, <2>2, CallGoesOn DEF Flushing, CallInv
  <2>4. SameHold(pc[t], q, Mutexes \ {"cur"})
    BY <1>b, <2>1, WhoLocks DEF SameHold
  <2>5. q \in Shared("cur") /\ q \notin Exclusive("cur")
    BY WhoLocks
  <2>6. LockInv'
    BY <1>a, <1>b, <2>1, <2>2, <2>4, <2>5, LockShared DEF Goto
  <2> QED
    BY <2>3, <2>6
<1>6. ASSUME NEW t \in Threads, workload' = workload, SizeFrozen(t)
      PROVE  CallInv' /\ LockInv'
  <2>1. /\ op[t] \in {"put", "flush_all"} /\ pc[t] = "size_frozen"
        /\ lock' = Unlock({"cur"}, t)
    BY <1>6, <1>c, StepsOf DEF SizeFrozen, Calls, Flushing
  <2>2. CASE FlushWanted(t) /\ Goto(t, "flush")
    <3>1. Disciplined(workload) /\ op[t] = "put" => workload.total_limit <= Cardinality(Items)
      <4> SUFFICES ASSUME Disciplined(workload), op[t] = "put"
                   PROVE  workload.total_limit <= Cardinality(Items)
        OBVIOUS
      <4> DEFINE k == frozen_bytes + Cardinality(content[current_table])
      <4>1. k % Word >= workload.total_limit
        BY <2>2 DEF FlushWanted, TotalSize
      <4>2. workload.total_limit \in Nat
        BY <1>a, MemTableParameters DEF TypeInv
      <4>3. k <= Cardinality(Items) /\ k \in Nat /\ Cardinality(Items) \in Nat
        BY <1>a, TotalIsBounded
      <4>4. Word \in Nat /\ Word > Cardinality(Items)
        BY MemTableParameters
      <4> HIDE DEF k
      <4> QED
        BY <4>1, <4>2, <4>3, <4>4
    <3>2. CallInv'
      BY <1>6, <1>a, <2>1, <2>2, <3>1, StepsOf, CallGoesOn DEF Flushing
    <3>3. Releases(pc[t], "flush", {"cur"})
      BY <1>b, <2>1, WhoLocks DEF Releases, SameHold
    <3>4. LockInv'
      BY <1>a, <2>1, <2>2, <3>3, LockReleased DEF Goto
    <3> QED
      BY <3>2, <3>4
  <2>3. CASE Return(t)
    <3>1. Releases(pc[t], "idle", {"cur"})
      BY <1>b, <2>1, WhoLocks DEF Releases, SameHold
    <3>2. LockInv'
      BY <1>a, <2>1, <2>3, <3>1, LockReleased DEF Return
    <3> QED
      BY <1>6, <1>a, <2>3, <3>2, CallReturns
  <2> QED
    BY <1>6, <2>2, <2>3 DEF SizeFrozen
<1>d. \A t \in Threads : pc[t] \in Flushing =>
        /\ op[t] \in {"put", "flush", "flush_all"} /\ Flushing \subseteq Steps(op[t])
        /\ op[t] = "flush_all" => "size_cur" \in Steps(op[t])
        /\ Disciplined(workload) /\ op[t] = "put" => workload.total_limit <= Cardinality(Items)
  <2> SUFFICES ASSUME NEW t \in Threads, pc[t] \in Flushing
               PROVE  /\ op[t] \in {"put", "flush", "flush_all"} /\ Flushing \subseteq Steps(op[t])
                      /\ op[t] = "flush_all" => "size_cur" \in Steps(op[t])
                      /\ Disciplined(workload) /\ op[t] = "put" =>
                           workload.total_limit <= Cardinality(Items)
    OBVIOUS
  <2>1. op[t] \in {"put", "flush", "flush_all"}
    BY <1>c, StepsOf DEF Calls, Flushing
  <2> QED
    BY <1>a, <2>1, StepsOf DEF CallInv
<1>7. ASSUME NEW t \in Threads, workload' = workload, FlushLock(t)
      PROVE  CallInv' /\ LockInv'
  <2>1. /\ pc[t] = "flush_lock" /\ Goto(t, "flush_last")
        /\ CanLock("ssts") /\ lock' = Lock("ssts", t)
    BY <1>7 DEF FlushLock
  <2>2. CallInv'
    BY <1>7, <1>a, <1>d, <2>1, CallGoesOn DEF Flushing
  <2>3. SameHold(pc[t], "flush_last", Mutexes \ {"ssts"})
    BY <1>b, <2>1, WhoLocks DEF SameHold
  <2>4. LockInv'
    BY <1>a, <1>b, <2>1, <2>3, WhoLocks, LockTaken DEF Goto
  <2> QED
    BY <2>2, <2>4
<1>8. ASSUME NEW t \in Threads, workload' = workload, NEW p \in Flushing, NEW ms,
             pc[t] = p, lock' = Unlock(ms, t), Goto(t, "size_cur") \/ Return(t),
             Goto(t, "size_cur") => op[t] = "flush_all",
             Releases(p, "size_cur", ms), Releases(p, "idle", ms)
      PROVE  CallInv' /\ LockInv'
  <2>1. CASE op[t] = "flush_all" /\ Goto(t, "size_cur")
    <3>1. CallInv'
      BY <1>8, <1>a, <1>d, <2>1, CallGoesOn
    <3>2. LockInv'
      BY <1>8, <1>a, <2>1, LockReleased DEF Goto
    <3> QED
      BY <3>1, <3>2
  <2>2. CASE Return(t)
    <3>1. LockInv'
      BY <1>8, <1>a, <2>2, LockReleased DEF Return
    <3> QED
      BY <1>8, <1>a, <2>2, <3>1, CallReturns
  <2> QED
    BY <1>8, <2>1, <2>2
<1>9. ASSUME NEW t \in Threads, workload' = workload, FlushSize(t)
      PROVE  CallInv' /\ LockInv'
  <2>1. pc[t] = "flush_size" /\ lock' = Unlock({"cur"}, t)
    BY <1>9 DEF FlushSize
  <2>2. CASE FlushReturns(t)
    <3>1. Releases("flush_size", "size_cur", {"cur"}) /\ Releases("flush_size", "idle", {"cur"})
      BY <1>b, WhoLocks DEF Releases, SameHold
    <3>2. /\ Goto(t, "size_cur") \/ Return(t)
          /\ Goto(t, "size_cur") => op[t] = "flush_all"
      BY <1>a, <2>2 DEF FlushReturns, Goto, Return, TypeInv
    <3> QED
      BY <1>8, <1>9, <2>1, <3>1, <3>2 DEF Flushing
  <2>3. CASE Goto(t, "flush_lock")
    <3>1. CallInv'
      BY <1>9, <1>a, <1>d, <2>1, <2>3, CallGoesOn DEF Flushing
    <3>2. Releases(pc[t], "flush_lock", {"cur"})
      BY <1>b, <2>1, WhoLocks DEF Releases, SameHold
    <3>3. LockInv'
      BY <1>a, <2>1, <2>3, <3>2, LockReleased DEF Goto
    <3> QED
      BY <3>1, <3>3
  <2> QED
    BY <1>9, <2>2, <2>3 DEF FlushSize
<1>10. ASSUME NEW t \in Threads, workload' = workload, FlushNothing(t)
       PROVE  CallInv' /\ LockInv'
  <2>1. pc[t] = "flush_last" /\ lock' = Unlock({"ssts"}, t) /\ FlushReturns(t)
    BY <1>10 DEF FlushNothing
  <2>2. Releases("flush_last", "size_cur", {"ssts"}) /\ Releases("flush_last", "idle", {"ssts"})
    BY <1>b, WhoLocks DEF Releases, SameHold
  <2>3. /\ Goto(t, "size_cur") \/ Return(t)
        /\ Goto(t, "size_cur") => op[t] = "flush_all"
    BY <1>a, <2>1 DEF FlushReturns, Goto, Return, TypeInv
  <2> QED
    BY <1>8, <1>10, <2>1, <2>2, <2>3 DEF Flushing
<1>11. ASSUME NEW t \in Threads, workload' = workload, FlushFreeze(t)
       PROVE  CallInv' /\ LockInv'
  <2>1. /\ pc[t] = "flush_last" /\ Goto(t, "flush_take")
        /\ CanLock("frozen") /\ lock' = Lock("frozen", t)
    BY <1>11 DEF FlushFreeze
  <2>2. CallInv'
    BY <1>11, <1>a, <1>d, <2>1, CallGoesOn DEF Flushing
  <2>3. SameHold(pc[t], "flush_take", Mutexes \ {"frozen"})
    BY <1>b, <2>1, WhoLocks DEF SameHold
  <2>4. LockInv'
    BY <1>a, <1>b, <2>1, <2>3, WhoLocks, LockTaken DEF Goto
  <2> QED
    BY <2>2, <2>4
<1>12. ASSUME NEW t \in Threads, workload' = workload, FlushTake(t)
       PROVE  CallInv' /\ LockInv'
  <2>1. pc[t] = "flush_take" /\ Goto(t, "flush_build") /\ lock' = lock
    BY <1>12 DEF FlushTake
  <2>2. CallInv'
    BY <1>12, <1>a, <1>d, <2>1, CallGoesOn DEF Flushing
  <2>3. SameHold(pc[t], "flush_build", Mutexes)
    BY <1>b, <2>1, WhoLocks DEF SameHold
  <2>4. LockInv'
    BY <1>a, <2>1, <2>3, LockKept DEF Goto
  <2> QED
    BY <2>2, <2>4
<1>13. ASSUME NEW t \in Threads, workload' = workload, FlushBuild(t)
       PROVE  CallInv' /\ LockInv'
  <2>1. /\ pc[t] = "flush_build" /\ lock' = Unlock({"frozen", "ssts"}, t)
        /\ Return(t) \/ FlushReturns(t)
    BY <1>13 DEF FlushBuild
  <2>2. /\ Releases("flush_build", "size_cur", {"frozen", "ssts"})
        /\ Releases("flush_build", "idle", {"frozen", "ssts"})
    BY <1>b, WhoLocks DEF Releases, SameHold
  <2>3. /\ Goto(t, "size_cur") \/ Return(t)
        /\ Goto(t, "size_cur") => op[t] = "flush_all"
    BY <1>a, <2>1 DEF FlushReturns, Goto, Return, TypeInv
  <2> QED
    BY <1>8, <1>13, <2>1, <2>2, <2>3 DEF Flushing
<1>14. ASSUME NEW t \in Threads, workload' = workload, CommitLockFrozen(t)
       PROVE  CallInv' /\ LockInv'
  <2>1. /\ op[t] \in {"commit", "commit_checked"} /\ pc[t] = "commit" /\ Goto(t, "commit_cur")
        /\ CanLock("frozen") /\ lock' = Lock("frozen", t)
    BY <1>14, <1>c, StepsOf DEF CommitLockFrozen, Calls, Flushing
  <2>2. CallInv'
    BY <1>14, <1>a, <2>1, StepsOf, CallGoesOn
  <2>3. SameHold(pc[t], "commit_cur", Mutexes \ {"frozen"})
    BY <1>b, <2>1, WhoLocks DEF SameHold
  <2>4. LockInv'
    BY <1>a, <1>b, <2>1, <2>3, WhoLocks, LockTaken DEF Goto
  <2> QED
    BY <2>2, <2>4
<1>15. ASSUME NEW t \in Threads, workload' = workload, CommitLockCur(t)
       PROVE  CallInv' /\ LockInv'
  <2>1. PICK q \in {"commit_check", "commit_apply"} : Goto(t, q)
    BY <1>15 DEF CommitLockCur
  <2>2. /\ op[t] \in {"commit", "commit_checked"} /\ pc[t] = "commit_cur"
        /\ CanLock("cur") /\ lock' = Lock("cur", t)
    BY <1>15, <1>c, StepsOf DEF CommitLockCur, Calls, Flushing
  <2>3. CallInv'
    BY <1>15, <1>a, <2>1, <2>2, StepsOf, CallGoesOn
  <2>4. SameHold(pc[t], q, Mutexes \ {"cur"})
    BY <1>b, <2>1, <2>2, WhoLocks DEF SameHold
  <2>5. q \in Exclusive("cur") /\ q \notin Shared("cur")
    BY WhoLocks
  <2>6. LockInv'
    BY <1>a, <1>b, <2>1, <2>2, <2>4, <2>5, LockTaken DEF Goto
  <2> QED
    BY <2>3, <2>6
<1>16. ASSUME NEW t \in Threads, workload' = workload, CommitCheck(t)
       PROVE  CallInv' /\ LockInv'
  <2>1. /\ op[t] \in {"commit", "commit_checked"} /\ pc[t] = "commit_check"
        /\ Goto(t, "commit_apply") /\ lock' = lock
    BY <1>16, <1>c, StepsOf DEF CommitCheck, Calls, Flushing
  <2>2. CallInv'
    BY <1>16, <1>a, <2>1, StepsOf, CallGoesOn
  <2>3. SameHold(pc[t], "commit_apply", Mutexes)
    BY <1>b, <2>1, WhoLocks DEF SameHold
  <2>4. LockInv'
    BY <1>a, <2>1, <2>3, LockKept DEF Goto
  <2> QED
    BY <2>2, <2>4
<1>17. ASSUME NEW t \in Threads, workload' = workload, CommitApply(t)
       PROVE  CallInv' /\ LockInv'
  <2>1. pc[t] = "commit_apply" /\ Return(t) /\ lock' = Unlock({"cur", "frozen"}, t)
    BY <1>17 DEF CommitApply
  <2>2. Releases(pc[t], "idle", {"cur", "frozen"})
    BY <1>b, <2>1, WhoLocks DEF Releases, SameHold
  <2>3. LockInv'
    BY <1>a, <2>1, <2>2, LockReleased DEF Return
  <2> QED
    BY <1>17, <1>a, <2>1, <2>3, CallReturns
<1>18. ASSUME NEW t \in Threads, workload' = workload, GetLockCur(t)
       PROVE  CallInv' /\ LockInv'
  <2>1. /\ op[t] = "get" /\ pc[t] = "get" /\ Goto(t, "get_cur")
        /\ CanShare("cur") /\ lock' = Share("cur", t)
    BY <1>18, <1>c, StepsOf DEF GetLockCur, Calls, Flushing
  <2>2. CallInv'
    BY <1>18, <1>a, <2>1, StepsOf, CallGoesOn
  <2>3. SameHold(pc[t], "get_cur", Mutexes \ {"cur"})
    BY <1>b, <2>1, WhoLocks DEF SameHold
  <2>4. LockInv'
    BY <1>a, <1>b, <2>1, <2>3, WhoLocks, LockShared DEF Goto
  <2> QED
    BY <2>2, <2>4
<1>19. ASSUME NEW t \in Threads, workload' = workload, GetCur(t)
       PROVE  CallInv' /\ LockInv'
  <2>1. op[t] = "get" /\ pc[t] = "get_cur" /\ lock' = Unlock({"cur"}, t)
    BY <1>19, <1>c, StepsOf DEF GetCur, Calls, Flushing
  <2>2. CASE Goto(t, "get_frozen")
    <3>1. CallInv'
      BY <1>19, <1>a, <2>1, <2>2, StepsOf, CallGoesOn
    <3>2. Releases(pc[t], "get_frozen", {"cur"})
      BY <1>b, <2>1, WhoLocks DEF Releases, SameHold
    <3>3. LockInv'
      BY <1>a, <2>1, <2>2, <3>2, LockReleased DEF Goto
    <3> QED
      BY <3>1, <3>3
  <2>3. CASE Return(t)
    <3>1. Releases(pc[t], "idle", {"cur"})
      BY <1>b, <2>1, WhoLocks DEF Releases, SameHold
    <3>2. LockInv'
      BY <1>a, <2>1, <2>3, <3>1, LockReleased DEF Return
    <3> QED
      BY <1>19, <1>a, <2>3, <3>2, CallReturns
  <2> QED
    BY <1>19, <2>2, <2>3 DEF GetCur, GetReturns
<1>20. ASSUME NEW t \in Threads, workload' = workload, GetFrozen(t)
       PROVE  CallInv' /\ LockInv'
  <2>1. op[t] = "get" /\ pc[t] = "get_frozen" /\ Goto(t, "get_sst") /\ lock' = lock
    BY <1>20, <1>c, StepsOf DEF GetFrozen, Calls, Flushing
  <2>2. CallInv'
    BY <1>20, <1>a, <2>1, StepsOf, CallGoesOn
  <2>3. SameHold(pc[t], "get_sst", Mutexes)
    BY <1>b, <2>1, WhoLocks DEF SameHold
  <2>4. LockInv'
    BY <1>a, <2>1, <2>3, LockKept DEF Goto
  <2> QED
    BY <2>2, <2>4
<1>21. ASSUME NEW t \in Threads, workload' = workload, GetSst(t) \/ ClearSsts(t)
       PROVE  CallInv' /\ LockInv'
  <2>1. pc[t] \in {"get_sst", "clear_ssts"} /\ Return(t) /\ lock' = lock
    BY <1>21 DEF GetSst, GetReturns, ClearSsts
  <2>2. SameHold(pc[t], "idle", Mutexes)
    BY <1>b, <2>1, WhoLocks DEF SameHold
  <2>3. LockInv'
    BY <1>a, <2>1, <2>2, LockKept DEF Return
  <2> QED
    BY <1>21, <1>a, <2>1, <2>3, CallReturns
<1>22. ASSUME NEW t \in Threads, workload' = workload, ClearLockCur(t)
       PROVE  CallInv' /\ LockInv'
  <2>1. /\ op[t] = "clear" /\ pc[t] = "clear" /\ Goto(t, "clear_frozen")
        /\ CanLock("cur") /\ lock' = Lock("cur", t)
    BY <1>22, <1>c, StepsOf DEF ClearLockCur, Calls, Flushing
  <2>2. CallInv'
    BY <1>22, <1>a, <2>1, StepsOf, CallGoesOn
  <2>3. SameHold(pc[t], "clear_frozen", Mutexes \ {"cur"})
    BY <1>b, <2>1, WhoLocks DEF SameHold
  <2>4. LockInv'
    BY <1>a, <1>b, <2>1, <2>3, WhoLocks, LockTaken DEF Goto
  <2> QED
    BY <2>2, <2>4
<1>23. ASSUME NEW t \in Threads, workload' = workload, ClearTables(t)
       PROVE  CallInv' /\ LockInv'
  <2>1. /\ op[t] = "clear" /\ pc[t] = "clear_frozen" /\ Goto(t, "clear_ssts")
        /\ lock' = Unlock({"cur"}, t)
    BY <1>23, <1>c, StepsOf DEF ClearTables, Calls, Flushing
  <2>2. CallInv'
    BY <1>23, <1>a, <2>1, StepsOf, CallGoesOn
  <2>3. Releases(pc[t], "clear_ssts", {"cur"})
    BY <1>b, <2>1, WhoLocks DEF Releases, SameHold
  <2>4. LockInv'
    BY <1>a, <2>1, <2>3, LockReleased DEF Goto
  <2> QED
    BY <2>2, <2>4
<1> QED
  BY <1>1, <1>2, <1>3, <1>4, <1>5, <1>6, <1>7, <1>9, <1>10, <1>11, <1>12, <1>13,
     <1>14, <1>15, <1>16, <1>17, <1>18, <1>19, <1>20, <1>21, <1>22, <1>23 DEF Next, Step
-----------------------------------------------------------------------------
\* The sequence of frozen tables.

\* No table is in it twice.
Distinct(s) == \A i, j \in DOMAIN s : s[i] = s[j] => i = j

\* A table is put in front.
LEMMA FrozenGrows ==
  ASSUME NEW s \in Seq(Addresses), NEW a \in Addresses
  PROVE  /\ <<a>> \o s \in Seq(Addresses)
         /\ Range(<<a>> \o s) = {a} \cup Range(s)
         /\ Distinct(s) /\ a \notin Range(s) => Distinct(<<a>> \o s)
<1> DEFINE r == <<a>> \o s
<1>1. r \in Seq(Addresses) /\ Len(r) = Len(s) + 1 /\ Len(s) \in Nat
  OBVIOUS
<1>2. DOMAIN r = 1..(Len(s) + 1) /\ DOMAIN s = 1..Len(s)
  BY <1>1
<1>3. r[1] = a /\ \A i \in 1..Len(s) : r[i + 1] = s[i]
  OBVIOUS
<1>4. \A i \in DOMAIN r : i = 1 \/ (i - 1 \in 1..Len(s) /\ r[i] = s[i - 1])
  BY <1>1, <1>2, <1>3
<1> HIDE DEF r
<1>5. Range(r) \subseteq {a} \cup Range(s)
  BY <1>2, <1>3, <1>4 DEF Range
<1>6. {a} \cup Range(s) \subseteq Range(r)
  <2>1. a \in Range(r)
    BY <1>1, <1>2, <1>3 DEF Range
  <2>2. ASSUME NEW i \in 1..Len(s)
        PROVE  s[i] \in Range(r)
    <3>1. i + 1 \in DOMAIN r /\ r[i + 1] = s[i]
      BY <1>1, <1>2, <1>3
    <3> QED
      BY <3>1 DEF Range
  <2> QED
    BY <1>2, <2>1, <2>2 DEF Range
<1>7. ASSUME Distinct(s), a \notin Range(s), NEW i \in DOMAIN r, NEW j \in DOMAIN r, r[i] = r[j]
      PROVE  i = j
  <2>1. CASE i = 1 /\ j # 1
    <3>1. j - 1 \in DOMAIN s /\ s[j - 1] = a
      BY <1>2, <1>3, <1>4, <1>7, <2>1
    <3> QED
      BY <1>7, <3>1 DEF Range
  <2>2. CASE i # 1 /\ j = 1
    <3>1. i - 1 \in DOMAIN s /\ s[i - 1] = a
      BY <1>2, <1>3, <1>4, <1>7, <2>2
    <3> QED
      BY <1>7, <3>1 DEF Range
  <2>3. CASE i # 1 /\ j # 1
    <3>1. i - 1 \in DOMAIN s /\ j - 1 \in DOMAIN s /\ s[i - 1] = s[j - 1]
      BY <1>2, <1>4, <1>7, <2>3
    <3>2. i - 1 = j - 1
      BY <1>7, <3>1 DEF Distinct
    <3>3. i \in Int /\ j \in Int
      BY <1>1, <1>2
    <3> QED
      BY <3>2, <3>3
  <2> QED
    BY <2>1, <2>2, <2>3
<1> QED
  BY <1>1, <1>5, <1>6, <1>7 DEF Distinct, r

\* The last one is taken out.
LEMMA FrozenShrinks ==
  ASSUME NEW s \in Seq(Addresses), s # << >>, Distinct(s)
  PROVE  /\ s[Len(s)] \in Range(s) /\ s[Len(s)] \in Addresses
         /\ SubSeq(s, 1, Len(s) - 1) \in Seq(Addresses)
         /\ Range(SubSeq(s, 1, Len(s) - 1)) = Range(s) \ {s[Len(s)]}
         /\ Distinct(SubSeq(s, 1, Len(s) - 1))
<1> DEFINE r == SubSeq(s, 1, Len(s) - 1)
           n == Len(s)
<1>1. n \in Nat /\ n # 0 /\ DOMAIN s = 1..n
  OBVIOUS
<1>2. \A i \in 1..n : s[i] \in Addresses
  BY <1>1, ElementOfSeq
<1>3. /\ r \in Seq(Addresses) /\ DOMAIN r = 1..(n - 1)
      /\ \A i \in 1..(n - 1) : r[i] = s[i]
  BY <1>1, <1>2, SubSeqProperties
<1> HIDE DEF r, n
<1>4. Range(r) = Range(s) \ {s[n]}
  <2>1. ASSUME NEW i \in 1..(n - 1)
        PROVE  s[i] \in Range(s) /\ s[i] # s[n]
    <3>1. i \in DOMAIN s /\ n \in DOMAIN s /\ i # n
      BY <1>1
    <3> QED
      BY <3>1 DEF Distinct, Range
  <2>2. ASSUME NEW i \in DOMAIN s, s[i] # s[n]
        PROVE  s[i] \in Range(r)
    <3>1. i \in DOMAIN r /\ r[i] = s[i]
      BY <1>1, <1>3, <2>2
    <3> QED
      BY <3>1 DEF Range
  <2> QED
    BY <1>3, <2>1, <2>2 DEF Range
<1>5. Distinct(r)
  <2> SUFFICES ASSUME NEW i \in DOMAIN r, NEW j \in DOMAIN r, r[i] = r[j]
               PROVE  i = j
    BY DEF Distinct
  <2>1. i \in DOMAIN s /\ j \in DOMAIN s /\ s[i] = s[j]
    BY <1>1, <1>3
  <2> QED
    BY <2>1 DEF Distinct
<1>6. s[n] \in Range(s) /\ s[n] \in Addresses
  BY <1>1, <1>2 DEF Range
<1> QED
  BY <1>3, <1>4, <1>5, <1>6 DEF r, n

\* The values of a finite function are not more than its arguments.
LEMMA RangeBound ==
  ASSUME NEW f, IsFiniteSet(DOMAIN f), f = [x \in DOMAIN f |-> f[x]]
  PROVE  IsFiniteSet(Range(f)) /\ Cardinality(Range(f)) <= Cardinality(DOMAIN f)
<1>1. f \in Surjection(DOMAIN f, Range(f))
  BY DEF Surjection, Range
<1> QED
  BY <1>1, FS_Surjection

\* A sequence has finitely many elements.
LEMMA RangeOfFrozen ==
  ASSUME TypeInv
  PROVE  IsFiniteSet(Range(frozen_tables)) /\ Range(frozen_tables) \subseteq Addresses
<1>1. /\ Len(frozen_tables) \in Nat /\ DOMAIN frozen_tables = 1..Len(frozen_tables)
      /\ frozen_tables = [i \in DOMAIN frozen_tables |-> frozen_tables[i]]
  BY LenProperties DEF TypeInv
<1>2. IsFiniteSet(DOMAIN frozen_tables)
  BY <1>1, FS_Interval
<1>3. \A i \in DOMAIN frozen_tables : frozen_tables[i] \in Addresses
  BY <1>1, ElementOfSeq DEF TypeInv
<1> QED
  BY <1>1, <1>2, <1>3, RangeBound DEF Range

\* There is always an address for a new table: the tables in use are the active
\* one, the frozen ones and one for each thread.
LEMMA NewIsNew ==
  ASSUME TypeInv, CountInv
  PROVE  /\ NewAddress \in Addresses
         /\ NewAddress # current_table
         /\ NewAddress \notin Range(frozen_tables)
         /\ \A t \in Threads : table[t] # NewAddress
<1> DEFINE R == Range(frozen_tables)
           T == Range(table)
           U == {current_table} \cup R \cup T
<1>1. IsFiniteSet(R) /\ R \subseteq Addresses
  BY RangeOfFrozen
<1>2. Cardinality(R) <= Len(frozen_tables) /\ Len(frozen_tables) \in Nat
  <2>1. /\ Len(frozen_tables) \in Nat /\ DOMAIN frozen_tables = 1..Len(frozen_tables)
        /\ frozen_tables = [i \in DOMAIN frozen_tables |-> frozen_tables[i]]
    BY LenProperties DEF TypeInv
  <2>2. IsFiniteSet(1..Len(frozen_tables)) /\ Cardinality(1..Len(frozen_tables)) = Len(frozen_tables)
    BY <2>1, FS_Interval
  <2> QED
    BY <2>1, <2>2, RangeBound
<1>4. IsFiniteSet(T) /\ Cardinality(T) <= Cardinality(Threads)
  <2>1. DOMAIN table = Threads /\ table = [t \in DOMAIN table |-> table[t]]
    BY DEF TypeInv
  <2> QED
    BY <2>1, RangeBound, MemTableParameters
<1>5. Cardinality(R) <= Cardinality(Items) + 1
  <2>1. Cardinality(R) \in Nat
    BY <1>1, FS_CardinalityType
  <2>2. At("put_freeze") \in {0, 1} /\ At("flush_take") \in {0, 1}
    BY DEF At
  <2>3. Len(frozen_tables) + At("put_freeze") <= Cardinality(Done) + At("flush_take")
    BY DEF CountInv
  <2> HIDE DEF R
  <2> QED
    BY <1>2, <2>1, <2>2, <2>3, DoneIsFinite
<1> HIDE DEF R, T
<1>6. IsFiniteSet(U) /\ Cardinality(U) <= 1 + Cardinality(R) + Cardinality(T)
  <2>1. IsFiniteSet(R \cup T)
    BY <1>1, <1>4, FS_Union
  <2>2. Cardinality(R \cup T) = Cardinality(R) + Cardinality(T) - Cardinality(R \cap T)
    BY <1>1, <1>4, FS_Union
  <2>3. IsFiniteSet(R \cap T)
    BY <1>1, FS_Subset
  <2>4. U = (R \cup T) \cup {current_table}
    OBVIOUS
  <2>5. /\ IsFiniteSet((R \cup T) \cup {current_table})
        /\ Cardinality((R \cup T) \cup {current_table}) <= Cardinality(R \cup T) + 1
    <3> DEFINE V == R \cup T
    <3> HIDE DEF V
    <3>1. IsFiniteSet(V)
      BY <2>1 DEF V
    <3>2. Cardinality(V) \in Nat
      BY <3>1, FS_CardinalityType
    <3>3. /\ IsFiniteSet(V \cup {current_table})
          /\ Cardinality(V \cup {current_table}) =
               IF current_table \in V THEN Cardinality(V) ELSE Cardinality(V) + 1
      BY <3>1, FS_AddElement
    <3>4. Cardinality(V \cup {current_table}) <= Cardinality(V) + 1
      BY <3>2, <3>3
    <3> QED
      BY <3>3, <3>4 DEF V
  <2>6. /\ Cardinality(R) \in Nat /\ Cardinality(T) \in Nat /\ Cardinality(R \cap T) \in Nat
        /\ Cardinality(R \cup T) \in Nat /\ Cardinality(U) \in Nat
    BY <1>1, <1>4, <2>1, <2>3, <2>4, <2>5, FS_CardinalityType
  <2> HIDE DEF U
  <2>7. IsFiniteSet(U) /\ Cardinality(U) <= Cardinality(R \cup T) + 1
    BY <2>4, <2>5
  <2> QED
    BY <2>2, <2>6, <2>7
<1> HIDE DEF U
<1>7. /\ Cardinality(Threads) \in Nat
      /\ Cardinality(Items) \in Nat /\ Cardinality(R) \in Nat /\ Cardinality(T) \in Nat
      /\ Cardinality(U) \in Nat
  BY <1>1, <1>4, <1>6, FS_CardinalityType, MemTableParameters
<1>8. Cardinality(Addresses) = Cardinality(Threads) + Cardinality(Items) + 3
  <2> DEFINE b == Cardinality(Threads) + Cardinality(Items) + 3
  <2>1. b \in Int /\ b >= 1
    BY <1>7
  <2> HIDE DEF b
  <2>2. Cardinality(1..b) = b
    BY <2>1, FS_Interval
  <2> QED
    BY <2>2 DEF Addresses, b
<1>9. \E a \in Addresses : a \notin U
  <2> SUFFICES ASSUME Addresses \subseteq U
               PROVE  FALSE
    OBVIOUS
  <2>1. Cardinality(Addresses) <= Cardinality(U)
    BY <1>6, FS_Subset
  <2> QED
    BY <1>4, <1>5, <1>6, <1>7, <1>8, <2>1
<1>10. NewAddress \in Addresses /\ NewAddress \notin U
  BY <1>9 DEF NewAddress, U, R, T
<1> QED
  BY <1>10 DEF U, R, T, Range, TypeInv

-----------------------------------------------------------------------------
\* Types.

\* Each step keeps the types.
LEMMA TypeStep == IInv /\ Next => TypeInv'
<1> SUFFICES ASSUME IInv, Next
             PROVE  TypeInv'
  OBVIOUS
<1>a. TypeInv /\ TableInv /\ CountInv
  BY DEF IInv
<1>b. Word \in Nat /\ Word > 0
  <2>1. Cardinality(Items) \in Nat
    BY FS_CardinalityType, MemTableParameters
  <2> QED
    BY <2>1, MemTableParameters
<1>c. \A S : S \in SUBSET Items => Cardinality(S) \in Nat
  BY FS_Subset, FS_CardinalityType, MemTableParameters
<1>1. ASSUME NEW t \in Threads, Start(t)
      PROVE  TypeInv'
  <2>1. PICK call \in workload.ops[t] :
          /\ op' = [op EXCEPT ![t] = call]
          /\ pc' = [pc EXCEPT ![t] = FirstStep(call)]
          /\ \/ \E i \in Items : item' = [item EXCEPT ![t] = i] /\ issued' = issued \cup {i}
             \/ item' = item /\ issued' = issued
          /\ known' = [known EXCEPT ![t] = IF call = "get" THEN acked ELSE {}]
    BY <1>1 DEF Start
  <2>2. call \in Calls
    BY <1>1, <1>a, MemTableParameters DEF Start, TypeInv
  <2>3. FirstStep(call) \in AllSteps
    BY <2>2 DEF FirstStep, Calls, AllSteps
  <2>4. UNCHANGED <<workload, memory, ssts, table, got, acked>>
    BY <1>1 DEF Start
  <2>5. op' \in [Threads -> Calls \cup {"none"}] /\ pc' \in [Threads -> AllSteps]
    BY <1>a, <2>1, <2>2, <2>3 DEF TypeInv
  <2>6. item' \in [Threads -> Items] /\ issued' \subseteq Items
    BY <1>a, <2>1 DEF TypeInv
  <2>7. known' \in [Threads -> SUBSET Items]
    BY <1>a, <2>1 DEF TypeInv
  <2> QED
    BY <1>a, <2>4, <2>5, <2>6, <2>7 DEF TypeInv, memory
<1>2. ASSUME NEW t \in Threads, workload' = workload, Step(t)
      PROVE  TypeInv'
  <2>1. op' \in [Threads -> Calls \cup {"none"}] /\ pc' \in [Threads -> AllSteps]
    BY <1>2, <1>a DEF TypeInv, Step, AllSteps, PutLock, PutInsert, PutFreeze, SizeCur, SizeFrozen,
       FlushSize, FlushLock, FlushNothing, FlushFreeze, FlushTake, FlushBuild, FlushReturns,
       CommitLockFrozen, CommitLockCur, CommitCheck, CommitApply, GetLockCur, GetCur, GetFrozen, GetSst,
       GetReturns, ClearLockCur, ClearTables, ClearSsts, Goto, Return
  <2>2. CASE \/ PutLock(t) \/ SizeCur(t) \/ SizeFrozen(t)
             \/ FlushSize(t) \/ FlushLock(t) \/ FlushNothing(t) \/ CommitLockFrozen(t)
             \/ CommitLockCur(t) \/ CommitCheck(t) \/ GetLockCur(t) \/ ClearLockCur(t)
    <3>1. UNCHANGED <<memory, ssts, item, got, known, history>>
      BY <2>2 DEF PutLock, SizeCur, SizeFrozen, FlushSize, FlushLock, FlushNothing,
         CommitLockFrozen, CommitLockCur, CommitCheck, GetLockCur, ClearLockCur, locals
    <3>2. table' = table \/ table' = [table EXCEPT ![t] = current_table]
      BY <2>2 DEF PutLock, SizeCur, SizeFrozen, FlushSize, FlushLock, FlushNothing,
         CommitLockFrozen, CommitLockCur, CommitCheck, GetLockCur, ClearLockCur, locals
    <3> QED
      BY <1>2, <1>a, <2>1, <3>1, <3>2 DEF TypeInv, memory, history
  <2>3. CASE PutInsert(t) \/ CommitApply(t)
    <3>1. /\ content' = [content EXCEPT ![table[t]] = @ \cup {item[t]}] \/ content' = content
          /\ acked' = acked \cup {item[t]} \/ acked' = acked
          /\ issued' = issued
          /\ UNCHANGED <<current_table, frozen_tables, frozen_bytes, ssts, locals>>
      BY <2>3 DEF PutInsert, CommitApply
    <3> QED
      BY <1>2, <1>a, <2>1, <3>1 DEF TypeInv, locals
  <2>4. CASE PutFreeze(t) \/ FlushFreeze(t)
    <3>1. /\ FreezeCurrent \/ UNCHANGED memory
          /\ UNCHANGED <<ssts, locals, history>>
      BY <2>4 DEF PutFreeze, FlushFreeze
    <3>2. NewAddress \in Addresses
      BY <1>a, NewIsNew
    <3>3. CASE FreezeCurrent
      <4>1. frozen_tables' \in Seq(Addresses)
        BY <1>a, <3>3, FrozenGrows DEF TypeInv, FreezeCurrent
      <4>2. content[current_table] \in SUBSET Items /\ frozen_bytes \in Nat
        BY <1>a DEF TypeInv
      <4>3. Cardinality(content[current_table]) \in Nat
        BY <1>c, <4>2
      <4>4. frozen_bytes' \in Nat
        BY <1>b, <3>3, <4>2, <4>3 DEF FreezeCurrent
      <4> QED
        BY <1>2, <1>a, <2>1, <3>1, <3>2, <3>3, <4>1, <4>4
           DEF TypeInv, FreezeCurrent, locals, history
    <3>4. CASE UNCHANGED memory
      BY <1>2, <1>a, <2>1, <3>1, <3>4 DEF TypeInv, memory, locals, history
    <3> QED
      BY <3>1, <3>3, <3>4
  <2>5. CASE FlushTake(t)
    <3> DEFINE a == frozen_tables[Len(frozen_tables)]
    <3>1. /\ frozen_tables # << >> /\ UNCHANGED <<current_table, content>>
          /\ UNCHANGED <<ssts, item, got, known, history>>
          /\ table' = [table EXCEPT ![t] = a] /\ frozen_bytes' = BytesWithout(a)
          /\ frozen_tables' = SubSeq(frozen_tables, 1, Len(frozen_tables) - 1)
      BY <1>a, <2>5 DEF FlushTake, TableInv
    <3>2. frozen_tables' \in Seq(Addresses) /\ a \in Addresses
      BY <1>a, <3>1, FrozenShrinks DEF TypeInv, TableInv, Distinct
    <3> HIDE DEF a
    <3>3. content[a] \in SUBSET Items /\ frozen_bytes \in Nat
      BY <1>a, <3>2 DEF TypeInv
    <3>4. Cardinality(content[a]) \in Nat
      BY <1>c, <3>3
    <3>5. frozen_bytes' \in Nat
      BY <1>b, <3>1, <3>3, <3>4 DEF BytesWithout
    <3> QED
      BY <1>2, <1>a, <2>1, <3>1, <3>2, <3>5 DEF TypeInv, history
  <2>6. CASE FlushBuild(t)
    BY <1>2, <1>a, <2>1, <2>6 DEF TypeInv, FlushBuild, memory, locals, history
  <2>7. CASE GetCur(t) \/ GetFrozen(t) \/ GetSst(t)
    <3>1. UNCHANGED <<memory, ssts, table, item, issued, acked>>
      BY <2>7 DEF GetCur, GetFrozen, GetSst, GetReturns, locals, history
    <3>2. FrozenItems \subseteq Items
      BY <1>a, RangeOfFrozen DEF FrozenItems, TypeInv
    <3>3. /\ known' = known \/ known' = [known EXCEPT ![t] = {}]
          /\ \/ \E found \in SUBSET content[table[t]] : got' = [got EXCEPT ![t] = found]
             \/ got' = [got EXCEPT ![t] = @ \cup FrozenItems]
             \/ got' = [got EXCEPT ![t] = {}]
      BY <2>7 DEF GetCur, GetFrozen, GetSst, GetReturns, locals
    <3>4. content[table[t]] \subseteq Items
      BY <1>2, <1>a DEF TypeInv
    <3>5. got' \in [Threads -> SUBSET Items] /\ known' \in [Threads -> SUBSET Items]
      BY <1>a, <3>2, <3>3, <3>4 DEF TypeInv
    <3> QED
      BY <1>2, <1>a, <2>1, <3>1, <3>5 DEF TypeInv, memory
  <2>8. CASE ClearTables(t)
    BY <1>2, <1>a, <2>1, <2>8 DEF TypeInv, ClearTables
  <2>9. CASE ClearSsts(t)
    BY <1>2, <1>a, <2>1, <2>9 DEF TypeInv, ClearSsts, memory
  <2> QED
    BY <1>2, <2>2, <2>3, <2>4, <2>5, <2>6, <2>7, <2>8, <2>9 DEF Step
<1> QED
  BY <1>1, <1>2 DEF Next, Step

-----------------------------------------------------------------------------
\* What the tables hold, action by action.

Held == TableInv /\ KeptInv /\ ReaderInv /\ ItemInv /\ CountInv /\ BytesInv

\* A step that only takes or releases mutexes and loads the active table.
Quiet(t, q) ==
  /\ pc' = [pc EXCEPT ![t] = q]
  /\ UNCHANGED <<workload, memory, ssts, item, got, known, history>>
  /\ table' = table \/ table' = [table EXCEPT ![t] = current_table]

\* A thread that goes from p to q neither begins nor ends what the invariant is
\* about.
Plain(p, q) ==
  /\ p \notin {"put_freeze", "flush_take", "flush_build"}
  /\ q \notin {"put_freeze", "flush_take", "flush_build", "get", "get_frozen", "get_sst"}
  /\ q = "get_cur" => p = "get"
  /\ p \in Writing <=> q \in Writing

\* Such a step changes nothing the invariant is about.
LEMMA QuietStep ==
  ASSUME IInv, NEW t \in Threads, NEW q, Quiet(t, q), Plain(pc[t], q),
         q \in {"put_insert", "get_cur", "commit_check", "commit_apply"} =>
           table'[t] = current_table
  PROVE  Held'
<1>a. TypeInv /\ TableInv /\ KeptInv /\ ReaderInv /\ ItemInv /\ CountInv /\ BytesInv
  BY DEF IInv
<1>1. /\ \A u \in Threads : pc'[u] = IF u = t THEN q ELSE pc[u]
      /\ \A u \in Threads \ {t} : table'[u] = table[u]
      /\ UNCHANGED <<workload, current_table, frozen_tables, frozen_bytes, content, ssts>>
      /\ UNCHANGED <<item, got, known, issued, acked, missed>>
  BY <1>a DEF Quiet, memory, history, TypeInv
<1>2. TableInv'
  BY <1>a, <1>1 DEF TableInv, Plain
<1>3. \A i : Elsewhere(i) => Elsewhere(i)'
  BY <1>1 DEF Elsewhere, InFrozen, InFlush, Plain
<1>4. KeptInv'
  BY <1>a, <1>1, <1>3 DEF KeptInv
<1>5. ReaderInv'
  <2>1. \A i \in known[t] : pc[t] = "get" => i \in content[current_table] \/ Elsewhere(i)
    BY <1>a DEF ReaderInv, KeptInv
  <2> QED
    BY <1>a, <1>1, <1>3, <2>1 DEF ReaderInv, Plain
<1>6. Underway' = Underway /\ Done' = Done
  BY <1>1 DEF Underway, Plain, Done
<1>7. ItemInv'
  BY <1>a, <1>1, <1>6 DEF ItemInv, Plain
<1>8. At("put_freeze")' = At("put_freeze") /\ At("flush_take")' = At("flush_take")
  BY <1>1 DEF At, Plain
<1>9. CountInv'
  BY <1>a, <1>1, <1>6, <1>8 DEF CountInv
<1>10. BytesInv'
  BY <1>a, <1>1, <1>6 DEF BytesInv, FrozenPairs
<1> QED
  BY <1>2, <1>4, <1>5, <1>7, <1>9, <1>10 DEF Held

\* A write goes into the table the thread has loaded; into another one than the
\* active table it may also be lost.
Written(t, q) ==
  /\ pc' = [pc EXCEPT ![t] = q]
  /\ \/ content' = [content EXCEPT ![table[t]] = @ \cup {item[t]}]
     \/ table[t] # current_table /\ content' = content
  /\ acked' = IF table[t] = current_table THEN acked \cup {item[t]} ELSE acked
  /\ UNCHANGED <<workload, current_table, frozen_tables, frozen_bytes, ssts, locals, issued, missed>>

\* The write counts in the table, in the bytes and in what must be kept at once.
LEMMA WriteStep ==
  ASSUME IInv, NEW t \in Threads, NEW q \in {"put_freeze", "size_cur", "idle"},
         pc[t] \in {"put_insert", "commit_apply"}, Written(t, q)
  PROVE  Held'
<1>a. /\ TypeInv /\ LockInv /\ TableInv /\ KeptInv /\ ReaderInv /\ ItemInv
      /\ CountInv /\ BytesInv
  BY DEF IInv
<1>1. /\ \A u \in Threads : pc'[u] = IF u = t THEN q ELSE pc[u]
      /\ \A a \in Addresses : content[a] \subseteq content'[a]
      /\ \A a \in Addresses : a # table[t] => content'[a] = content[a]
      /\ table[t] = current_table =>
           content'[current_table] = content[current_table] \cup {item[t]}
      /\ UNCHANGED <<workload, current_table, frozen_tables, frozen_bytes, ssts>>
      /\ UNCHANGED <<table, item, got, known, issued, missed>>
      /\ acked' = IF table[t] = current_table THEN acked \cup {item[t]} ELSE acked
      /\ current_table \in Addresses
  BY <1>a DEF Written, TypeInv, locals
<1>2. \A a \in Range(frozen_tables) : a \in Addresses
  BY <1>a, RangeOfFrozen
<1>3. TableInv'
  BY <1>a, <1>1 DEF TableInv
<1>4. \A i : Elsewhere(i) => Elsewhere(i)'
  <2>1. \A i : InFrozen(i) => InFrozen(i)'
    BY <1>1, <1>2 DEF InFrozen
  <2>2. \A i : InFlush(i) => InFlush(i)'
    BY <1>a, <1>1 DEF InFlush, TypeInv
  <2> QED
    BY <1>1, <2>1, <2>2 DEF Elsewhere
<1>5. KeptInv'
  <2> SUFFICES ASSUME NEW i \in acked'
               PROVE  (i \in content[current_table] \/ Elsewhere(i))'
    BY DEF KeptInv
  <2>1. CASE i = item[t] /\ table[t] = current_table
    BY <1>1, <2>1
  <2>2. CASE i \in acked
    BY <1>a, <1>1, <1>4, <2>2 DEF KeptInv
  <2> QED
    BY <1>1, <2>1, <2>2
<1>6. ReaderInv'
  <2>1. \A i : i \in content[current_table] => i \in content'[current_table]
    BY <1>1
  <2> QED
    BY <1>a, <1>1, <1>4, <2>1 DEF ReaderInv
<1>7. pc[t] \in Writing /\ q \notin Writing
  BY DEF Writing
<1>8. Underway' = Underway \ {item[t]}
  BY <1>a, <1>1, <1>7 DEF Underway, ItemInv
<1>9. item[t] \in Underway /\ item[t] \in issued
  BY <1>a, <1>7 DEF Underway, ItemInv
<1>10. ItemInv'
  BY <1>a, <1>1, <1>7, <1>8 DEF ItemInv
<1>11. Done' = Done \cup {item[t]} /\ item[t] \notin Done
  BY <1>1, <1>8, <1>9 DEF Done
<1>12. /\ Cardinality(Done') = Cardinality(Done) + 1
       /\ Cardinality(Done) \in Nat
  BY <1>a, <1>11, DoneIsFinite, FS_AddElement
<1>13. CountInv'
  <2>1. Len(frozen_tables) \in Nat
    BY <1>a DEF TypeInv
  <2>2. /\ At("put_freeze") \in {0, 1} /\ At("flush_take") \in {0, 1}
        /\ At("put_freeze")' \in {0, 1} /\ At("flush_take")' = At("flush_take")
    BY <1>1 DEF At
  <2>3. Len(frozen_tables) + At("put_freeze") <= Cardinality(Done) + At("flush_take")
    BY <1>a DEF CountInv
  <2>4. At("put_freeze")' <= At("put_freeze") + 1
    BY <2>2
  <2>5. Len(frozen_tables) + At("put_freeze")' <= Cardinality(Done') + At("flush_take")
    BY <1>12, <2>1, <2>2, <2>3, <2>4
  <2> QED
    BY <1>1, <2>2, <2>5 DEF CountInv
<1>14. BytesInv'
  <2> SUFFICES ASSUME Disciplined(workload)
               PROVE  /\ frozen_bytes >= Cardinality(FrozenPairs')
                      /\ frozen_bytes + Cardinality(content'[current_table]) <= Cardinality(Done')
    BY <1>1 DEF BytesInv
  <2> DEFINE C == content[current_table]
  <2>1. table[t] = current_table
    BY <1>a DEF TableInv
  <2>2. FrozenPairs' = FrozenPairs
    BY <1>a, <1>1, <1>2, <2>1 DEF FrozenPairs, TableInv
  <2>3. IsFiniteSet(C)
    BY <1>a, FS_Subset, MemTableParameters DEF TypeInv
  <2>4. frozen_bytes \in Nat /\ frozen_bytes >= Cardinality(FrozenPairs)
    BY <1>a DEF TypeInv, BytesInv
  <2>5. frozen_bytes + Cardinality(C) <= Cardinality(Done)
    BY <1>a DEF BytesInv
  <2> HIDE DEF C
  <2>6. Cardinality(C) \in Nat
    BY <2>3, FS_CardinalityType
  <2>8. Cardinality(C \cup {item[t]}) <= Cardinality(C) + 1 /\ Cardinality(C \cup {item[t]}) \in Nat
    <3>1. Cardinality(C \cup {item[t]}) =
            IF item[t] \in C THEN Cardinality(C) ELSE Cardinality(C) + 1
      BY <2>3, FS_AddElement
    <3> QED
      BY <2>6, <3>1
  <2>9. frozen_bytes + Cardinality(C \cup {item[t]}) <= Cardinality(Done')
    BY <1>12, <2>4, <2>5, <2>6, <2>8
  <2> QED
    BY <1>1, <2>1, <2>2, <2>4, <2>9 DEF C
<1> QED
  BY <1>3, <1>5, <1>6, <1>10, <1>13, <1>14 DEF Held

\* A call begins: a write gets an item of its own, a read notes what it must find.
LEMMA StartStep ==
  ASSUME IInv, NEW t \in Threads, Start(t)
  PROVE  Held'
<1>a. TypeInv /\ TableInv /\ KeptInv /\ ReaderInv /\ ItemInv /\ CountInv /\ BytesInv
  BY DEF IInv
<1>1. PICK call \in workload.ops[t] :
        /\ pc' = [pc EXCEPT ![t] = FirstStep(call)]
        /\ IF call \in Writes
             THEN \E i \in Items \ issued :
                    item' = [item EXCEPT ![t] = i] /\ issued' = issued \cup {i}
             ELSE item' = item /\ issued' = issued
        /\ known' = [known EXCEPT ![t] = IF call = "get" THEN acked ELSE {}]
  BY DEF Start
<1>2. /\ call \in Calls /\ pc[t] = "idle"
      /\ UNCHANGED <<workload, current_table, frozen_tables, frozen_bytes, content, ssts>>
      /\ UNCHANGED <<table, got, acked, missed>>
  BY <1>a, MemTableParameters DEF Start, TypeInv, memory
<1> DEFINE q == FirstStep(call)
<1>3. /\ q \in {"put", "commit", "flush", "size_cur", "get", "clear"}
      /\ q = "get" <=> call = "get"
      /\ q \in Writing <=> call \in Writes
  BY <1>2 DEF FirstStep, Calls, Writes, Writing
<1>4. /\ \A u \in Threads : pc'[u] = IF u = t THEN q ELSE pc[u]
      /\ \A u \in Threads :
           known'[u] = IF u # t THEN known[u] ELSE IF call = "get" THEN acked ELSE {}
  BY <1>a, <1>1 DEF TypeInv
<1> HIDE DEF q
<1>5. TableInv'
  BY <1>a, <1>2, <1>3, <1>4 DEF TableInv
<1>6. \A i : Elsewhere(i) => Elsewhere(i)'
  BY <1>2, <1>4 DEF Elsewhere, InFrozen, InFlush
<1>7. KeptInv'
  BY <1>a, <1>2, <1>6 DEF KeptInv
<1>8. ReaderInv'
  BY <1>a, <1>2, <1>3, <1>4, <1>6 DEF ReaderInv
<1>9. FrozenPairs' = FrozenPairs
  BY <1>2 DEF FrozenPairs
<1>10. At("put_freeze")' = At("put_freeze") /\ At("flush_take")' = At("flush_take")
  BY <1>2, <1>3, <1>4 DEF At
<1>11. ItemInv' /\ Done' = Done
  <2>1. CASE call \in Writes
    <3>1. PICK i \in Items \ issued : item' = [item EXCEPT ![t] = i] /\ issued' = issued \cup {i}
      BY <1>1, <2>1
    <3>2. \A u \in Threads : item'[u] = IF u = t THEN i ELSE item[u]
      BY <1>a, <3>1 DEF TypeInv
    <3>3. pc[t] \notin Writing /\ pc'[t] \in Writing
      BY <1>2, <1>3, <1>4, <2>1 DEF Writing
    <3>4. Underway' = Underway \cup {i}
      BY <1>4, <3>2, <3>3 DEF Underway
    <3>5. \A u \in Threads : pc[u] \in Writing => item[u] \in issued
      BY <1>a DEF ItemInv, Underway
    <3>6. ItemInv'
      <4>1. Underway' \subseteq issued'
        BY <1>a, <3>1, <3>4 DEF ItemInv
      <4>2. ASSUME NEW u \in Threads, NEW v \in Threads,
                   pc'[u] \in Writing, pc'[v] \in Writing, item'[u] = item'[v]
            PROVE  u = v
        BY <1>a, <1>4, <3>1, <3>2, <3>5, <4>2 DEF ItemInv
      <4> QED
        BY <4>1, <4>2 DEF ItemInv
    <3> QED
      BY <3>1, <3>4, <3>6 DEF Done
  <2>2. CASE call \notin Writes
    <3>1. /\ item' = item /\ issued' = issued
          /\ \A u \in Threads : pc'[u] \in Writing <=> pc[u] \in Writing
      BY <1>1, <1>2, <1>3, <1>4, <2>2 DEF Writing
    <3>2. Underway' = Underway
      BY <3>1 DEF Underway
    <3> QED
      BY <1>a, <3>1, <3>2 DEF ItemInv, Done
  <2> QED
    BY <2>1, <2>2
<1>12. CountInv' /\ BytesInv'
  BY <1>a, <1>2, <1>9, <1>10, <1>11 DEF CountInv, BytesInv
<1> QED
  BY <1>5, <1>7, <1>8, <1>11, <1>12 DEF Held

\* The active table becomes the newest frozen one, in a put or in flush_last: what was
\* in it is in a frozen table.
LEMMA FreezeStep ==
  ASSUME IInv, NEW t \in Threads, PutFreeze(t) \/ FlushFreeze(t), FreezeCurrent,
         workload' = workload
  PROVE  Held'
<1>a. /\ TypeInv /\ CallInv /\ TableInv /\ KeptInv /\ ReaderInv /\ ItemInv /\ CountInv
      /\ BytesInv /\ LockInv
  BY DEF IInv
<1> DEFINE a == NewAddress
           c == current_table
           R == Range(frozen_tables)
           q == IF pc[t] = "put_freeze" THEN "size_cur" ELSE "flush_take"
<1>1. /\ a \in Addresses /\ a # c /\ a \notin R /\ \A u \in Threads : table[u] # a
  BY <1>a, NewIsNew
<1>2. /\ pc[t] \in {"put_freeze", "flush_last"} /\ pc' = [pc EXCEPT ![t] = q]
      /\ CanLock("frozen")
      /\ UNCHANGED <<ssts, table, item, got, known, issued, acked, missed>>
  BY DEF PutFreeze, FlushFreeze, Goto, locals, history
<1>3. \A u \in Threads : pc'[u] = IF u = t THEN q ELSE pc[u]
  BY <1>a, <1>2 DEF TypeInv
<1>4. /\ current_table' = a /\ content'[a] = {}
      /\ \A b \in Addresses : b # a => content'[b] = content[b]
  BY <1>a, <1>1 DEF FreezeCurrent, TypeInv
<1>5. /\ frozen_tables' = <<c>> \o frozen_tables
      /\ Range(frozen_tables') = {c} \cup R
      /\ Distinct(frozen_tables')
      /\ Len(frozen_tables') = Len(frozen_tables) + 1 /\ Len(frozen_tables) \in Nat
      /\ frozen_tables' # << >>
  BY <1>a, FrozenGrows DEF FreezeCurrent, TypeInv, TableInv, Distinct
<1>6. IsFiniteSet(R) /\ R \subseteq Addresses /\ c \in Addresses /\ c \notin R
  BY <1>a, RangeOfFrozen DEF TypeInv, TableInv
<1>7. \A u \in Threads : pc[u] \notin {"flush_take", "flush_build", "commit_check", "commit_apply"}
  <2>1. \A u \in Threads : pc[u] \notin Exclusive("frozen")
    BY <1>a, <1>2, FreeMutexes DEF Mutexes
  <2> QED
    BY <2>1, WhoLocks
<1>8. \A u \in Threads : u # t /\ pc[t] = "put_freeze" => pc[u] \notin {"put_insert", "put_freeze"}
  BY <1>a, WhoLocks DEF LockInv, Mutexes
<1>9. \A u \in Threads : Disciplined(workload) => pc'[u] # "put_insert"
  <2>1. pc[t] = "flush_last" => pc[t] \in Flushing
    BY DEF Flushing
  <2> QED
    BY <1>a, <1>2, <1>3, <1>8, <2>1, FlushAlone
<1> HIDE DEF a, c, R
<1>10. TableInv'
  <2>1. \A u \in Threads : pc'[u] \notin {"flush_build", "commit_check", "commit_apply"}
    BY <1>2, <1>3, <1>7
  <2>2. \A i, j \in DOMAIN frozen_tables' : frozen_tables'[i] = frozen_tables'[j] => i = j
    BY <1>5 DEF Distinct
  <2>3. current_table' \notin Range(frozen_tables')
    BY <1>1, <1>4, <1>5
  <2> QED
    BY <1>5, <1>9, <2>1, <2>2, <2>3 DEF TableInv
<1>11. \A i : Elsewhere(i) \/ i \in content[c] => Elsewhere(i)'
  <2>1. \A i : InFrozen(i) \/ i \in content[c] => InFrozen(i)'
    BY <1>1, <1>4, <1>5, <1>6 DEF InFrozen, R
  <2>2. \A i : ~ InFlush(i)
    BY <1>7 DEF InFlush
  <2> QED
    BY <1>2, <2>1, <2>2 DEF Elsewhere
<1>12. KeptInv'
  BY <1>a, <1>2, <1>11 DEF KeptInv, c
<1>13. ReaderInv'
  BY <1>a, <1>2, <1>3, <1>11 DEF ReaderInv, c
<1>14. Underway' = Underway /\ \A u \in Threads : pc'[u] \in Writing <=> pc[u] \in Writing
  BY <1>2, <1>3 DEF Underway, Writing
<1>15. ItemInv' /\ Done' = Done
  BY <1>a, <1>2, <1>14 DEF ItemInv, Done
<1>16. CountInv'
  <2>1. Len(frozen_tables) + At("put_freeze") <= Cardinality(Done) + At("flush_take")
    BY <1>a DEF CountInv
  <2>2. At("flush_take") = 0 /\ Cardinality(Done) \in Nat
    BY <1>a, <1>7, DoneIsFinite DEF At
  <2>3. CASE pc[t] = "put_freeze"
    <3>1. At("put_freeze") = 1 /\ At("put_freeze")' = 0 /\ At("flush_take")' = 0
      BY <1>3, <1>7, <1>8, <2>3 DEF At
    <3> QED
      BY <1>5, <1>15, <2>1, <2>2, <3>1 DEF CountInv
  <2>4. CASE pc[t] = "flush_last"
    <3>1. At("put_freeze")' = At("put_freeze") /\ At("flush_take")' = 1
      BY <1>3, <2>4 DEF At
    <3>2. At("put_freeze") \in {0, 1}
      BY DEF At
    <3> QED
      BY <1>5, <1>15, <2>1, <2>2, <3>1, <3>2 DEF CountInv
  <2> QED
    BY <1>2, <2>3, <2>4
<1>17. BytesInv'
  <2> SUFFICES ASSUME Disciplined(workload)
               PROVE  /\ frozen_bytes' >= Cardinality(FrozenPairs')
                      /\ frozen_bytes' + Cardinality(content'[current_table']) <= Cardinality(Done)
    BY <1>15 DEF BytesInv
  <2>1. PairsOf({c} \cup R, content') = PairsOf({c} \cup R, content)
    BY <1>1, <1>4, <1>6 DEF PairsOf
  <2>2. FrozenPairs' = PairsOf(R \cup {c}, content) /\ FrozenPairs = PairsOf(R, content)
    BY <1>5, <2>1 DEF FrozenPairs, PairsOf, R
  <2>3. content[c] \subseteq Items
    BY <1>a, <1>6 DEF TypeInv
  <2>4. /\ IsFiniteSet(PairsOf(R, content)) /\ IsFiniteSet(content[c])
        /\ Cardinality(PairsOf(R \cup {c}, content)) =
             Cardinality(PairsOf(R, content)) + Cardinality(content[c])
    BY <1>6, <2>3, PairsAdd
  <2>5. Cardinality(PairsOf(R, content)) \in Nat /\ Cardinality(content[c]) \in Nat
    BY <2>4, FS_CardinalityType
  <2>6. frozen_bytes + Cardinality(content[c]) < Word /\ frozen_bytes \in Nat /\ Word \in Nat
    BY <1>a, <2>5, TotalIsBounded, MemTableParameters DEF c
  <2>7. frozen_bytes' = (frozen_bytes + Cardinality(content[c])) % Word
    BY DEF FreezeCurrent, c
  <2>8. frozen_bytes' = frozen_bytes + Cardinality(content[c])
    BY <2>5, <2>6, <2>7
  <2>9. /\ frozen_bytes >= Cardinality(FrozenPairs)
        /\ frozen_bytes + Cardinality(content[c]) <= Cardinality(Done)
    BY <1>a DEF BytesInv, c
  <2>10. Cardinality(content'[current_table']) = 0
    BY <1>4, FS_EmptySet
  <2>12. frozen_bytes' >= Cardinality(FrozenPairs')
    BY <2>2, <2>4, <2>5, <2>6, <2>8, <2>9
  <2>13. frozen_bytes' + Cardinality(content'[current_table']) <= Cardinality(Done)
    BY <2>5, <2>6, <2>8, <2>9, <2>10
  <2> QED
    BY <2>12, <2>13
<1> QED
  BY <1>10, <1>12, <1>13, <1>15, <1>16, <1>17 DEF Held

\* With a frozen table there, flush_last only locks.
LEMMA LockFrozenStep ==
  ASSUME IInv, NEW t \in Threads, FlushFreeze(t), UNCHANGED memory, workload' = workload
  PROVE  Held'
<1>a. TypeInv /\ TableInv /\ KeptInv /\ ReaderInv /\ ItemInv /\ CountInv /\ BytesInv
  BY DEF IInv
<1>1. /\ pc[t] = "flush_last" /\ frozen_tables # << >>
      /\ UNCHANGED <<workload, current_table, frozen_tables, frozen_bytes, content, ssts>>
      /\ UNCHANGED <<table, item, got, known, issued, acked, missed>>
  <2>1. FreezeCurrent /\ frozen_tables = << >> => frozen_tables' # frozen_tables
    <3>1. Len(<<current_table>> \o << >>) = 1 /\ Len(<< >>) = 0
      OBVIOUS
    <3> QED
      BY <3>1 DEF FreezeCurrent
  <2> QED
    BY <2>1 DEF FlushFreeze, memory, locals, history
<1>2. \A u \in Threads : pc'[u] = IF u = t THEN "flush_take" ELSE pc[u]
  BY <1>a DEF FlushFreeze, Goto, TypeInv
<1>3. TableInv'
  BY <1>a, <1>1, <1>2 DEF TableInv
<1>4. \A i : Elsewhere(i) => Elsewhere(i)'
  BY <1>1, <1>2 DEF Elsewhere, InFrozen, InFlush
<1>5. KeptInv' /\ ReaderInv'
  BY <1>a, <1>1, <1>2, <1>4 DEF KeptInv, ReaderInv
<1>6. Underway' = Underway /\ \A u \in Threads : pc'[u] \in Writing <=> pc[u] \in Writing
  BY <1>1, <1>2 DEF Underway, Writing
<1>7. ItemInv' /\ Done' = Done
  BY <1>a, <1>1, <1>6 DEF ItemInv, Done
<1>8. BytesInv'
  BY <1>a, <1>1, <1>7 DEF BytesInv, FrozenPairs
<1>9. CountInv'
  <2>1. /\ At("put_freeze")' = At("put_freeze") /\ At("flush_take")' = 1
        /\ At("put_freeze") \in {0, 1} /\ At("flush_take") \in {0, 1}
    BY <1>1, <1>2 DEF At
  <2>2. Len(frozen_tables) + At("put_freeze") <= Cardinality(Done) + At("flush_take")
    BY <1>a DEF CountInv
  <2>3. Len(frozen_tables) \in Nat /\ Cardinality(Done) \in Nat
    BY <1>a, DoneIsFinite DEF TypeInv
  <2> QED
    BY <1>1, <1>7, <2>1, <2>2, <2>3 DEF CountInv
<1> QED
  BY <1>3, <1>5, <1>7, <1>8, <1>9 DEF Held

\* flush_last takes a table out: its items stay with the thread that flushes.
LEMMA TakeStep ==
  ASSUME IInv, NEW t \in Threads, FlushTake(t), workload' = workload
  PROVE  Held'
<1>a. /\ TypeInv /\ TableInv /\ KeptInv /\ ReaderInv /\ ItemInv /\ CountInv /\ BytesInv
      /\ LockInv
  BY DEF IInv
<1> DEFINE a == frozen_tables[Len(frozen_tables)]
           R == Range(frozen_tables')
<1>1. /\ pc[t] = "flush_take" /\ pc' = [pc EXCEPT ![t] = "flush_build"]
      /\ frozen_tables # << >>
      /\ table' = [table EXCEPT ![t] = a] /\ frozen_bytes' = BytesWithout(a)
      /\ frozen_tables' = SubSeq(frozen_tables, 1, Len(frozen_tables) - 1)
      /\ UNCHANGED <<current_table, content>>
      /\ UNCHANGED <<ssts, item, got, known, issued, acked, missed>>
  BY <1>a DEF FlushTake, Goto, history, TableInv
<1>2. /\ \A u \in Threads : pc'[u] = IF u = t THEN "flush_build" ELSE pc[u]
      /\ \A u \in Threads : table'[u] = IF u = t THEN a ELSE table[u]
  BY <1>a, <1>1 DEF TypeInv
<1>3. \A u \in Threads :
        u # t => pc[u] \notin {"flush_take", "flush_build", "commit_check", "commit_apply"}
  BY <1>a, <1>1, WhoLocks DEF LockInv, Mutexes
<1>4. /\ a \in Range(frozen_tables) /\ a \in Addresses
      /\ R = Range(frozen_tables) \ {a}
      /\ Distinct(frozen_tables')
  BY <1>a, <1>1, FrozenShrinks DEF TypeInv, TableInv, Distinct
<1>5. Len(frozen_tables') = Len(frozen_tables) - 1 /\ Len(frozen_tables) \in Nat
  <2> DEFINE n == Len(frozen_tables)
  <2>1. n \in Nat /\ n # 0 /\ frozen_tables \in Seq(Addresses)
    BY <1>a, <1>1, EmptySeq, LenProperties DEF TypeInv
  <2>2. \A i \in 1..n : frozen_tables[i] \in Addresses
    BY <2>1, ElementOfSeq
  <2>3. frozen_tables' = SubSeq(frozen_tables, 1, n - 1)
    BY <1>1
  <2> HIDE DEF n
  <2>4. n - 1 \in Int /\ 1 \in Int /\ \A i \in 1..(n - 1) : frozen_tables[i] \in Addresses
    BY <2>1, <2>2
  <2>5. Len(SubSeq(frozen_tables, 1, n - 1)) = IF 1 <= n - 1 THEN (n - 1) - 1 + 1 ELSE 0
    BY <2>4, SubSeqProperties
  <2>6. Len(frozen_tables') = n - 1
    BY <2>1, <2>3, <2>5
  <2> QED
    BY <2>1, <2>6 DEF n
<1>6. IsFiniteSet(Range(frozen_tables))
  BY <1>a, RangeOfFrozen
<1> HIDE DEF a, R
<1>7. TableInv'
  <2>1. current_table \notin R /\ a # current_table /\ a \notin R
    BY <1>a, <1>4 DEF TableInv
  <2>2. \A u \in Threads : pc'[u] = "flush_build" => table'[u] = a
    BY <1>2, <1>3
  <2>3. \A u \in Threads : pc'[u] \notin {"flush_take", "commit_check", "commit_apply"}
    BY <1>2, <1>3
  <2>4. \A u \in Threads : pc'[u] = "put_insert" => pc[u] = "put_insert" /\ table'[u] = table[u]
    BY <1>2
  <2> QED
    BY <1>a, <1>1, <1>4, <2>1, <2>2, <2>3, <2>4 DEF TableInv, Distinct, R
<1>8. \A i : Elsewhere(i) => Elsewhere(i)'
  <2>1. \A i : InFrozen(i) => InFrozen(i)' \/ i \in content[a]
    BY <1>1, <1>4 DEF InFrozen, R
  <2>2. \A i : i \in content[a] \/ InFlush(i) => InFlush(i)'
    BY <1>1, <1>2 DEF InFlush
  <2> QED
    BY <1>1, <2>1, <2>2 DEF Elsewhere
<1>9. KeptInv'
  BY <1>a, <1>1, <1>8 DEF KeptInv
<1>10. ReaderInv'
  BY <1>a, <1>1, <1>2, <1>8 DEF ReaderInv
<1>11. Underway' = Underway /\ \A u \in Threads : pc'[u] \in Writing <=> pc[u] \in Writing
  BY <1>1, <1>2 DEF Underway, Writing
<1>12. ItemInv' /\ Done' = Done
  BY <1>a, <1>1, <1>11 DEF ItemInv, Done
<1>13. CountInv'
  <2>1. /\ At("put_freeze")' = At("put_freeze") /\ At("flush_take")' = 0
        /\ At("put_freeze") \in {0, 1} /\ At("flush_take") = 1
    BY <1>1, <1>2, <1>3 DEF At
  <2>2. Len(frozen_tables) + At("put_freeze") <= Cardinality(Done) + At("flush_take")
    BY <1>a DEF CountInv
  <2>3. Cardinality(Done) \in Nat
    BY <1>a, DoneIsFinite
  <2> QED
    BY <1>5, <1>12, <2>1, <2>2, <2>3 DEF CountInv
<1>14. BytesInv'
  <2> SUFFICES ASSUME Disciplined(workload)
               PROVE  /\ frozen_bytes' >= Cardinality(FrozenPairs')
                      /\ frozen_bytes' + Cardinality(content[current_table]) <= Cardinality(Done)
    BY <1>1, <1>12 DEF BytesInv
  <2>1. FrozenPairs' = PairsOf(R, content) /\ FrozenPairs = PairsOf(R \cup {a}, content)
    BY <1>1, <1>4 DEF FrozenPairs, PairsOf, R
  <2>2. IsFiniteSet(R) /\ a \notin R /\ content[a] \subseteq Items
    BY <1>a, <1>4, <1>6, FS_Subset DEF TypeInv
  <2>3. /\ IsFiniteSet(PairsOf(R, content)) /\ IsFiniteSet(content[a])
        /\ Cardinality(PairsOf(R \cup {a}, content)) =
             Cardinality(PairsOf(R, content)) + Cardinality(content[a])
    BY <2>2, PairsAdd
  <2>4. Cardinality(PairsOf(R, content)) \in Nat /\ Cardinality(content[a]) \in Nat
    BY <2>3, FS_CardinalityType
  <2> DEFINE k == Cardinality(content[current_table])
             n == Cardinality(Done)
  <2>5. /\ frozen_bytes \in Nat /\ k \in Nat /\ n \in Nat
        /\ frozen_bytes + k <= Cardinality(Items) /\ Cardinality(Items) < Word
        /\ Cardinality(Items) \in Nat /\ Word \in Nat
    BY <1>a, TotalIsBounded, MemTableParameters
  <2>6. frozen_bytes >= Cardinality(FrozenPairs) /\ frozen_bytes + k <= n
    BY <1>a DEF BytesInv
  <2> HIDE DEF k, n
  <2>7. frozen_bytes' = (frozen_bytes - Cardinality(content[a])) % Word
    BY <1>1 DEF BytesWithout
  <2>8. frozen_bytes - Cardinality(content[a]) >= Cardinality(PairsOf(R, content))
    BY <2>1, <2>3, <2>4, <2>5, <2>6
  <2>9. frozen_bytes' = frozen_bytes - Cardinality(content[a])
    BY <2>4, <2>5, <2>7, <2>8
  <2>10. frozen_bytes' >= Cardinality(FrozenPairs')
    BY <2>1, <2>8, <2>9
  <2>11. frozen_bytes' + k <= n
    BY <2>4, <2>5, <2>6, <2>9
  <2> QED
    BY <2>10, <2>11 DEF k, n
<1> QED
  BY <1>7, <1>9, <1>10, <1>12, <1>13, <1>14 DEF Held

\* A flushed table goes into the SSTs.
LEMMA BuildStep ==
  ASSUME IInv, NEW t \in Threads, FlushBuild(t), workload' = workload
  PROVE  Held'
<1>a. /\ TypeInv /\ TableInv /\ KeptInv /\ ReaderInv /\ ItemInv /\ CountInv /\ BytesInv
  BY DEF IInv
<1>1. PICK q \in {"size_cur", "idle"} : pc' = [pc EXCEPT ![t] = q]
  BY DEF FlushBuild, FlushReturns, Goto, Return
<1>2. /\ pc[t] = "flush_build" /\ ssts' = ssts \cup content[table[t]]
      /\ UNCHANGED <<current_table, frozen_tables, frozen_bytes, content>>
      /\ UNCHANGED <<table, item, got, known, issued, acked, missed>>
  BY DEF FlushBuild, memory, locals, history
<1>3. \A u \in Threads : pc'[u] = IF u = t THEN q ELSE pc[u]
  BY <1>a, <1>1 DEF TypeInv
<1>4. TableInv'
  BY <1>a, <1>2, <1>3 DEF TableInv
<1>5. \A i : Elsewhere(i) => Elsewhere(i)'
  <2>1. \A i : InFlush(i) => InFlush(i)' \/ i \in ssts'
    BY <1>2, <1>3 DEF InFlush
  <2> QED
    BY <1>2, <2>1 DEF Elsewhere, InFrozen
<1>6. KeptInv' /\ ReaderInv'
  BY <1>a, <1>2, <1>3, <1>5 DEF KeptInv, ReaderInv
<1>7. Underway' = Underway /\ \A u \in Threads : pc'[u] \in Writing <=> pc[u] \in Writing
  BY <1>2, <1>3 DEF Underway, Writing
<1>8. ItemInv' /\ Done' = Done
  BY <1>a, <1>2, <1>7 DEF ItemInv, Done
<1>9. At("put_freeze")' = At("put_freeze") /\ At("flush_take")' = At("flush_take")
  BY <1>2, <1>3 DEF At
<1>10. CountInv' /\ BytesInv'
  BY <1>a, <1>2, <1>8, <1>9 DEF CountInv, BytesInv, FrozenPairs
<1> QED
  BY <1>4, <1>6, <1>8, <1>10 DEF Held

\* A read that is through with the active table has what was there; the rest is in a
\* frozen table, in the hands of a flush, for which it waits at frozen_mtx, or in an SST.
LEMMA GetStep ==
  ASSUME IInv, NEW t \in Threads, GetCur(t) \/ GetFrozen(t) \/ GetSst(t), workload' = workload
  PROVE  Held'
<1>a. /\ TypeInv /\ TableInv /\ KeptInv /\ ReaderInv /\ ItemInv /\ CountInv /\ BytesInv
      /\ LockInv
  BY DEF IInv
<1>1. PICK q \in {"get_frozen", "get_sst", "idle"} : pc' = [pc EXCEPT ![t] = q]
  BY DEF GetCur, GetFrozen, GetSst, GetReturns, Goto, Return
<1>2. /\ pc[t] \in {"get_cur", "get_frozen", "get_sst"}
      /\ UNCHANGED <<current_table, frozen_tables, frozen_bytes, content, ssts>>
      /\ UNCHANGED <<table, item, issued, acked>>
  BY DEF GetCur, GetFrozen, GetSst, GetReturns, memory, locals, history
<1>3. \A u \in Threads : pc'[u] = IF u = t THEN q ELSE pc[u]
  BY <1>a, <1>1 DEF TypeInv
<1>4. TableInv'
  BY <1>a, <1>2, <1>3 DEF TableInv
<1>5. \A i : Elsewhere(i) => Elsewhere(i)'
  BY <1>2, <1>3 DEF Elsewhere, InFrozen, InFlush
<1>6. KeptInv'
  BY <1>a, <1>2, <1>5 DEF KeptInv
<1>7. \A u \in Threads : u # t => got'[u] = got[u] /\ known'[u] = known[u]
  BY <1>a DEF GetCur, GetFrozen, GetSst, GetReturns, TypeInv, locals
<1>8. ReaderInv'
  <2>1. ASSUME GetCur(t)
        PROVE  /\ q = "get_frozen" =>
                    \A i \in known'[t] : i \in got'[t] \/ Elsewhere(i)
               /\ q \in {"get_frozen", "idle"} /\ missed' = {}
    <3>1. PICK found \in SUBSET content[table[t]] :
            /\ table[t] = current_table => found = content[table[t]]
            /\ IF found = Items THEN GetReturns(t, found)
               ELSE /\ got' = [got EXCEPT ![t] = found]
                    /\ Goto(t, "get_frozen")
                    /\ UNCHANGED <<known, history>>
      BY <2>1 DEF GetCur
    <3>2. pc[t] = "get_cur"
      BY <2>1 DEF GetCur
    <3>3. \A i \in known[t] : i \in found \/ Elsewhere(i)
      BY <1>a, <3>1, <3>2 DEF ReaderInv
    <3>4. CASE found = Items
      <4>1. known[t] \ found = {}
        BY <1>a, <3>4 DEF TypeInv
      <4>2. GetReturns(t, found)
        BY <3>1, <3>4
      <4> QED
        BY <1>a, <1>1, <4>1, <4>2 DEF GetReturns, Return, TypeInv, ReaderInv
    <3>5. CASE found # Items
      <4>1. /\ got' = [got EXCEPT ![t] = found] /\ Goto(t, "get_frozen")
            /\ UNCHANGED <<known, history>>
        BY <3>1, <3>5
      <4> QED
        BY <1>a, <1>1, <3>3, <4>1 DEF Goto, history, TypeInv, ReaderInv
    <3> QED
      BY <3>4, <3>5
  <2>2. ASSUME GetFrozen(t)
        PROVE  known'[t] \subseteq got'[t] \cup ssts /\ q = "get_sst" /\ missed' = {}
    <3>1. /\ pc[t] = "get_frozen" /\ got'[t] = got[t] \cup FrozenItems
          /\ known' = known /\ missed' = missed /\ CanShare("frozen")
      BY <1>a, <2>2 DEF GetFrozen, TypeInv, history
    <3>2. \A i : InFrozen(i) => i \in FrozenItems
      BY DEF InFrozen, FrozenItems
    <3>3. \A i : ~ InFlush(i)
      <4>1. \A u \in Threads : pc[u] \notin Exclusive("frozen")
        BY <1>a, <3>1, FreeMutexes DEF Mutexes
      <4> QED
        BY <4>1, WhoLocks DEF InFlush
    <3>4. known[t] \subseteq got'[t] \cup ssts
      BY <1>a, <3>1, <3>2, <3>3 DEF ReaderInv, Elsewhere
    <3> QED
      BY <1>a, <1>1, <2>2, <3>1, <3>4 DEF GetFrozen, Goto, TypeInv, ReaderInv
  <2>3. ASSUME GetSst(t)
        PROVE  q = "idle" /\ missed' = {}
    <3>1. known[t] \ (got[t] \cup ssts) = {}
      BY <1>a, <2>3 DEF GetSst, ReaderInv
    <3> QED
      BY <1>a, <1>1, <2>3, <3>1 DEF GetSst, GetReturns, Return, TypeInv, ReaderInv
  <2>4. /\ missed' = {}
        /\ q = "get_frozen" => \A i \in known'[t] : i \in got'[t] \/ Elsewhere(i)
        /\ q = "get_sst" => known'[t] \subseteq got'[t] \cup ssts
    BY <2>1, <2>2, <2>3
  <2> QED
    BY <1>a, <1>2, <1>3, <1>5, <1>7, <2>4 DEF ReaderInv
<1>9. Underway' = Underway /\ \A u \in Threads : pc'[u] \in Writing <=> pc[u] \in Writing
  BY <1>2, <1>3 DEF Underway, Writing
<1>10. ItemInv' /\ Done' = Done
  BY <1>a, <1>2, <1>9 DEF ItemInv, Done
<1>11. At("put_freeze")' = At("put_freeze") /\ At("flush_take")' = At("flush_take")
  BY <1>2, <1>3 DEF At
<1>12. CountInv' /\ BytesInv'
  BY <1>a, <1>2, <1>10, <1>11 DEF CountInv, BytesInv, FrozenPairs
<1> QED
  BY <1>4, <1>6, <1>8, <1>10, <1>12 DEF Held

\* clear empties the memtable under both mutexes, and the SSTs after that: with either
\* step nothing has to be kept or found any more.
LEMMA ClearStep ==
  ASSUME IInv, NEW t \in Threads, ClearTables(t) \/ ClearSsts(t), workload' = workload
  PROVE  Held'
<1>a. /\ TypeInv /\ LockInv /\ TableInv /\ ReaderInv /\ ItemInv /\ CountInv /\ BytesInv
  BY DEF IInv
<1> DEFINE q == IF pc[t] = "clear_frozen" THEN "clear_ssts" ELSE "idle"
<1>1. /\ pc[t] \in {"clear_frozen", "clear_ssts"} /\ pc' = [pc EXCEPT ![t] = q]
      /\ acked' = {} /\ \A u \in Threads : known'[u] = {}
      /\ UNCHANGED <<current_table, frozen_bytes, table, item, issued, missed>>
  BY DEF ClearTables, ClearSsts, Goto, Return, memory
<1>2. \A u \in Threads : pc'[u] = IF u = t THEN q ELSE pc[u]
  BY <1>a, <1>1 DEF TypeInv
<1>3. KeptInv' /\ ReaderInv'
  BY <1>a, <1>1 DEF KeptInv, ReaderInv
<1>4. Underway' = Underway /\ \A u \in Threads : pc'[u] \in Writing <=> pc[u] \in Writing
  BY <1>1, <1>2 DEF Underway, Writing
<1>5. ItemInv' /\ Done' = Done
  BY <1>a, <1>1, <1>4 DEF ItemInv, Done
<1>6. /\ At("put_freeze")' = At("put_freeze") /\ At("flush_take")' = At("flush_take")
      /\ At("put_freeze") \in {0, 1} /\ At("flush_take") \in {0, 1}
  BY <1>1, <1>2 DEF At
<1>7. /\ Len(frozen_tables) + At("put_freeze") <= Cardinality(Done) + At("flush_take")
      /\ Len(frozen_tables) \in Nat /\ Cardinality(Done) \in Nat
  BY <1>a, DoneIsFinite DEF CountInv, TypeInv
<1>8. CASE ClearTables(t)
  <2>1. frozen_tables' = << >> /\ CanLock("frozen")
    BY <1>8 DEF ClearTables
  <2>2. Range(frozen_tables') = {} /\ DOMAIN frozen_tables' = {} /\ Len(frozen_tables') = 0
    BY <2>1 DEF Range
  <2>3. content'[current_table'] = {}
    BY <1>8, <1>a DEF ClearTables, TypeInv
  <2>4. \A u \in Threads : pc'[u] \notin {"flush_take", "flush_build"}
    <3>1. \A u \in Threads : pc[u] \notin Exclusive("frozen")
      BY <1>a, <2>1, FreeMutexes DEF Mutexes
    <3> QED
      BY <1>2, <3>1, WhoLocks
  <2>5. TableInv'
    BY <1>a, <1>1, <1>2, <2>2, <2>4 DEF TableInv
  <2>6. CountInv'
    BY <1>5, <1>6, <1>7, <2>2 DEF CountInv
  <2>7. BytesInv'
    <3> SUFFICES ASSUME Disciplined(workload)
                 PROVE  /\ frozen_bytes >= Cardinality(FrozenPairs')
                        /\ frozen_bytes + Cardinality(content'[current_table']) <= Cardinality(Done)
      BY <1>1, <1>5 DEF BytesInv
    <3>1. FrozenPairs' = {} /\ Cardinality({}) = 0
      BY <2>2, FS_EmptySet DEF FrozenPairs
    <3> DEFINE k == Cardinality(content[current_table])
    <3>2. frozen_bytes \in Nat /\ k \in Nat /\ frozen_bytes + k <= Cardinality(Done)
      BY <1>a, TotalIsBounded DEF BytesInv
    <3> HIDE DEF k
    <3>3. frozen_bytes >= 0 /\ frozen_bytes + 0 <= Cardinality(Done)
      BY <1>7, <3>2
    <3> QED
      BY <2>3, <3>1, <3>3
  <2> QED
    BY <1>3, <1>5, <2>5, <2>6, <2>7 DEF Held
<1>9. CASE ClearSsts(t)
  <2>1. UNCHANGED <<frozen_tables, content>>
    BY <1>9 DEF ClearSsts, memory
  <2>2. TableInv'
    BY <1>a, <1>1, <1>2, <2>1 DEF TableInv
  <2>3. CountInv' /\ BytesInv'
    BY <1>a, <1>1, <1>5, <1>6, <2>1 DEF CountInv, BytesInv, FrozenPairs
  <2> QED
    BY <1>3, <1>5, <2>2, <2>3 DEF Held
<1> QED
  BY <1>8, <1>9

\* The steps that only lock and load.
LEMMA LockingStep ==
  ASSUME IInv, NEW t \in Threads, workload' = workload,
         \/ PutLock(t) \/ SizeCur(t) \/ SizeFrozen(t) \/ FlushSize(t) \/ FlushLock(t)
         \/ FlushNothing(t) \/ CommitLockFrozen(t) \/ CommitLockCur(t) \/ CommitCheck(t)
         \/ GetLockCur(t) \/ ClearLockCur(t)
  PROVE  Held'
<1>a. TypeInv /\ TableInv
  BY DEF IInv
<1>1. /\ UNCHANGED <<memory, ssts, item, got, known, history>>
      /\ table' = table \/ table' = [table EXCEPT ![t] = current_table]
  BY DEF PutLock, SizeCur, SizeFrozen, FlushSize, FlushLock, FlushNothing, CommitLockFrozen,
     CommitLockCur, CommitCheck, GetLockCur, ClearLockCur, locals
<1>2. PICK q : /\ pc' = [pc EXCEPT ![t] = q]
               /\ \/ pc[t] = "put" /\ q = "put_insert"
                  \/ pc[t] = "size_cur" /\ q = "size_frozen"
                  \/ pc[t] = "flush" /\ q = "flush_size"
                  \/ pc[t] = "size_frozen" /\ q \in {"flush", "idle"}
                  \/ pc[t] = "flush_size" /\ q \in {"flush_lock", "size_cur", "idle"}
                  \/ pc[t] = "flush_lock" /\ q = "flush_last"
                  \/ pc[t] = "flush_last" /\ q \in {"size_cur", "idle"}
                  \/ pc[t] = "commit" /\ q = "commit_cur"
                  \/ pc[t] = "commit_cur" /\ q \in {"commit_check", "commit_apply"}
                  \/ pc[t] = "commit_check" /\ q = "commit_apply"
                  \/ pc[t] = "get" /\ q = "get_cur"
                  \/ pc[t] = "clear" /\ q = "clear_frozen"
  BY DEF PutLock, SizeCur, SizeFrozen, FlushSize, FlushLock, FlushNothing, FlushReturns,
     CommitLockFrozen, CommitLockCur, CommitCheck, GetLockCur, ClearLockCur, Goto, Return
<1>3. q \in {"put_insert", "get_cur", "commit_check", "commit_apply"} => table'[t] = current_table
  <2>1. CASE PutLock(t) \/ CommitLockCur(t) \/ GetLockCur(t)
    BY <1>a, <2>1 DEF PutLock, CommitLockCur, GetLockCur, TypeInv
  <2>2. CASE CommitCheck(t)
    BY <1>a, <2>2 DEF CommitCheck, TableInv, locals
  <2>3. CASE \/ SizeCur(t) \/ SizeFrozen(t) \/ FlushSize(t) \/ FlushLock(t) \/ FlushNothing(t)
             \/ CommitLockFrozen(t) \/ ClearLockCur(t)
    <3>1. pc[t] \in {"size_cur", "flush", "size_frozen", "flush_size", "flush_lock", "flush_last",
                     "commit", "clear"}
      BY <2>3 DEF SizeCur, SizeFrozen, FlushSize, FlushLock, FlushNothing, CommitLockFrozen,
         ClearLockCur
    <3> QED
      BY <1>2, <3>1
  <2> QED
    BY <2>1, <2>2, <2>3
<1>4. Plain(pc[t], q)
  BY <1>2 DEF Plain, Writing
<1>5. Quiet(t, q)
  BY <1>1, <1>2 DEF Quiet
<1> QED
  BY <1>3, <1>4, <1>5, QuietStep

\* Both writes are steps of that kind; nobody replaces the table of a commit in between.
LEMMA WritingStep ==
  ASSUME IInv, NEW t \in Threads, PutInsert(t) \/ CommitApply(t), workload' = workload
  PROVE  Held'
<1>1. PICK q \in {"put_freeze", "size_cur", "idle"} : pc' = [pc EXCEPT ![t] = q]
  BY DEF PutInsert, CommitApply, Goto, Return
<1>2. pc[t] \in {"put_insert", "commit_apply"}
  BY DEF PutInsert, CommitApply
<1>3. CommitApply(t) => table[t] = current_table
  BY DEF IInv, TableInv, CommitApply
<1>4. Written(t, q)
  BY <1>1, <1>3 DEF Written, PutInsert, CommitApply
<1> QED
  BY <1>1, <1>2, <1>4, WriteStep

-----------------------------------------------------------------------------
\* The theorems.

\* The invariant holds at the start,
LEMMA InitHolds == Init => IInv
<1> SUFFICES ASSUME Init
             PROVE  IInv
  OBVIOUS
<1>1. 1 \in Addresses
  <2>1. Cardinality(Threads) \in Nat /\ Cardinality(Items) \in Nat
    BY FS_CardinalityType, MemTableParameters
  <2> QED
    BY <2>1 DEF Addresses
<1>2. (CHOOSE i \in Items : TRUE) \in Items
  BY MemTableParameters
<1>3. << >> \in Seq(Addresses) /\ Range(<< >>) = {} /\ DOMAIN << >> = {} /\ Len(<< >>) = 0
  BY DEF Range
<1>4. TypeInv
  BY <1>1, <1>2, <1>3 DEF Init, TypeInv, AllSteps
<1>5. CallInv
  BY StepsOf DEF Init, CallInv, Flushing
<1>6. LockInv
  <2>1. \A m \in Mutexes : "idle" \notin Exclusive(m) \cup Shared(m)
    BY WhoLocks DEF Mutexes
  <2> QED
    BY <2>1 DEF Init, LockInv
<1>7. TableInv
  BY <1>3 DEF Init, TableInv
<1>8. KeptInv /\ ReaderInv
  BY DEF Init, KeptInv, ReaderInv
<1>9. Underway = {} /\ ItemInv /\ Done = {}
  BY DEF Init, Underway, ItemInv, Writing, Done
<1>10. Cardinality({}) = 0
  BY FS_EmptySet
<1>11. BytesInv
  <2>1. FrozenPairs = {} /\ content[current_table] = {} /\ frozen_bytes = 0
    BY <1>1, <1>3 DEF Init, FrozenPairs
  <2> QED
    BY <1>9, <1>10, <2>1 DEF BytesInv
<1>12. CountInv
  <2>1. At("put_freeze") = 0 /\ At("flush_take") = 0
    BY DEF Init, At
  <2> QED
    BY <1>3, <1>9, <1>10, <2>1 DEF CountInv, Init
<1> QED
  BY <1>4, <1>5, <1>6, <1>7, <1>8, <1>9, <1>11, <1>12 DEF IInv

\* and every step keeps it.
LEMMA StepHolds == IInv /\ [Next]_vars => IInv'
<1> SUFFICES ASSUME IInv, [Next]_vars
             PROVE  IInv'
  OBVIOUS
<1>1. CASE Next
  <2>1. TypeInv' /\ CallInv' /\ LockInv'
    BY <1>1, TypeStep, ControlStep
  <2>2. Held'
    <3>1. PICK t \in Threads : Start(t) \/ Step(t)
      BY <1>1 DEF Next
    <3>2. CASE FlushFreeze(t) /\ workload' = workload
      <4>1. FreezeCurrent \/ UNCHANGED memory
        BY <3>2 DEF FlushFreeze
      <4> QED
        BY <3>2, <4>1, FreezeStep, LockFrozenStep
    <3>3. CASE PutFreeze(t) /\ workload' = workload
      <4>1. FreezeCurrent
        BY <3>3 DEF PutFreeze
      <4> QED
        BY <3>3, <4>1, FreezeStep
    <3> QED
      BY <3>1, <3>2, <3>3, StartStep, LockingStep, WritingStep, TakeStep, BuildStep, GetStep,
         ClearStep DEF Step
  <2> QED
    BY <2>1, <2>2 DEF IInv, Held
<1>2. CASE UNCHANGED vars
  <2>1. /\ UNCHANGED <<workload, lock, current_table, frozen_tables, frozen_bytes, content, ssts>>
        /\ UNCHANGED <<op, pc, table, item, got, known, issued, acked, missed>>
    BY <1>2 DEF vars, memory, locals, history
  <2>2. TypeInv' /\ CallInv' /\ LockInv' /\ TableInv'
    BY <2>1 DEF IInv, TypeInv, CallInv, LockInv, TableInv
  <2>3. KeptInv' /\ ReaderInv'
    BY <2>1 DEF IInv, KeptInv, ReaderInv, InFrozen, InFlush, Elsewhere
  <2>4. ItemInv' /\ CountInv' /\ BytesInv'
    BY <2>1 DEF IInv, ItemInv, CountInv, BytesInv, Underway, Done, At, FrozenPairs
  <2> QED
    BY <2>2, <2>3, <2>4 DEF IInv
<1> QED
  BY <1>1, <1>2

\* The inductive invariant of the memtable: mutexes, tables, reads and sizes fit
\* together at every step of puts, commits, gets, flushes and clears.
THEOREM Invariance == Spec => []IInv
BY InitHolds, StepHolds, PTL DEF Spec

\* Every variable keeps its type; in particular there is always an address for the
\* next table.
THEOREM TypeCorrect == Spec => []TypeInv
<1>1. IInv => TypeInv
  BY DEF IInv
<1> QED
  BY <1>1, Invariance, PTL

\* Whatever the threads do, also puts and gets beside a flush, an item that a commit
\* wrote, or a put into the table that was still the active one, is in the active table, a
\* frozen one, the table being flushed or an SST: neither the freezing of put nor
\* flush_last, which replaces current_table under frozen_mtx alone, loses it.
THEOREM WritesAreKept == Spec => []AckedKept
<1>1. IInv => AckedKept
  BY DEF IInv, KeptInv, AckedKept, BeingFlushed, FrozenItems, InFrozen, InFlush, Elsewhere
<1> QED
  BY <1>1, Invariance, PTL

\* get, which looks into the active table, the frozen tables and the SSTs one after
\* the other with a mutex of its own for each, misses nothing that was there when it
\* began, even if a flush replaces and frees the table it is reading.
THEOREM ReadsFindAll == Spec => []ReadersMissNothing
<1>1. IInv => ReadersMissNothing
  BY DEF IInv, ReaderInv, ReadersMissNothing
<1> QED
  BY <1>1, Invariance, PTL

\* In a disciplined workload frozen_bytes, which flush_last and frozen_cur_table_ update
\* apart from each other, covers the frozen tables and does not wrap around:
\* get_total_size, by which flush_all decides to stop, never calls a memtable empty that is
\* not.
THEOREM SizeNeverLies == Spec => []FrozenBytesCovered
<1>1. IInv => FrozenBytesCovered
  <2> SUFFICES ASSUME IInv, Disciplined(workload)
               PROVE  /\ frozen_bytes >= Cardinality(FrozenPairs)
                      /\ frozen_bytes <= Cardinality(issued)
    BY DEF FrozenBytesCovered
  <2> DEFINE k == Cardinality(content[current_table])
             n == Cardinality(Done)
  <2>1. frozen_bytes \in Nat /\ k \in Nat /\ n \in Nat /\ frozen_bytes + k <= n
    BY TotalIsBounded DEF IInv, BytesInv
  <2>2. frozen_bytes >= Cardinality(FrozenPairs)
    BY DEF IInv, BytesInv
  <2>3. IsFiniteSet(issued) /\ Done \subseteq issued
    BY FS_Subset, MemTableParameters DEF IInv, TypeInv, Done
  <2>4. n <= Cardinality(issued) /\ Cardinality(issued) \in Nat
    BY <2>3, FS_Subset, FS_CardinalityType
  <2> HIDE DEF k, n
  <2>5. frozen_bytes <= Cardinality(issued)
    BY <2>1, <2>4
  <2> QED
    BY <2>2, <2>5
<1> QED
  BY <1>1, Invariance, PTL
=============================================================================
