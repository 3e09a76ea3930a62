------------------------- MODULE TransactionsProofs -------------------------
(***************************************************************************)
(* Proofs about Transactions, for every set of keys and values, every mix  *)
(* of writers and every number of ids and writes.                          *)
(***************************************************************************)
EXTENDS Transactions, TLAPS, SequenceTheorems, WellFoundedInduction

VersionsBy(writers) == [value : Stored, tranc_id : writers]
Versions == VersionsBy(Ids)
Answers == Versions \cup {None}

Contexts ==
  [state : {"none", "active", "committed", "aborted"},
   level : {"RU", "RC", "RR", "SER"},
   temp : [Keys -> Stored \cup {None}],
   reads : [Keys -> Seq(Answers)],
   rollback : [Keys -> Seq(Answers)],
   writes : [Keys -> Nat]]

-----------------------------------------------------------------------------
\* Numbers and versions.

\* The lowest number of a nonempty set is in it and below the others.
LEMMA MinIsLeast ==
  ASSUME NEW S \in SUBSET Nat, S # {}
  PROVE  Min(S) \in S /\ \A n \in S : Min(S) <= n
<1>1. PICK x \in S : \A y \in S : ~ (<<y, x>> \in OpToRel(<, Nat))
  BY NatLessThanWellFounded, WFMin
<1>2. \A y \in S : ~ (y < x)
  BY <1>1 DEF OpToRel
<1>3. \A y \in S : x <= y
  BY <1>2
<1> QED
  BY <1>3 DEF Min

\* A nonempty set of numbers up to n has a highest one.
LEMMA HighestExists ==
  ASSUME NEW n \in Nat, NEW S \in SUBSET (0..n), S # {}
  PROVE  \E m \in S : \A k \in S : m >= k
<1> DEFINE D == {n - k : k \in S}
<1>1. D \in SUBSET Nat /\ D # {}
  <2>1. \A k \in S : n - k \in Nat
    OBVIOUS
  <2> QED
    BY <2>1
<1>2. Min(D) \in D /\ \A d \in D : Min(D) <= d
  BY <1>1, MinIsLeast
<1>3. PICK m \in S : Min(D) = n - m
  BY <1>2
<1>4. \A k \in S : n - m <= n - k
  BY <1>2, <1>3
<1> QED
  BY <1>4

\* Prepend puts the version in front, over the versions that were there.
LEMMA PrependProperties ==
  ASSUME NEW S, NEW versions \in Seq(S), NEW version \in S
  PROVE  /\ Prepend(versions, version) \in Seq(S)
         /\ Prepend(versions, version) # << >>
         /\ Prepend(versions, version)[1] = version
<1>1. CASE versions # << >>
  <2>1. Tail(versions) \in Seq(S)
    BY <1>1
  <2> QED
    BY <2>1 DEF Prepend
<1>2. CASE versions = << >>
  BY <1>2 DEF Prepend
<1> QED
  BY <1>1, <1>2

\* What t sees is one of the versions or nothing.
LEMMA NewestIsStored ==
  ASSUME NEW S, NEW versions \in Seq(S), NEW t
  PROVE  Newest(versions, t) \in S \cup {None}
<1> DEFINE seen == {i \in DOMAIN versions : Visible(versions[i], t)}
<1>1. seen \in SUBSET Nat /\ seen \subseteq DOMAIN versions
  OBVIOUS
<1>2. CASE seen = {}
  BY <1>2 DEF Newest
<1>3. CASE seen # {}
  <2>1. Min(seen) \in DOMAIN versions
    BY <1>1, <1>3, MinIsLeast
  <2>2. versions[Min(seen)] \in S
    BY <2>1
  <2> QED
    BY <1>3, <2>2 DEF Newest
<1> QED
  BY <1>2, <1>3

\* Id 0 sees the version in front.
LEMMA NewestIsFirst ==
  ASSUME NEW S, NEW versions \in Seq(S)
  PROVE  Newest(versions, 0) = IF versions = << >> THEN None ELSE versions[1]
<1> DEFINE seen == {i \in DOMAIN versions : Visible(versions[i], 0)}
<1>1. seen = 1..Len(versions)
  BY DEF Visible
<1>2. Newest(versions, 0) = IF seen = {} THEN None ELSE versions[Min(seen)]
  BY DEF Newest
<1> HIDE DEF seen
<1>3. CASE versions = << >>
  BY <1>1, <1>2, <1>3
<1>4. CASE versions # << >>
  <2>1. 1 \in seen /\ seen \in SUBSET Nat
    BY <1>1, <1>4
  <2>2. Min(seen) \in seen /\ Min(seen) <= 1
    BY <2>1, MinIsLeast
  <2>3. Min(seen) = 1
    BY <1>1, <2>2
  <2> QED
    BY <1>2, <1>4, <2>1, <2>3
<1> QED
  BY <1>3, <1>4

-----------------------------------------------------------------------------
\* Types.

TypeInv ==
  /\ mix \in Mixes
  /\ next_id \in Nat \ {0}
  /\ mem \in [Keys -> Seq(Versions)]
  /\ sst \in [Keys -> Seq(Versions)]
  /\ marks \subseteq Ids
  /\ max_flushed \in 0..MaxId
  /\ ctx \in [Ids -> Contexts]
  /\ plain \subseteq Ids
  /\ saved \in [Ids -> [Keys -> Seq(Answers)]]

\* What the engine answers is a version that is not a tombstone, or nothing.
LEMMA EngineGetType ==
  TypeInv => \A key \in Keys, t \in Nat :
               /\ EngineGet(key, t) \in Answers
               /\ EngineGet(key, t) # None => EngineGet(key, t).value # Deleted
<1> SUFFICES ASSUME TypeInv, NEW key \in Keys, NEW t \in Nat
             PROVE  /\ EngineGet(key, t) \in Answers
                    /\ EngineGet(key, t) # None => EngineGet(key, t).value # Deleted
  OBVIOUS
<1>1. mem[key] \in Seq(Versions) /\ sst[key] \in Seq(Versions)
  BY DEF TypeInv
<1>2. Newest(sst[key], t) \in Versions \cup {None}
  BY <1>1, NewestIsStored
<1>3. mem[key] # << >> => mem[key][1] \in Versions
  BY <1>1
<1>4. Found(key, t) \in Versions \cup {None}
  BY <1>2, <1>3 DEF Found
<1> QED
  BY <1>4 DEF EngineGet, Record, Answers

\* What stands in front stays there when something is put behind it.
LEMMA FrontStays ==
  ASSUME NEW S, NEW front \in Seq(S), NEW back \in Seq(S), front # << >>
  PROVE  front \o back # << >> /\ (front \o back)[1] = front[1]
<1>1. Len(front) \in Nat /\ Len(front) # 0 /\ Len(back) \in Nat
  OBVIOUS
<1>2. /\ front \o back \in Seq(S) /\ Len(front \o back) = Len(front) + Len(back)
      /\ \A i \in 1..Len(front) : (front \o back)[i] = front[i]
  OBVIOUS
<1>3. Len(front \o back) # 0 /\ 1 \in 1..Len(front)
  BY <1>1, <1>2
<1>4. Len(<< >>) = 0
  OBVIOUS
<1> QED
  BY <1>2, <1>3, <1>4

\* Without a transaction the engine finds the version in front.
LEMMA LatestFound ==
  ASSUME NEW key \in Keys, mem[key] \in Seq(Versions), sst[key] \in Seq(Versions)
  PROVE  Found(key, 0) = Newest(mem[key] \o sst[key], 0)
<1>1. mem[key] \o sst[key] \in Seq(Versions)
  OBVIOUS
<1>2. Newest(mem[key] \o sst[key], 0) =
        IF mem[key] \o sst[key] = << >> THEN None ELSE (mem[key] \o sst[key])[1]
  BY <1>1, NewestIsFirst
<1>3. CASE mem[key] = << >>
  <2>1. mem[key] \o sst[key] = sst[key]
    BY <1>3, ConcatEmptySeq
  <2> QED
    BY <1>3, <2>1 DEF Found
<1>4. CASE mem[key] # << >>
  <2>1. mem[key] \o sst[key] # << >> /\ (mem[key] \o sst[key])[1] = mem[key][1]
    BY <1>4, FrontStays
  <2> QED
    BY <1>2, <1>4, <2>1 DEF Found, Visible
<1> QED
  BY <1>3, <1>4

\* A disturbed history has the type of the history.
LEMMA DisturbType ==
  TypeInv => \A t, touched : Disturb(t, touched) \in [Ids -> [Keys -> Seq(Answers)]]
BY DEF TypeInv, Disturb

\* An id without a transaction has a context of the right type.
LEMMA NoContextType ==
  /\ NoContext \in Contexts
  /\ \A state \in {"none", "active", "committed", "aborted"} :
       [NoContext EXCEPT !.state = state] \in Contexts
  /\ \A level \in {"RU", "RC", "RR", "SER"} :
       [NoContext EXCEPT !.state = "active", !.level = level] \in Contexts
<1>1. /\ [key \in Keys |-> None] \in [Keys -> Stored \cup {None}]
      /\ [key \in Keys |-> << >>] \in [Keys -> Seq(Answers)]
      /\ [key \in Keys |-> 0] \in [Keys -> Nat]
  OBVIOUS
<1>2. NoContext \in Contexts
  BY <1>1 DEF NoContext, Contexts
<1> QED
  BY <1>2 DEF Contexts

\* A finished transaction's context has the type of a context.
LEMMA CloseType ==
  ASSUME TypeInv, NEW t \in Ids, NEW state \in {"committed", "aborted"}, Close(t, state)
  PROVE  ctx' \in [Ids -> Contexts]
<1>1. [NoContext EXCEPT !.state = state] \in Contexts
  BY NoContextType
<1> QED
  BY <1>1 DEF TypeInv, Close

\* The engine's put keeps the type of the memtable.
LEMMA EnginePutType ==
  ASSUME TypeInv, NEW key \in Keys, NEW version \in Versions, EnginePut(key, version)
  PROVE  mem' \in [Keys -> Seq(Versions)]
<1>1. Prepend(mem[key], version) \in Seq(Versions)
  BY PrependProperties DEF TypeInv
<1> QED
  BY <1>1 DEF TypeInv, EnginePut

\* A mix names keys and writers of the system.
LEMMA MixType ==
  TypeInv => mix.keys \subseteq Keys /\ mix.writers \subseteq {"RU", "RC", "RR", "SER", "plain"}
BY TransactionParameters DEF TypeInv

\* The types hold at the start.
LEMMA InitTyped == Init => TypeInv
BY NoContextType, TransactionParameters DEF Init, TypeInv, Ids

\* Every step keeps the types.
LEMMA TypeStep == TypeInv /\ Next => TypeInv'
<1> SUFFICES ASSUME TypeInv, Next
             PROVE  TypeInv'
  OBVIOUS
<1>0. MaxId \in Nat /\ Ids \subseteq Nat
  BY TransactionParameters DEF Ids
<1>1. ASSUME NEW level \in mix.writers \ {"plain"}, Begin(level)
      PROVE  TypeInv'
  <2>1. [NoContext EXCEPT !.state = "active", !.level = level] \in Contexts
    BY MixType, NoContextType
  <2> QED
    BY <1>1, <2>1 DEF TypeInv, Begin, engine
<1>2. ASSUME NEW key \in mix.keys, NEW value \in Stored, PlainWrite(key, value)
      PROVE  TypeInv'
  <2>1. key \in Keys
    BY MixType
  <2>2. Version(value, next_id) \in Versions
    BY <1>2 DEF PlainWrite, Version, Versions, VersionsBy
  <2>3. mem' \in [Keys -> Seq(Versions)]
    BY <1>2, <2>1, <2>2, EnginePutType DEF PlainWrite
  <2>4. saved' \in [Ids -> [Keys -> Seq(Answers)]]
    BY <1>2, DisturbType DEF PlainWrite
  <2>5. plain' \subseteq Ids
    BY <1>2 DEF TypeInv, PlainWrite
  <2>6. next_id' \in Nat \ {0}
    BY <1>2 DEF TypeInv, PlainWrite
  <2> QED
    BY <1>2, <2>3, <2>4, <2>5, <2>6 DEF TypeInv, PlainWrite
<1>3. ASSUME NEW t \in Ids, NEW key \in mix.keys, Read(t, key)
      PROVE  TypeInv'
  <2>1. key \in Keys
    BY MixType
  <2>2. <<EngineGet(key, t)>> \in Seq(Answers)
    BY <1>0, <2>1, EngineGetType
  <2>3. ctx[t] \in Contexts
    BY DEF TypeInv
  <2>4. [ctx[t] EXCEPT !.reads[key] = <<EngineGet(key, t)>>] \in Contexts
    BY <2>1, <2>2, <2>3 DEF Contexts
  <2>5. ctx' = [ctx EXCEPT ![t] = [ctx[t] EXCEPT !.reads[key] = <<EngineGet(key, t)>>]]
    BY <1>3, <2>3 DEF Read, Contexts
  <2>6. ctx' \in [Ids -> Contexts]
    BY <2>4, <2>5 DEF TypeInv
  <2> QED
    BY <1>3, <2>6 DEF TypeInv, Read, engine
<1>4. ASSUME NEW t \in Ids, NEW key \in mix.keys, NEW value \in Stored,
             WriteThrough(t, key, value)
      PROVE  TypeInv'
  <2>1. key \in Keys
    BY MixType
  <2>2. <<EngineGet(key, 0)>> \in Seq(Answers)
    BY <1>0, <2>1, EngineGetType
  <2>3. ctx[t] \in Contexts
    BY DEF TypeInv
  <2> DEFINE rollback == [ctx[t].rollback EXCEPT ![key] = <<EngineGet(key, 0)>>]
             writes == [ctx[t].writes EXCEPT ![key] = @ + 1]
  <2>4. [ctx[t] EXCEPT !.rollback = rollback, !.writes = writes] \in Contexts
    <3>1. rollback \in [Keys -> Seq(Answers)]
      BY <2>1, <2>2, <2>3 DEF Contexts
    <3>2. writes \in [Keys -> Nat]
      BY <2>1, <2>3 DEF Contexts
    <3> HIDE DEF rollback, writes
    <3> QED
      BY <2>3, <3>1, <3>2 DEF Contexts
  <2>5. ctx' = [ctx EXCEPT ![t] = [ctx[t] EXCEPT !.rollback = rollback, !.writes = writes]]
    BY <1>4, <2>1, <2>3 DEF WriteThrough, Contexts, TypeInv
  <2>6. ctx' \in [Ids -> Contexts]
    BY <2>4, <2>5 DEF TypeInv
  <2>7. Version(value, t) \in Versions
    BY DEF Version, Versions, VersionsBy
  <2>8. mem' \in [Keys -> Seq(Versions)]
    BY <1>4, <2>1, <2>7, EnginePutType DEF WriteThrough
  <2>9. Disturb(t, {key}) \in [Ids -> [Keys -> Seq(Answers)]]
    BY DisturbType
  <2>10. saved' \in [Ids -> [Keys -> Seq(Answers)]]
    <3> DEFINE before == IF ctx[t].writes[key] = 0 THEN <<EngineGet(key, 0)>> ELSE << >>
               other == Disturb(t, {key})
    <3>1. before \in Seq(Answers)
      BY <2>2
    <3>2. saved' = [other EXCEPT ![t][key] = before]
      BY <1>4 DEF WriteThrough
    <3> HIDE DEF before, other
    <3> QED
      BY <2>1, <2>9, <3>1, <3>2 DEF other
  <2> QED
    BY <1>4, <2>6, <2>8, <2>10 DEF TypeInv, WriteThrough
<1>5. ASSUME NEW t \in Ids, NEW key \in mix.keys, NEW value \in Stored,
             WriteBuffered(t, key, value)
      PROVE  TypeInv'
  <2>1. key \in Keys
    BY MixType
  <2>3. ctx[t] \in Contexts
    BY DEF TypeInv
  <2> DEFINE temp == [ctx[t].temp EXCEPT ![key] = value]
             writes == [ctx[t].writes EXCEPT ![key] = @ + 1]
  <2>4. [ctx[t] EXCEPT !.temp = temp, !.writes = writes] \in Contexts
    <3>1. temp \in [Keys -> Stored \cup {None}]
      BY <2>1, <2>3 DEF Contexts
    <3>2. writes \in [Keys -> Nat]
      BY <2>1, <2>3 DEF Contexts
    <3> HIDE DEF temp, writes
    <3> QED
      BY <2>3, <3>1, <3>2 DEF Contexts
  <2>5. ctx' = [ctx EXCEPT ![t] = [ctx[t] EXCEPT !.temp = temp, !.writes = writes]]
    BY <1>5, <2>1, <2>3 DEF WriteBuffered, Contexts, TypeInv
  <2>6. ctx' \in [Ids -> Contexts]
    BY <2>4, <2>5 DEF TypeInv
  <2> QED
    BY <1>5, <2>6 DEF TypeInv, WriteBuffered, engine
<1>6. ASSUME NEW t \in Ids, CommitRU(t)
      PROVE  TypeInv'
  <2>1. ctx' \in [Ids -> Contexts]
    BY <1>6, CloseType DEF CommitRU
  <2> QED
    BY <1>6, <2>1 DEF TypeInv, CommitRU
<1>7. ASSUME NEW t \in Ids, Commit(t)
      PROVE  TypeInv'
  <2>1. ctx' \in [Ids -> Contexts]
    BY <1>7, CloseType DEF Commit
  <2>2. saved' \in [Ids -> [Keys -> Seq(Answers)]]
    BY <1>7, DisturbType DEF Commit
  <2>3. ASSUME NEW key \in Written(t)
        PROVE  Prepend(mem[key], Version(ctx[t].temp[key], t)) \in Seq(Versions)
    <3>1. ctx[t].temp[key] \in Stored
      BY DEF Written, TypeInv, Contexts
    <3>2. Version(ctx[t].temp[key], t) \in Versions
      BY <3>1 DEF Version, Versions, VersionsBy
    <3>3. mem[key] \in Seq(Versions)
      BY DEF Written, TypeInv
    <3> QED
      BY <3>2, <3>3, PrependProperties
  <2>4. mem' \in [Keys -> Seq(Versions)]
    BY <1>7, <2>3 DEF Commit, TypeInv
  <2> QED
    BY <1>7, <2>1, <2>2, <2>4 DEF TypeInv, Commit
<1>8. ASSUME NEW t \in Ids, CommitRefused(t) \/ AbortBuffered(t)
      PROVE  TypeInv'
  <2>1. ctx' \in [Ids -> Contexts]
    BY <1>8, CloseType DEF CommitRefused, AbortBuffered
  <2> QED
    BY <1>8, <2>1 DEF TypeInv, CommitRefused, AbortBuffered, engine
<1>9. ASSUME NEW t \in Ids, AbortRU(t)
      PROVE  TypeInv'
  <2>1. ctx' \in [Ids -> Contexts]
    BY <1>9, CloseType DEF AbortRU
  <2>2. saved' \in [Ids -> [Keys -> Seq(Answers)]]
    BY <1>9, DisturbType DEF AbortRU
  <2>3. ASSUME NEW key \in Keys
        PROVE  Rollback(t, key) \in Seq(Versions)
    <3>1. mem[key] \in Seq(Versions) /\ ctx[t].rollback[key] \in Seq(Answers)
      BY DEF TypeInv, Contexts
    <3>2. CASE ctx[t].rollback[key] = << >>
      BY <3>1, <3>2 DEF Rollback
    <3>3. CASE ctx[t].rollback[key] # << >>
      <4> DEFINE old == ctx[t].rollback[key][1]
                 back == IF old = None THEN Version(Deleted, t) ELSE old
      <4>1. old \in Answers
        BY <3>1, <3>3
      <4>2. Version(Deleted, t) \in Versions
        BY DEF Version, Versions, VersionsBy, Stored
      <4>3. back \in Versions
        BY <4>1, <4>2 DEF Answers
      <4>4. Rollback(t, key) = Prepend(mem[key], back)
        BY <3>3 DEF Rollback
      <4> HIDE DEF back
      <4> QED
        BY <3>1, <4>3, <4>4, PrependProperties
    <3> QED
      BY <3>2, <3>3
  <2>4. mem' \in [Keys -> Seq(Versions)]
    BY <1>9, <2>3 DEF AbortRU
  <2> QED
    BY <1>9, <2>1, <2>2, <2>4 DEF TypeInv, AbortRU
<1>10. ASSUME Flush
       PROVE  TypeInv'
  <2>1. \E m \in marks \cup {max_flushed} : \A n \in marks \cup {max_flushed} : m >= n
    <3>1. marks \cup {max_flushed} \in SUBSET (0..MaxId)
      BY <1>0 DEF TypeInv, Ids
    <3> QED
      BY <1>0, <3>1, HighestExists
  <2>2. max_flushed' \in marks \cup {max_flushed}
    BY <1>10, <2>1 DEF Flush
  <2>3. max_flushed' \in 0..MaxId
    BY <2>2 DEF TypeInv, Ids
  <2>4. mem' \in [Keys -> Seq(Versions)] /\ sst' \in [Keys -> Seq(Versions)]
    BY <1>10 DEF Flush, TypeInv
  <2> QED
    BY <1>10, <2>3, <2>4 DEF TypeInv, Flush
<1> QED
  BY <1>1, <1>2, <1>3, <1>4, <1>5, <1>6, <1>7, <1>8, <1>9, <1>10 DEF Next

-----------------------------------------------------------------------------
\* Contexts.

\* What one step may do to the context of t: leave it alone, make it, keep it
\* active with its level and with what it has read, or finish it.
ContextMove(t) ==
  \/ ctx'[t] = ctx[t]
  \/ /\ t = next_id /\ next_id' = next_id + 1
     /\ ctx'[t].state = "active" /\ ctx'[t].level \in mix.writers \ {"plain"}
  \/ /\ Active(t) /\ ctx'[t].state = "active" /\ ctx'[t].level = ctx[t].level
     /\ \A key \in Keys :
          ctx[t].reads[key] # << >> => ctx'[t].reads[key] = ctx[t].reads[key]
  \/ Active(t) /\ ctx'[t].state \in {"committed", "aborted"}

\* A finished context is in its final state.
LEMMA CloseMoves ==
  ASSUME TypeInv, NEW s \in Ids, NEW state, Close(s, state)
  PROVE  /\ ctx'[s].state = state
         /\ \A t \in Ids : t # s => ctx'[t] = ctx[t]
BY DEF TypeInv, Close, NoContext

\* Every step moves every context so.
LEMMA ContextStep ==
  TypeInv /\ Next => mix' = mix /\ \A t \in Ids : ContextMove(t)
<1> SUFFICES ASSUME TypeInv, Next
             PROVE  mix' = mix /\ \A t \in Ids : ContextMove(t)
  OBVIOUS
<1>1. ASSUME NEW level \in mix.writers \ {"plain"}, Begin(level)
      PROVE  mix' = mix /\ \A t \in Ids : ContextMove(t)
  <2>1. [NoContext EXCEPT !.state = "active", !.level = level].state = "active"
    BY DEF NoContext
  <2>2. [NoContext EXCEPT !.state = "active", !.level = level].level = level
    BY DEF NoContext
  <2> QED
    BY <1>1, <2>1, <2>2 DEF Begin, ContextMove, TypeInv
<1>2. ASSUME NEW key \in mix.keys, NEW value \in Stored, PlainWrite(key, value)
      PROVE  mix' = mix /\ \A t \in Ids : ContextMove(t)
  BY <1>2 DEF PlainWrite, ContextMove
<1>3. ASSUME NEW s \in Ids, NEW key \in mix.keys, Read(s, key)
      PROVE  mix' = mix /\ \A t \in Ids : ContextMove(t)
  <2>1. ASSUME NEW t \in Ids, t # s
        PROVE  ctx'[t] = ctx[t]
    BY <1>3, <2>1 DEF Read, TypeInv
  <2>2. /\ ctx'[s].state = "active" /\ ctx'[s].level = ctx[s].level
        /\ \A k \in Keys : ctx[s].reads[k] # << >> => ctx'[s].reads[k] = ctx[s].reads[k]
    BY <1>3 DEF Read, TypeInv, Contexts
  <2> QED
    BY <1>3, <2>1, <2>2 DEF Read, ContextMove, Active
<1>4. ASSUME NEW s \in Ids, NEW key \in mix.keys, NEW value \in Stored,
             WriteThrough(s, key, value)
      PROVE  mix' = mix /\ \A t \in Ids : ContextMove(t)
  <2>1. ASSUME NEW t \in Ids, t # s
        PROVE  ctx'[t] = ctx[t]
    BY <1>4, <2>1 DEF WriteThrough, TypeInv
  <2>2. /\ ctx'[s].state = "active" /\ ctx'[s].level = ctx[s].level
        /\ ctx'[s].reads = ctx[s].reads
    BY <1>4 DEF WriteThrough, TypeInv, Contexts
  <2> QED
    BY <1>4, <2>1, <2>2 DEF WriteThrough, ContextMove, Active
<1>5. ASSUME NEW s \in Ids, NEW key \in mix.keys, NEW value \in Stored,
             WriteBuffered(s, key, value)
      PROVE  mix' = mix /\ \A t \in Ids : ContextMove(t)
  <2>1. ASSUME NEW t \in Ids, t # s
        PROVE  ctx'[t] = ctx[t]
    BY <1>5, <2>1 DEF WriteBuffered, TypeInv
  <2>2. /\ ctx'[s].state = "active" /\ ctx'[s].level = ctx[s].level
        /\ ctx'[s].reads = ctx[s].reads
    BY <1>5 DEF WriteBuffered, TypeInv, Contexts
  <2> QED
    BY <1>5, <2>1, <2>2 DEF WriteBuffered, ContextMove, Active
<1>6. ASSUME NEW s \in Ids,
             CommitRU(s) \/ Commit(s) \/ CommitRefused(s) \/ AbortBuffered(s) \/ AbortRU(s)
      PROVE  mix' = mix /\ \A t \in Ids : ContextMove(t)
  <2>1. Active(s) /\ mix' = mix /\ (Close(s, "committed") \/ Close(s, "aborted"))
    BY <1>6 DEF CommitRU, Commit, CommitRefused, AbortBuffered, AbortRU, Active
  <2> QED
    BY <2>1, CloseMoves DEF ContextMove
<1>7. ASSUME Flush
      PROVE  mix' = mix /\ \A t \in Ids : ContextMove(t)
  BY <1>7 DEF Flush, ContextMove
<1> QED
  BY <1>1, <1>2, <1>3, <1>4, <1>5, <1>6, <1>7 DEF Next

\* Ids that were not given out have no context and no history, ids of plain
\* writes have no context, and a context has a level of the mix.
ContextInv ==
  /\ \A t \in Ids : t >= next_id =>
       /\ ctx[t].state = "none" /\ t \notin plain
       /\ \A key \in Keys : saved[t][key] = << >>
  /\ \A t \in plain : ctx[t].state = "none" /\ t < next_id
  /\ \A t \in Ids : Active(t) => ctx[t].level \in mix.writers \ {"plain"}

\* next_id only grows, and plain and saved only change for ids given out.
LEMMA IdStep ==
  TypeInv /\ ContextInv /\ Next =>
    /\ next_id' \in {next_id, next_id + 1}
    /\ plain \subseteq plain'
    /\ \A t \in plain' : t \in plain \/ (t = next_id /\ ctx'[t] = ctx[t] /\ next_id' = next_id + 1)
    /\ \A t \in Ids, key \in Keys :
         t >= next_id => saved'[t][key] = saved[t][key]
<1> SUFFICES ASSUME TypeInv, ContextInv, Next
             PROVE  /\ next_id' \in {next_id, next_id + 1}
                    /\ plain \subseteq plain'
                    /\ \A t \in plain' : t \in plain \/ (t = next_id /\ ctx'[t] = ctx[t] /\ next_id' = next_id + 1)
                    /\ \A t \in Ids, key \in Keys :
                         t >= next_id => saved'[t][key] = saved[t][key]
  OBVIOUS
<1>1. ASSUME NEW s, NEW touched, NEW t \in Ids, NEW key \in Keys, t >= next_id
      PROVE  Disturb(s, touched)[t][key] = saved[t][key]
  BY <1>1 DEF Disturb, ContextInv
<1>2. CASE \E key \in mix.keys, value \in Stored : PlainWrite(key, value)
  BY <1>1, <1>2 DEF PlainWrite, TypeInv
<1>3. ASSUME NEW s \in Ids, NEW k \in mix.keys, NEW value \in Stored, WriteThrough(s, k, value),
             NEW t \in Ids, NEW key \in Keys, t >= next_id
      PROVE  saved'[t][key] = saved[t][key]
  <2>1. t # s
    BY <1>3 DEF WriteThrough, ContextInv
  <2>2. saved'[t] = Disturb(s, {k})[t]
    BY <1>3, <2>1, DisturbType DEF WriteThrough
  <2> QED
    BY <1>1, <1>3, <2>2
<1>4. CASE \E s \in Ids, k \in mix.keys, value \in Stored : WriteThrough(s, k, value)
  BY <1>3, <1>4 DEF WriteThrough
<1>5. CASE \E t \in Ids : Commit(t) \/ AbortRU(t)
  BY <1>1, <1>5 DEF Commit, AbortRU
<1>6. CASE \/ \E level \in mix.writers \ {"plain"} : Begin(level)
           \/ \E t \in Ids, key \in mix.keys :
                Read(t, key) \/ \E value \in Stored : WriteBuffered(t, key, value)
           \/ \E t \in Ids : CommitRU(t) \/ CommitRefused(t) \/ AbortBuffered(t)
           \/ Flush
  BY <1>6 DEF Begin, Read, WriteBuffered, CommitRU, CommitRefused, AbortBuffered, Flush
<1> QED
  BY <1>2, <1>4, <1>5, <1>6 DEF Next

\* No call gives an id away twice, and none changes the level of a transaction.
LEMMA ContextInvStep == TypeInv /\ ContextInv /\ Next => ContextInv'
<1> SUFFICES ASSUME TypeInv, ContextInv, Next
             PROVE  ContextInv'
  OBVIOUS
<1>1. mix' = mix /\ \A t \in Ids : ContextMove(t)
  BY ContextStep
<1>2. /\ next_id' \in {next_id, next_id + 1}
      /\ \A t \in plain' : t \in plain \/ (t = next_id /\ ctx'[t] = ctx[t] /\ next_id' = next_id + 1)
      /\ \A t \in Ids, key \in Keys : t >= next_id => saved'[t][key] = saved[t][key]
  BY IdStep
<1>3. next_id \in Nat /\ plain' \subseteq Ids /\ Ids \subseteq Nat
  BY TypeStep, TransactionParameters DEF TypeInv, Ids
<1>4. ASSUME NEW t \in Ids, t >= next_id'
      PROVE  /\ ctx'[t].state = "none" /\ t \notin plain'
             /\ \A key \in Keys : saved'[t][key] = << >>
  <2>1. t >= next_id /\ (t = next_id => next_id' # next_id + 1)
    BY <1>2, <1>3, <1>4
  <2>2. ctx[t].state = "none" /\ t \notin plain
    BY <2>1 DEF ContextInv
  <2>3. ctx'[t].state = "none"
    BY <1>1, <2>1, <2>2 DEF ContextMove, Active
  <2> QED
    BY <1>2, <2>1, <2>2, <2>3 DEF ContextInv
<1>5. ASSUME NEW t \in plain'
      PROVE  ctx'[t].state = "none" /\ t < next_id'
  <2>1. CASE t \in plain
    <3>1. ctx[t].state = "none" /\ t < next_id /\ t \in Ids
      BY <2>1 DEF ContextInv, TypeInv
    <3> QED
      BY <1>1, <1>2, <1>3, <3>1 DEF ContextMove, Active
  <2>2. CASE t = next_id /\ ctx'[t] = ctx[t] /\ next_id' = next_id + 1
    <3>1. t \in Ids
      BY <1>3
    <3>2. ctx[t].state = "none"
      BY <1>3, <2>2, <3>1 DEF ContextInv
    <3> QED
      BY <1>3, <2>2, <3>2
  <2> QED
    BY <1>2, <2>1, <2>2
<1>6. ASSUME NEW t \in Ids, Active(t)'
      PROVE  ctx'[t].level \in mix'.writers \ {"plain"}
  <2>1. CASE ctx'[t] = ctx[t]
    BY <1>1, <1>6, <2>1 DEF ContextInv, Active
  <2>2. CASE Active(t) /\ ctx'[t].level = ctx[t].level
    BY <1>1, <2>2 DEF ContextInv
  <2> QED
    BY <1>1, <1>6, <2>1, <2>2 DEF ContextMove, Active
<1> QED
  BY <1>4, <1>5, <1>6 DEF ContextInv

\* At the start no id is in use.
LEMMA InitContexts == Init => ContextInv
BY DEF Init, ContextInv, NoContext, Active

-----------------------------------------------------------------------------
\* Who wrote the stored versions.

Settled == {t \in Ids : ctx[t].state = "committed"} \cup plain

\* Without READ_UNCOMMITTED transactions all stored versions are settled.
StoredInv ==
  "RU" \notin mix.writers => /\ mem \in [Keys -> Seq(VersionsBy(Settled))]
                             /\ sst \in [Keys -> Seq(VersionsBy(Settled))]

\* Versions of some writers are versions of more writers.
LEMMA MoreWriters ==
  ASSUME NEW W, NEW X, W \subseteq X
  PROVE  \A versions \in Seq(VersionsBy(W)) : versions \in Seq(VersionsBy(X))
<1>1. VersionsBy(W) \subseteq VersionsBy(X)
  BY DEF VersionsBy
<1> QED
  BY <1>1, SeqMonotonic

\* A settled writer stays settled.
LEMMA SettledStays == TypeInv /\ ContextInv /\ Next => Settled \subseteq Settled'
<1> SUFFICES ASSUME TypeInv, ContextInv, Next, NEW t \in Settled
             PROVE  t \in Settled'
  OBVIOUS
<1>1. CASE t \in plain
  BY <1>1, IdStep DEF Settled
<1>2. CASE t \in Ids /\ ctx[t].state = "committed"
  <2>1. ~ (t >= next_id)
    BY <1>2 DEF ContextInv
  <2>2. t # next_id
    BY <2>1 DEF TypeInv
  <2>3. ctx'[t] = ctx[t]
    BY <1>2, <2>2, ContextStep DEF ContextMove, Active
  <2> QED
    BY <1>2, <2>3 DEF Settled
<1> QED
  BY <1>1, <1>2 DEF Settled

\* Only plain writes, commits and flushes change the tables when no transaction
\* writes through.
LEMMA QuietSteps ==
  ASSUME TypeInv, ContextInv, Next, "RU" \notin mix.writers
  PROVE  \/ mem' = mem /\ sst' = sst /\ marks' = marks /\ max_flushed' = max_flushed
         \/ \E key \in mix.keys, value \in Stored : PlainWrite(key, value)
         \/ \E t \in Ids : Commit(t)
         \/ Flush
<1>1. \A t \in Ids : Active(t) => ctx[t].level # "RU"
  BY DEF ContextInv
<1>2. \A t \in Ids : ~ CommitRU(t) /\ ~ AbortRU(t)
  BY <1>1 DEF CommitRU, AbortRU, Active
<1>3. \A t \in Ids : \A key, value : ~ WriteThrough(t, key, value)
  BY <1>1 DEF WriteThrough, Active
<1>4. CASE \E level \in mix.writers \ {"plain"} : Begin(level)
  BY <1>4 DEF Begin, engine
<1>5. CASE \E t \in Ids, key \in mix.keys :
             Read(t, key) \/ \E value \in Stored : WriteBuffered(t, key, value)
  BY <1>5 DEF Read, WriteBuffered, engine
<1>6. CASE \E t \in Ids : CommitRefused(t) \/ AbortBuffered(t)
  BY <1>6 DEF CommitRefused, AbortBuffered, engine
<1> QED
  BY <1>2, <1>3, <1>4, <1>5, <1>6 DEF Next

\* commit and plain writes settle the ids whose versions they store; flushes and aborts
\* of buffering transactions store none of their own.
LEMMA StoredInvStep == TypeInv /\ ContextInv /\ StoredInv /\ Next => StoredInv'
<1> SUFFICES ASSUME TypeInv, ContextInv, StoredInv, Next, "RU" \notin mix.writers
             PROVE  /\ mem' \in [Keys -> Seq(VersionsBy(Settled'))]
                    /\ sst' \in [Keys -> Seq(VersionsBy(Settled'))]
  BY ContextStep DEF StoredInv, VersionsBy
<1> DEFINE V == VersionsBy(Settled')
<1>1. /\ mem \in [Keys -> Seq(V)]
      /\ sst \in [Keys -> Seq(V)]
  BY SettledStays, MoreWriters DEF StoredInv
<1>2. mem' \in [Keys -> Seq(Versions)]
  BY TypeStep DEF TypeInv
<1>3. CASE mem' = mem /\ sst' = sst
  BY <1>1, <1>3
<1>4. ASSUME NEW key \in mix.keys, NEW value \in Stored, PlainWrite(key, value)
      PROVE  mem' \in [Keys -> Seq(V)] /\ sst' \in [Keys -> Seq(V)]
  <2>1. key \in Keys
    BY MixType
  <2>2. next_id \in Settled'
    BY <1>4 DEF PlainWrite, Settled
  <2>3. Version(value, next_id) \in V
    BY <2>2 DEF Version, VersionsBy
  <2> HIDE DEF V
  <2>4. Prepend(mem[key], Version(value, next_id)) \in Seq(V)
    BY <1>1, <2>1, <2>3, PrependProperties
  <2> QED
    BY <1>1, <1>4, <2>4 DEF PlainWrite, EnginePut
<1>5. ASSUME NEW t \in Ids, Commit(t)
      PROVE  mem' \in [Keys -> Seq(V)] /\ sst' \in [Keys -> Seq(V)]
  <2>1. t \in Settled'
    BY <1>5, CloseMoves DEF Commit, Settled
  <2>2. ASSUME NEW key \in Written(t)
        PROVE  Prepend(mem[key], Version(ctx[t].temp[key], t)) \in Seq(V)
    <3>1. key \in Keys /\ ctx[t].temp[key] \in Stored
      BY DEF Written, TypeInv, Contexts
    <3>2. Version(ctx[t].temp[key], t) \in V
      BY <2>1, <3>1 DEF Version, VersionsBy
    <3> HIDE DEF V
    <3> QED
      BY <1>1, <3>1, <3>2, PrependProperties
  <2> HIDE DEF V
  <2> QED
    BY <1>1, <1>5, <2>2 DEF Commit
<1>6. ASSUME Flush
      PROVE  mem' \in [Keys -> Seq(V)] /\ sst' \in [Keys -> Seq(V)]
  <2> HIDE DEF V
  <2> QED
    BY <1>1, <1>6 DEF Flush
<1> QED
  BY <1>3, <1>4, <1>5, <1>6, QuietSteps

-----------------------------------------------------------------------------
\* The order of the versions.

\* The versions, of which the first n are in the memtable, are in the order of their
\* ids up to flushed deletions.
Decreasing(versions, n) ==
  \A i, j \in DOMAIN versions : i < j =>
    \/ versions[i].tranc_id > versions[j].tranc_id
    \/ \E m \in (i + 1)..j : /\ n < m /\ versions[m].value = Deleted
                             /\ versions[m].tranc_id >= versions[j].tranc_id

Orderly == mix.writers \subseteq {"RR", "SER"}

\* When all writers check for conflicts, the writers in the memtable have their
\* markers there, those in the SSTs are recorded as flushed, and the versions
\* are in the order of their ids up to flushed deletions.
OrderInv ==
  Orderly =>
    /\ mem \in [Keys -> Seq(VersionsBy(marks))]
    /\ sst \in [Keys -> Seq(VersionsBy(1..max_flushed))]
    /\ \A key \in Keys : Decreasing(mem[key] \o sst[key], Len(mem[key]))

\* A version goes in front of an ordered sequence if it is above the first one, or
\* if that is a flushed deletion.
LEMMA DecreasingFront ==
  ASSUME NEW versions \in Seq(Versions), NEW version \in Versions, NEW n \in Nat,
         Decreasing(versions, n),
         versions # << >> => \/ version.tranc_id > versions[1].tranc_id
                             \/ n = 0 /\ versions[1].value = Deleted
  PROVE  Decreasing(<<version>> \o versions, n + 1)
<1> DEFINE all == <<version>> \o versions
           past(i, j) == \E m \in (i + 1)..j :
                           /\ n < m /\ versions[m].value = Deleted
                           /\ versions[m].tranc_id >= versions[j].tranc_id
<1>1. /\ all \in Seq(Versions)
      /\ Len(all) = Len(versions) + 1
      /\ all[1] = version
      /\ \A i \in 2..Len(all) : all[i] = versions[i - 1]
  OBVIOUS
<1>2. \A v \in Versions : v.tranc_id \in Nat
  BY TransactionParameters DEF Versions, VersionsBy, Ids
<1>3. Len(versions) \in Nat /\ DOMAIN versions = 1..Len(versions)
  OBVIOUS
<1>4. \A i \in 1..Len(versions) : versions[i].tranc_id \in Nat
  BY <1>2
<1>5. ASSUME NEW j \in 1..Len(versions)
      PROVE  version.tranc_id > versions[j].tranc_id \/ past(0, j)
  <2>1. versions # << >> /\ 1 \in 1..Len(versions)
    BY <1>3
  <2>2. /\ versions[1].tranc_id \in Nat /\ versions[j].tranc_id \in Nat
        /\ version.tranc_id \in Nat
    BY <1>2, <1>4, <2>1
  <2>3. \/ j = 1 \/ versions[1].tranc_id > versions[j].tranc_id \/ past(1, j)
    BY <1>3, <2>1 DEF Decreasing
  <2>4. CASE past(1, j)
    <3>1. PICK m \in 2..j : /\ n < m /\ versions[m].value = Deleted
                            /\ versions[m].tranc_id >= versions[j].tranc_id
      BY <2>4
    <3>2. m \in (0 + 1)..j
      BY <3>1
    <3> QED
      BY <3>1, <3>2
  <2>5. CASE /\ j = 1 \/ versions[1].tranc_id > versions[j].tranc_id
             /\ version.tranc_id > versions[1].tranc_id
    BY <2>2, <2>5
  <2>6. CASE /\ j = 1 \/ versions[1].tranc_id > versions[j].tranc_id
             /\ n = 0 /\ versions[1].value = Deleted
    <3>1. 1 \in (0 + 1)..j /\ n < 1 /\ versions[1].tranc_id >= versions[j].tranc_id
      BY <2>2, <2>6
    <3> QED
      BY <2>6, <3>1
  <2> QED
    BY <2>1, <2>3, <2>4, <2>5, <2>6
<1> HIDE DEF all
<1>6. ASSUME NEW i \in Nat, NEW j \in 2..Len(all), past(i - 1, j - 1), 1 <= i
      PROVE  \E m \in (i + 1)..j : /\ n + 1 < m /\ all[m].value = Deleted
                                   /\ all[m].tranc_id >= all[j].tranc_id
  <2>1. PICK m \in (i - 1 + 1)..(j - 1) :
          /\ n < m /\ versions[m].value = Deleted
          /\ versions[m].tranc_id >= versions[j - 1].tranc_id
    BY <1>6
  <2>2. m + 1 \in (i + 1)..j /\ m + 1 \in 2..Len(all) /\ n + 1 < m + 1 /\ (m + 1) - 1 = m
    BY <1>1, <1>3, <1>6, <2>1
  <2>3. all[m + 1] = versions[m] /\ all[j] = versions[j - 1]
    BY <1>1, <2>2
  <2> QED
    BY <2>1, <2>2, <2>3
<1>7. ASSUME NEW i \in 1..Len(all), NEW j \in 1..Len(all), i < j
      PROVE  \/ all[i].tranc_id > all[j].tranc_id
             \/ \E m \in (i + 1)..j : /\ n + 1 < m /\ all[m].value = Deleted
                                      /\ all[m].tranc_id >= all[j].tranc_id
  <2>1. j \in 2..Len(all) /\ j - 1 \in 1..Len(versions) /\ i \in Nat /\ 1 <= i
    BY <1>1, <1>3, <1>7
  <2>2. all[j] = versions[j - 1]
    BY <1>1, <2>1
  <2>3. CASE i = 1
    <3>1. version.tranc_id > versions[j - 1].tranc_id \/ past(i - 1, j - 1)
      BY <1>5, <2>1, <2>3
    <3> HIDE DEF past
    <3> QED
      BY <1>1, <1>6, <2>1, <2>2, <2>3, <3>1
  <2>4. CASE i # 1
    <3>1. i \in 2..Len(all) /\ i - 1 \in 1..Len(versions) /\ i - 1 < j - 1
      BY <1>1, <1>3, <1>7, <2>4
    <3>2. versions[i - 1].tranc_id > versions[j - 1].tranc_id \/ past(i - 1, j - 1)
      BY <1>3, <2>1, <3>1 DEF Decreasing
    <3>3. all[i] = versions[i - 1]
      BY <1>1, <3>1
    <3> HIDE DEF past
    <3> QED
      BY <1>6, <2>1, <2>2, <3>2, <3>3
  <2> QED
    BY <2>3, <2>4
<1> QED
  BY <1>1, <1>7 DEF Decreasing, all

\* A transaction that finds no conflict on a key is newer than the version of it
\* that stands in front, or that is a flushed deletion, and the versions stay ordered
\* when it commits.
LEMMA NoConflictNewest ==
  ASSUME TypeInv, ContextInv, StoredInv, OrderInv, Orderly,
         NEW t \in Ids, Active(t), NEW key \in Keys, ~ Conflict(t, key),
         NEW version \in Versions, version.tranc_id = t
  PROVE  Decreasing(Prepend(mem[key], version) \o sst[key], Len(Prepend(mem[key], version)))
<1> DEFINE m == mem[key]
           s == sst[key]
<1>1. m \in Seq(Versions) /\ s \in Seq(Versions)
  BY DEF TypeInv
<1>2. t \notin Settled
  BY DEF Settled, ContextInv, Active
<1>3. m \in Seq(VersionsBy(Settled)) /\ s \in Seq(VersionsBy(Settled))
  BY DEF StoredInv, Orderly
<1>4. s \in Seq(VersionsBy(1..max_flushed)) /\ Decreasing(m \o s, Len(m))
  BY DEF OrderInv
<1>5. m # << >> => m[1].tranc_id \in Ids /\ m[1].tranc_id # t /\ m[1] # None
  <2>1. m # << >> => m[1] \in VersionsBy(Settled) /\ m[1] \in Versions
    BY <1>1, <1>3
  <2> QED
    BY <1>2, <2>1, NoneIsNoRecord DEF VersionsBy, Versions
<1>6. s # << >> => /\ s[1].tranc_id \in Ids /\ s[1].tranc_id # t
                   /\ s[1].tranc_id <= max_flushed /\ s[1] # None
  <2>1. s # << >> => /\ s[1] \in VersionsBy(Settled) /\ s[1] \in Versions
                     /\ s[1] \in VersionsBy(1..max_flushed)
    BY <1>1, <1>3, <1>4
  <2> QED
    BY <1>2, <2>1, NoneIsNoRecord DEF VersionsBy, Versions
<1>7. Ids \subseteq Nat /\ max_flushed \in Nat
  BY TransactionParameters DEF Ids, TypeInv
<1> HIDE DEF m, s
<1>8. m # << >> => t > m[1].tranc_id
  <2>1. Newest(m, 0) = IF m = << >> THEN None ELSE m[1]
    BY <1>1, NewestIsFirst
  <2>2. ~ NewerThan(Newest(m, 0), t)
    BY DEF Conflict, m
  <2>3. m # << >> => ~ (m[1].tranc_id > t)
    BY <1>5, <2>1, <2>2 DEF NewerThan
  <2>4. m # << >> => m[1].tranc_id \in Nat /\ m[1].tranc_id # t
    BY <1>5, <1>7
  <2>5. t \in Nat
    BY <1>7
  <2> QED
    BY <2>3, <2>4, <2>5
<1>9. s # << >> => t > s[1].tranc_id \/ s[1].value = Deleted
  <2>1. Newest(s, 0) = IF s = << >> THEN None ELSE s[1]
    BY <1>1, NewestIsFirst
  <2>2. ~ (max_flushed > t /\ NewerThan(Record(Newest(s, 0)), t))
    BY DEF Conflict, SstGet, s
  <2>3. s # << >> /\ s[1].value # Deleted => ~ (max_flushed > t /\ s[1].tranc_id > t)
    BY <1>6, <2>1, <2>2 DEF NewerThan, Record
  <2>4. s # << >> => /\ s[1].tranc_id \in Nat /\ s[1].tranc_id # t
                     /\ s[1].tranc_id <= max_flushed
    BY <1>6, <1>7
  <2>5. t \in Nat /\ max_flushed \in Nat
    BY <1>7
  <2> QED
    BY <2>3, <2>4, <2>5
<1>10. Prepend(m, version) = <<version>> \o m
  BY <1>5 DEF Prepend
<1>11. Prepend(m, version) \o s = <<version>> \o (m \o s)
  <2>1. <<version>> \in Seq(Versions)
    OBVIOUS
  <2> QED
    BY <1>1, <1>10, <2>1, ConcatAssociative
<1>12. m \o s # << >> => \/ version.tranc_id > (m \o s)[1].tranc_id
                         \/ Len(m) = 0 /\ (m \o s)[1].value = Deleted
  <2>1. CASE m = << >>
    <3>1. m \o s = s /\ Len(m) = 0
      BY <1>1, <2>1, ConcatEmptySeq
    <3> QED
      BY <1>9, <3>1
  <2>2. CASE m # << >>
    <3>1. (m \o s)[1] = m[1]
      BY <1>1, <2>2
    <3> QED
      BY <1>8, <2>2, <3>1
  <2> QED
    BY <2>1, <2>2
<1>13. m \o s \in Seq(Versions) /\ Len(m) \in Nat
  BY <1>1
<1>14. Decreasing(<<version>> \o (m \o s), Len(m) + 1)
  BY <1>4, <1>12, <1>13, DecreasingFront
<1>15. Len(Prepend(m, version)) = Len(m) + 1
  BY <1>1, <1>10
<1> QED
  BY <1>11, <1>14, <1>15 DEF m, s

\* A flush makes more deletions flushed ones.
LEMMA FlushedAll ==
  ASSUME NEW S, NEW versions \in Seq(S), NEW n \in Nat, Decreasing(versions, n)
  PROVE  Decreasing(versions, 0)
<1> SUFFICES ASSUME NEW i \in DOMAIN versions, NEW j \in DOMAIN versions, i < j,
                    ~ (versions[i].tranc_id > versions[j].tranc_id)
             PROVE  \E m \in (i + 1)..j : /\ 0 < m /\ versions[m].value = Deleted
                                          /\ versions[m].tranc_id >= versions[j].tranc_id
  BY DEF Decreasing
<1>1. PICK m \in (i + 1)..j : /\ n < m /\ versions[m].value = Deleted
                              /\ versions[m].tranc_id >= versions[j].tranc_id
  BY DEF Decreasing
<1>2. 0 < m
  BY <1>1
<1> QED
  BY <1>1, <1>2

\* The conflict check of commit keeps the order up to flushed deletions, and so do
\* flushes.
LEMMA OrderInvStep ==
  TypeInv /\ ContextInv /\ StoredInv /\ OrderInv /\ Next => OrderInv'
<1> SUFFICES ASSUME TypeInv, ContextInv, StoredInv, OrderInv, Next, Orderly
             PROVE  /\ mem' \in [Keys -> Seq(VersionsBy(marks'))]
                    /\ sst' \in [Keys -> Seq(VersionsBy(1..max_flushed'))]
                    /\ \A key \in Keys : Decreasing(mem'[key] \o sst'[key], Len(mem'[key]))
  BY ContextStep DEF OrderInv, Orderly, VersionsBy, Decreasing
<1>1. /\ mem \in [Keys -> Seq(VersionsBy(marks))]
      /\ sst \in [Keys -> Seq(VersionsBy(1..max_flushed))]
      /\ \A key \in Keys : Decreasing(mem[key] \o sst[key], Len(mem[key]))
  BY DEF OrderInv
<1>2. CASE mem' = mem /\ sst' = sst /\ marks' = marks /\ max_flushed' = max_flushed
  BY <1>1, <1>2
<1>3. \A key, value : ~ PlainWrite(key, value)
  BY DEF PlainWrite, Orderly
<1>4. ASSUME NEW t \in Ids, Commit(t)
      PROVE  /\ mem' \in [Keys -> Seq(VersionsBy(marks'))]
             /\ sst' \in [Keys -> Seq(VersionsBy(1..max_flushed'))]
             /\ \A key \in Keys : Decreasing(mem'[key] \o sst'[key], Len(mem'[key]))
  <2> DEFINE V == VersionsBy(marks')
  <2>1. t \in marks' /\ marks \subseteq marks'
    BY <1>4 DEF Commit
  <2>2. mem \in [Keys -> Seq(V)]
    BY <1>1, <2>1, MoreWriters
  <2>3. ASSUME NEW key \in Written(t)
        PROVE  /\ Prepend(mem[key], Version(ctx[t].temp[key], t)) \in Seq(V)
               /\ Decreasing(Prepend(mem[key], Version(ctx[t].temp[key], t)) \o sst[key],
                             Len(Prepend(mem[key], Version(ctx[t].temp[key], t))))
    <3> DEFINE version == Version(ctx[t].temp[key], t)
    <3>1. key \in Keys /\ ctx[t].temp[key] \in Stored
      BY DEF Written, TypeInv, Contexts
    <3>2. version \in V /\ version \in Versions /\ version.tranc_id = t
      BY <2>1, <3>1 DEF Version, VersionsBy, Versions
    <3>3. Active(t) /\ ctx[t].level \in {"RR", "SER"}
      BY <1>4 DEF Commit, Active, ContextInv, Orderly
    <3>4. ~ Conflict(t, key)
      BY <1>4, <3>3 DEF Commit, Conflicts
    <3> HIDE DEF V, version
    <3>5. Prepend(mem[key], version) \in Seq(V)
      BY <2>2, <3>1, <3>2, PrependProperties
    <3>6. Decreasing(Prepend(mem[key], version) \o sst[key], Len(Prepend(mem[key], version)))
      BY <3>1, <3>2, <3>3, <3>4, NoConflictNewest
    <3> QED
      BY <3>5, <3>6 DEF version
  <2> HIDE DEF V
  <2>4. mem' \in [Keys -> Seq(V)]
    BY <1>4, <2>2, <2>3 DEF Commit
  <2>5. sst' = sst /\ max_flushed' = max_flushed
    BY <1>4 DEF Commit
  <2>6. \A key \in Keys : Decreasing(mem'[key] \o sst'[key], Len(mem'[key]))
    BY <1>1, <1>4, <2>3, <2>5 DEF Commit
  <2> QED
    BY <1>1, <2>4, <2>5, <2>6 DEF V
<1>5. ASSUME Flush
      PROVE  /\ mem' \in [Keys -> Seq(VersionsBy(marks'))]
             /\ sst' \in [Keys -> Seq(VersionsBy(1..max_flushed'))]
             /\ \A key \in Keys : Decreasing(mem'[key] \o sst'[key], Len(mem'[key]))
  <2> DEFINE V == VersionsBy(1..max_flushed')
  <2>1. MaxId \in Nat /\ marks \cup {max_flushed} \in SUBSET (0..MaxId)
    BY TransactionParameters DEF TypeInv, Ids
  <2>2. \E m \in marks \cup {max_flushed} : \A n \in marks \cup {max_flushed} : m >= n
    BY <2>1, HighestExists
  <2>3. /\ max_flushed' \in marks \cup {max_flushed}
        /\ \A n \in marks \cup {max_flushed} : max_flushed' >= n
    BY <1>5, <2>2 DEF Flush
  <2>4. marks \subseteq 1..max_flushed' /\ 1..max_flushed \subseteq 1..max_flushed'
    <3>1. marks \subseteq 1..MaxId /\ max_flushed \in Nat /\ max_flushed' \in Nat
      BY <2>1, <2>3 DEF TypeInv, Ids
    <3>2. \A n \in marks : n \in 1..max_flushed'
      BY <2>1, <2>3, <3>1
    <3>3. max_flushed <= max_flushed'
      BY <2>3
    <3> QED
      BY <3>1, <3>2, <3>3
  <2>5. mem \in [Keys -> Seq(V)] /\ sst \in [Keys -> Seq(V)]
    BY <1>1, <2>4, MoreWriters
  <2> HIDE DEF V
  <2>6. sst' \in [Keys -> Seq(V)]
    BY <1>5, <2>5 DEF Flush
  <2>7. mem' \in [Keys -> Seq(VersionsBy(marks'))]
    BY <1>5 DEF Flush
  <2>8. ASSUME NEW key \in Keys
        PROVE  mem'[key] \o sst'[key] = mem[key] \o sst[key]
    <3>1. mem'[key] = << >> /\ sst'[key] = mem[key] \o sst[key]
      BY <1>5 DEF Flush
    <3>2. mem[key] \o sst[key] \in Seq(V)
      BY <2>5
    <3> QED
      BY <3>1, <3>2, ConcatEmptySeq
  <2>9. ASSUME NEW key \in Keys
        PROVE  Decreasing(mem'[key] \o sst'[key], Len(mem'[key]))
    <3>1. Len(mem[key]) \in Nat /\ Len(mem'[key]) = 0
      BY <1>1, <1>5 DEF Flush
    <3>2. /\ Decreasing(mem[key] \o sst[key], Len(mem[key]))
          /\ mem[key] \o sst[key] \in Seq(V)
      BY <1>1, <2>5
    <3>3. Decreasing(mem[key] \o sst[key], 0)
      BY <3>1, <3>2, FlushedAll
    <3> QED
      BY <2>8, <3>1, <3>3
  <2> QED
    BY <1>1, <2>6, <2>7, <2>9 DEF V
<1>6. "RU" \notin mix.writers
  BY DEF Orderly
<1> QED
  BY <1>2, <1>3, <1>4, <1>5, <1>6, QuietSteps

-----------------------------------------------------------------------------
\* What abort puts back.

\* An answer of the engine's get: a version that is no tombstone, or nothing.
IsAnswer(answer) == answer \in Answers /\ (answer # None => answer.value # Deleted)

\* A transaction that wrote a key once, undisturbed, keeps in rollback_map_ what
\* get gave before; once it has aborted, get gives that value again.
SavedInv ==
  \A t \in Ids, key \in Keys : saved[t][key] # << >> =>
    /\ IsAnswer(saved[t][key][1])
    /\ Active(t) => ctx[t].level = "RU" /\ ctx[t].rollback[key] = saved[t][key]
    /\ ctx[t].state = "aborted" => ValueOf(EngineGet(key, 0)) = ValueOf(saved[t][key][1])

\* The same for one transaction and one key.
SavedAt(t, key) ==
  saved[t][key] # << >> =>
    /\ IsAnswer(saved[t][key][1])
    /\ Active(t) => ctx[t].level = "RU" /\ ctx[t].rollback[key] = saved[t][key]
    /\ ctx[t].state = "aborted" => ValueOf(EngineGet(key, 0)) = ValueOf(saved[t][key][1])

\* SavedInv is SavedAt for all transactions and keys.
LEMMA SavedParts == SavedInv <=> \A t \in Ids, key \in Keys : SavedAt(t, key)
BY DEF SavedInv, SavedAt

\* The history of a key that is left alone stays right.
LEMMA SavedKept ==
  ASSUME TypeInv, TypeInv', SavedInv, NEW t \in Ids, NEW key \in Keys,
         saved'[t][key] # << >> => saved'[t][key] = saved[t][key],
         ctx'[t] = ctx[t],
         saved'[t][key] # << >> => mem'[key] \o sst'[key] = mem[key] \o sst[key]
  PROVE  SavedAt(t, key)'
<1> SUFFICES ASSUME saved'[t][key] # << >>
             PROVE  SavedAt(t, key)'
  BY DEF SavedAt
<1>1. SavedAt(t, key)
  BY SavedParts
<1>2. EngineGet(key, 0)' = EngineGet(key, 0)
  <2>1. /\ mem[key] \in Seq(Versions) /\ sst[key] \in Seq(Versions)
        /\ mem'[key] \in Seq(Versions) /\ sst'[key] \in Seq(Versions)
    BY DEF TypeInv
  <2>2. Found(key, 0) = Newest(mem[key] \o sst[key], 0)
    BY <2>1, LatestFound
  <2>3. Found(key, 0)' = Newest(mem'[key] \o sst'[key], 0)
    <3>1. Found(key, 0)' = IF mem'[key] # << >> THEN mem'[key][1] ELSE Newest(sst'[key], 0)
      BY DEF Found, Visible, Newest
    <3>0. mem'[key] \o sst'[key] \in Seq(Versions)
      BY <2>1
    <3>2. Newest(mem'[key] \o sst'[key], 0) =
            IF mem'[key] \o sst'[key] = << >> THEN None ELSE (mem'[key] \o sst'[key])[1]
      BY <3>0, NewestIsFirst
    <3>3. Newest(sst'[key], 0) = IF sst'[key] = << >> THEN None ELSE sst'[key][1]
      BY <2>1, NewestIsFirst
    <3>4. CASE mem'[key] = << >>
      BY <2>1, <3>1, <3>4, ConcatEmptySeq
    <3>5. CASE mem'[key] # << >>
      <4>1. /\ mem'[key] \o sst'[key] # << >>
            /\ (mem'[key] \o sst'[key])[1] = mem'[key][1]
        BY <2>1, <3>5, FrontStays
      <4> QED
        BY <3>1, <3>2, <3>5, <4>1
    <3> QED
      BY <3>4, <3>5
  <2> QED
    BY <2>2, <2>3 DEF EngineGet, Record
<1>3. Active(t)' <=> Active(t)
  BY DEF Active
<1> QED
  BY <1>1, <1>2, <1>3 DEF SavedAt

\* A transaction without history has nothing to keep.
LEMMA NothingSaved ==
  \A t, key : saved[t][key] = << >> => SavedAt(t, key)
BY DEF SavedAt

\* A disturbed history forgets the touched keys of the other transactions.
LEMMA Disturbed ==
  \A s, touched : \A t \in Ids, key \in Keys :
    Disturb(s, touched)[t][key] = IF t # s /\ key \in touched THEN << >> ELSE saved[t][key]
BY DEF Disturb

\* Each call keeps the history of what an abort has to restore.
LEMMA SavedInvStep == TypeInv /\ ContextInv /\ SavedInv /\ Next => SavedInv'
<1> SUFFICES ASSUME TypeInv, ContextInv, SavedInv, Next, NEW t \in Ids, NEW key \in Keys,
                    saved'[t][key] # << >>
             PROVE  SavedAt(t, key)'
  <2>1. ASSUME NEW t \in Ids, NEW key \in Keys, saved'[t][key] = << >>
        PROVE  SavedAt(t, key)'
    BY <2>1 DEF SavedAt
  <2> QED
    BY <2>1 DEF SavedInv, SavedAt
<1>0. TypeInv'
  BY TypeStep
<1>1. ASSUME NEW level \in mix.writers \ {"plain"}, Begin(level)
      PROVE  SavedAt(t, key)'
  <2>1. saved'[t][key] = saved[t][key] /\ mem' = mem /\ sst' = sst
    BY <1>1 DEF Begin, engine
  <2>2. t # next_id
    <3>1. ~ (t >= next_id)
      BY <2>1 DEF ContextInv
    <3> QED
      BY <3>1 DEF TypeInv
  <2>3. ctx'[t] = ctx[t]
    BY <1>1, <2>2 DEF Begin, TypeInv
  <2> QED
    BY <1>0, <2>1, <2>3, SavedKept
<1>2. ASSUME NEW k \in mix.keys, NEW value \in Stored, PlainWrite(k, value)
      PROVE  SavedAt(t, key)'
  <2>1. saved'[t][key] = IF t # next_id /\ key \in {k} THEN << >> ELSE saved[t][key]
    BY <1>2, Disturbed DEF PlainWrite
  <2>2. t # next_id
    <3>1. ~ (t >= next_id)
      BY <2>1 DEF ContextInv
    <3> QED
      BY <3>1 DEF TypeInv
  <2>3. key # k /\ saved'[t][key] = saved[t][key]
    BY <2>1, <2>2
  <2>4. mem'[key] = mem[key] /\ sst' = sst /\ ctx' = ctx
    BY <1>2, <2>3 DEF PlainWrite, EnginePut, TypeInv
  <2> QED
    BY <1>0, <2>3, <2>4, SavedKept
<1>3. ASSUME NEW s \in Ids, NEW k \in mix.keys, Read(s, k)
      PROVE  SavedAt(t, key)'
  <2>1. saved'[t][key] = saved[t][key] /\ mem' = mem /\ sst' = sst
    BY <1>3 DEF Read, engine
  <2>2. SavedAt(t, key) /\ saved[t][key] # << >>
    BY <2>1, SavedParts
  <2>3. t # s
    BY <1>3, <2>2 DEF Read, SavedAt, Active
  <2>4. ctx'[t] = ctx[t]
    BY <1>3, <2>3 DEF Read, TypeInv
  <2> QED
    BY <1>0, <2>1, <2>4, SavedKept
<1>4. ASSUME NEW s \in Ids, NEW k \in mix.keys, NEW value \in Stored,
             WriteThrough(s, k, value)
      PROVE  SavedAt(t, key)'
  <2>1. k \in Keys
    BY MixType
  <2>2. CASE t # s
    <3>1. saved'[t] = Disturb(s, {k})[t]
      BY <1>4, <2>2, DisturbType DEF WriteThrough
    <3>2. key # k /\ saved'[t][key] = saved[t][key]
      BY <2>2, <3>1, Disturbed
    <3>3. mem'[key] = mem[key] /\ sst' = sst
      BY <1>4, <3>2 DEF WriteThrough, EnginePut, TypeInv
    <3>4. ctx'[t] = ctx[t]
      BY <1>4, <2>2 DEF WriteThrough, TypeInv
    <3> QED
      BY <1>0, <3>2, <3>3, <3>4, SavedKept
  <2>3. CASE t = s /\ key # k
    <3>1. saved'[t][key] = Disturb(s, {k})[t][key]
      BY <1>4, <2>1, <2>3, DisturbType DEF WriteThrough
    <3>2. saved'[t][key] = saved[t][key]
      BY <2>3, <3>1, Disturbed
    <3>3. SavedAt(t, key)
      BY SavedParts
    <3>4. /\ ctx'[t].state = ctx[t].state /\ ctx'[t].level = ctx[t].level
          /\ ctx'[t].rollback[key] = ctx[t].rollback[key]
      BY <1>4, <2>1, <2>3 DEF WriteThrough, TypeInv, Contexts
    <3>5. Active(t)
      BY <1>4, <2>3 DEF WriteThrough, Active
    <3> QED
      BY <3>2, <3>3, <3>4, <3>5 DEF SavedAt, Active
  <2>4. CASE t = s /\ key = k
    <3>1. saved'[t][key] = IF ctx[t].writes[key] = 0 THEN <<EngineGet(key, 0)>> ELSE << >>
      BY <1>4, <2>1, <2>4, DisturbType DEF WriteThrough
    <3>2. saved'[t][key] = <<EngineGet(key, 0)>>
      BY <3>1
    <3>3. IsAnswer(EngineGet(key, 0))
      BY EngineGetType DEF IsAnswer
    <3>4. /\ ctx'[t].state = "active" /\ ctx'[t].level = "RU"
          /\ ctx'[t].rollback[key] = <<EngineGet(key, 0)>>
      BY <1>4, <2>1, <2>4 DEF WriteThrough, TypeInv, Contexts
    <3>5. IsAnswer(saved'[t][key][1])
      BY <3>2, <3>3
    <3> QED
      BY <3>2, <3>4, <3>5 DEF SavedAt, IsAnswer
  <2> QED
    BY <2>2, <2>3, <2>4
<1>5. ASSUME NEW s \in Ids, NEW k \in mix.keys, NEW value \in Stored,
             WriteBuffered(s, k, value)
      PROVE  SavedAt(t, key)'
  <2>1. saved'[t][key] = saved[t][key] /\ mem' = mem /\ sst' = sst
    BY <1>5 DEF WriteBuffered, engine
  <2>2. SavedAt(t, key) /\ saved[t][key] # << >>
    BY <2>1, SavedParts
  <2>3. t # s
    BY <1>5, <2>2 DEF WriteBuffered, SavedAt, Active
  <2>4. ctx'[t] = ctx[t]
    BY <1>5, <2>3 DEF WriteBuffered, TypeInv
  <2> QED
    BY <1>0, <2>1, <2>4, SavedKept
<1>6. ASSUME NEW s \in Ids, CommitRU(s)
      PROVE  SavedAt(t, key)'
  <2>1. saved'[t][key] = saved[t][key] /\ mem' = mem /\ sst' = sst
    BY <1>6 DEF CommitRU
  <2>2. CASE t # s
    BY <1>0, <1>6, <2>1, <2>2, CloseMoves, SavedKept DEF CommitRU
  <2>3. CASE t = s
    <3>1. SavedAt(t, key)
      BY SavedParts
    <3>2. ctx'[t].state = "committed"
      BY <1>6, <2>3, CloseMoves DEF CommitRU
    <3> QED
      BY <2>1, <3>1, <3>2 DEF SavedAt, Active, IsAnswer
  <2> QED
    BY <2>2, <2>3
<1>7. ASSUME NEW s \in Ids, Commit(s)
      PROVE  SavedAt(t, key)'
  <2>1. saved'[t][key] = IF t # s /\ key \in Written(s) THEN << >> ELSE saved[t][key]
    BY <1>7, Disturbed DEF Commit
  <2>2. SavedAt(t, key) /\ saved[t][key] # << >>
    BY <2>1, SavedParts
  <2>3. t # s
    BY <1>7, <2>2 DEF Commit, SavedAt, Active
  <2>4. mem'[key] = mem[key] /\ sst' = sst
    BY <1>7, <2>1, <2>3 DEF Commit
  <2>5. ctx'[t] = ctx[t]
    BY <1>7, <2>3, CloseMoves DEF Commit
  <2> QED
    BY <1>0, <2>1, <2>4, <2>5, SavedKept
<1>8. ASSUME NEW s \in Ids, CommitRefused(s) \/ AbortBuffered(s)
      PROVE  SavedAt(t, key)'
  <2>1. saved'[t][key] = saved[t][key] /\ mem' = mem /\ sst' = sst
    BY <1>8 DEF CommitRefused, AbortBuffered, engine
  <2>2. SavedAt(t, key) /\ saved[t][key] # << >>
    BY <2>1, SavedParts
  <2>3. t # s
    BY <1>8, <2>2 DEF CommitRefused, AbortBuffered, SavedAt, Active
  <2>4. ctx'[t] = ctx[t]
    BY <1>8, <2>3, CloseMoves DEF CommitRefused, AbortBuffered
  <2> QED
    BY <1>0, <2>1, <2>4, SavedKept
<1>9. ASSUME NEW s \in Ids, AbortRU(s)
      PROVE  SavedAt(t, key)'
  <2> DEFINE touched == {k \in Keys : ctx[s].rollback[k] # << >>}
  <2>1. saved'[t][key] = IF t # s /\ key \in touched THEN << >> ELSE saved[t][key]
    BY <1>9, Disturbed DEF AbortRU
  <2>2. SavedAt(t, key) /\ saved[t][key] # << >> /\ saved'[t][key] = saved[t][key]
    BY <2>1, SavedParts
  <2>3. mem'[key] = Rollback(s, key) /\ sst' = sst
    BY <1>9 DEF AbortRU
  <2>4. CASE t # s
    <3>1. mem'[key] = mem[key]
      BY <2>1, <2>3, <2>4 DEF Rollback
    <3>2. ctx'[t] = ctx[t]
      BY <1>9, <2>4, CloseMoves DEF AbortRU
    <3> QED
      BY <1>0, <2>2, <2>3, <3>1, <3>2, SavedKept
  <2>5. CASE t = s
    <3> DEFINE old == saved[t][key][1]
               back == IF old = None THEN Version(Deleted, t) ELSE old
    <3>1. IsAnswer(old) /\ ctx[t].rollback[key] = saved[t][key]
      BY <1>9, <2>2, <2>5 DEF AbortRU, SavedAt, Active
    <3>2. mem'[key] = Prepend(mem[key], back)
      BY <2>2, <2>3, <2>5, <3>1 DEF Rollback
    <3>3. Version(Deleted, t) \in Versions /\ Version(Deleted, t).value = Deleted
      BY DEF Version, Versions, VersionsBy, Stored
    <3>4. back \in Versions
      BY <3>1, <3>3 DEF IsAnswer, Answers
    <3>5. mem[key] \in Seq(Versions) /\ sst[key] \in Seq(Versions)
      BY DEF TypeInv
    <3>6. /\ mem'[key] \in Seq(Versions) /\ mem'[key] # << >> /\ mem'[key][1] = back
      <4> HIDE DEF back
      <4>1. \A version \in Versions : /\ Prepend(mem[key], version) \in Seq(Versions)
                                      /\ Prepend(mem[key], version) # << >>
                                      /\ Prepend(mem[key], version)[1] = version
        BY <3>5, PrependProperties
      <4> QED
        BY <3>2, <3>4, <4>1
    <3>8. Found(key, 0)' = back
      <4> HIDE DEF back
      <4> QED
        BY <3>6 DEF Found, Visible
    <3>9. back # None
      BY <3>4, NoneIsNoRecord DEF Versions, VersionsBy
    <3>10. EngineGet(key, 0)' = IF back.value = Deleted THEN None ELSE back
      <4> HIDE DEF back
      <4> QED
        BY <3>8, <3>9 DEF EngineGet, Record
    <3>11. ValueOf(EngineGet(key, 0)') = ValueOf(old)
      BY <3>1, <3>3, <3>10 DEF ValueOf, IsAnswer
    <3>12. ctx'[t].state = "aborted"
      BY <1>9, <2>5, CloseMoves DEF AbortRU
    <3> HIDE DEF old
    <3>13. IsAnswer(old)' /\ old' = old
      BY <2>2, <3>1 DEF IsAnswer, old
    <3> QED
      BY <2>2, <3>11, <3>12, <3>13 DEF SavedAt, Active, ValueOf, old
  <2> QED
    BY <2>4, <2>5
<1>10. ASSUME Flush
       PROVE  SavedAt(t, key)'
  <2>1. saved' = saved /\ ctx' = ctx
    BY <1>10 DEF Flush
  <2>2. mem'[key] = << >> /\ sst'[key] = mem[key] \o sst[key]
    BY <1>10 DEF Flush
  <2>3. mem[key] \o sst[key] \in Seq(Versions)
    BY DEF TypeInv
  <2>4. mem'[key] \o sst'[key] = mem[key] \o sst[key]
    BY <2>2, <2>3, ConcatEmptySeq
  <2> QED
    BY <1>0, <2>1, <2>4, SavedKept
<1> QED
  BY <1>1, <1>2, <1>3, <1>4, <1>5, <1>6, <1>7, <1>8, <1>9, <1>10 DEF Next

-----------------------------------------------------------------------------
\* The theorems.

IInv == TypeInv /\ ContextInv /\ StoredInv /\ OrderInv /\ SavedInv

\* IInv is an inductive invariant of the transactions: types, contexts, the
\* writers of what is stored, its order and what abort has to put back hold in
\* every state whatever transactions, plain writes and flushes interleave.
THEOREM Invariance == Spec => []IInv
<1>1. Init => IInv
  <2> SUFFICES ASSUME Init
               PROVE  IInv
    OBVIOUS
  <2>1. \A key \in Keys : mem[key] = << >> /\ sst[key] = << >>
    BY DEF Init
  <2>2. StoredInv
    BY DEF Init, StoredInv
  <2>3. OrderInv
    <3>1. \A key \in Keys : mem[key] \o sst[key] = << >>
      BY <2>1, EmptySeq, ConcatEmptySeq
    <3>2. \A key \in Keys : Decreasing(mem[key] \o sst[key], Len(mem[key]))
      <4>1. DOMAIN << >> = {}
        OBVIOUS
      <4>2. \A n : Decreasing(<< >>, n)
        BY <4>1, Zenon DEF Decreasing
      <4> QED
        BY <3>1, <4>2
    <3> QED
      BY <3>2 DEF Init, OrderInv
  <2>4. SavedInv
    BY DEF Init, SavedInv
  <2> QED
    BY <2>2, <2>3, <2>4, InitTyped, InitContexts DEF IInv
<1>2. IInv /\ [Next]_vars => IInv'
  <2>1. CASE Next
    BY <2>1, TypeStep, ContextInvStep, StoredInvStep, OrderInvStep, SavedInvStep DEF IInv
  <2>2. CASE UNCHANGED vars
    <3> SUFFICES ASSUME IInv, UNCHANGED vars
                 PROVE  IInv'
      BY <2>2
    <3>1. TypeInv' /\ ContextInv'
      BY DEF IInv, TypeInv, ContextInv, Active, vars
    <3>2. StoredInv'
      BY DEF IInv, StoredInv, Settled, vars
    <3>3. OrderInv'
      BY DEF IInv, OrderInv, Orderly, Decreasing, vars
    <3>4. SavedInv'
      BY DEF IInv, SavedInv, Active, EngineGet, Found, vars
    <3> QED
      BY <3>1, <3>2, <3>3, <3>4 DEF IInv
  <2> QED
    BY <2>1, <2>2
<1> QED
  BY <1>1, <1>2, PTL DEF Spec

\* Every state of the transactions is well typed.
THEOREM TypeCorrect == Spec => []TypeInv
BY Invariance, PTL DEF IInv

\* Without READ_UNCOMMITTED transactions nothing uncommitted or aborted is ever
\* stored where another transaction's get could find it.
THEOREM NothingUncommitted == Spec => []OnlyCommittedStored
<1>1. IInv => OnlyCommittedStored
  <2> SUFFICES ASSUME IInv, "RU" \notin mix.writers, NEW key \in Keys,
                      NEW i \in DOMAIN (mem[key] \o sst[key])
               PROVE  LET t == (mem[key] \o sst[key])[i].tranc_id
                      IN  ctx[t].state = "committed" \/ t \in plain
    BY DEF OnlyCommittedStored
  <2>1. mem[key] \in Seq(VersionsBy(Settled)) /\ sst[key] \in Seq(VersionsBy(Settled))
    BY DEF IInv, StoredInv
  <2>2. mem[key] \o sst[key] \in Seq(VersionsBy(Settled))
    BY <2>1
  <2>3. (mem[key] \o sst[key])[i] \in VersionsBy(Settled)
    BY <2>2, LenProperties, ElementOfSeq
  <2>4. (mem[key] \o sst[key])[i].tranc_id \in Settled
    BY <2>3 DEF VersionsBy
  <2> QED
    BY <2>4 DEF Settled
<1> QED
  BY <1>1, Invariance, PTL

\* When all writers check for conflicts, an older transaction's version of a key gets
\* before a newer one's only past a flushed deletion, which the check cannot see.
THEOREM ConflictsKeepOrder == Spec => []VersionsInIdOrder
<1>1. IInv => VersionsInIdOrder
  BY DEF IInv, OrderInv, Orderly, Decreasing, VersionsInIdOrder
<1> QED
  BY <1>1, Invariance, PTL

\* Aborting a READ_UNCOMMITTED transaction gives back the value of every key it
\* wrote once and nobody else has written since.
THEOREM AbortGivesBack == Spec => []AbortRestores
<1>1. IInv => AbortRestores
  BY DEF IInv, SavedInv, AbortRestores
<1> QED
  BY <1>1, Invariance, PTL

\* What a REPEATABLE_READ or SERIALIZABLE transaction has read of a key it reads
\* again, until it writes the key itself.
THEOREM ReadsRepeat == Spec => RepeatableReads
<1> DEFINE Repeats ==
      \A t \in Ids, key \in Keys :
        /\ Active(t) /\ Active(t)'
        /\ ctx[t].reads[key] # << >>
        /\ ctx'[t].temp[key] = ctx[t].temp[key]
        => Answer(t, key)' = Answer(t, key)
<1>1. IInv /\ [Next]_vars => [Repeats]_vars
  <2> SUFFICES ASSUME IInv, Next, NEW t \in Ids, NEW key \in Keys, Active(t), Active(t)',
                      ctx[t].reads[key] # << >>, ctx'[t].temp[key] = ctx[t].temp[key]
               PROVE  Answer(t, key)' = Answer(t, key)
    OBVIOUS
  <2>1. t # next_id
    <3>1. ~ (t >= next_id)
      BY DEF IInv, ContextInv, Active
    <3> QED
      BY <3>1 DEF IInv, TypeInv
  <2>2. ContextMove(t)
    BY ContextStep DEF IInv
  <2>3. ctx'[t].reads[key] = ctx[t].reads[key]
    BY <2>1, <2>2 DEF ContextMove, Active
  <2> QED
    BY <2>3 DEF Answer
<1> QED
  BY <1>1, Invariance, PTL DEF Spec, RepeatableReads
=============================================================================
