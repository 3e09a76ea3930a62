----------------------------- MODULE RedisProofs -----------------------------
(***************************************************************************)
(* Proofs about the Redis layer.                                           *)
(*                                                                         *)
(* About RedisWrapper, for every number of threads, fields, members and    *)
(* elements, every set of commands and every clock: the LSM keys a hash, a *)
(* set or a sorted set is spread over stay in step.                        *)
(*                                                                         *)
(* About RedisServer, for any number of clients, any requests of theirs    *)
(* and every way in which the streams of those in Split may be cut.       *)
(***************************************************************************)
EXTENDS RedisWrapper, RedisServer, TLAPS, FiniteSetTheorems, FunctionTheorems,
        SequenceTheorems, WellFoundedInduction

-----------------------------------------------------------------------------
\* The values (RedisWrapper): what is common to the three kinds.

\* A thread between two critical sections is busy with one of the commands.
Busy ==
  /\ kind \in Kinds
  /\ DOMAIN client = Clients
  /\ \A c \in Clients : client[c].phase \in {"clean", "apply"} =>
                          client[c].cmd \in Commands[kind]

\* A step leaves the key's kind alone, and thread c becomes idle, or waits for an
\* exclusive section of the command it begins or of the one it is in.
ThreadStep ==
  /\ kind' = kind
  /\ \/ client' = client
     \/ \E c \in Clients :
          \/ client' = [client EXCEPT ![c] = [phase |-> "idle", cmd |-> None]]
          \/ \E phase \in {"clean", "apply"}, cmd \in Commands[kind] :
               client' = [client EXCEPT ![c] = [phase |-> phase, cmd |-> cmd]]
          \/ /\ client[c].phase = "clean"
             /\ client' = [client EXCEPT
                             ![c] = [phase |-> "apply", cmd |-> client[c].cmd]]

\* Whatever a step does to a thread, what it waits for is one of the commands.
LEMMA ThreadsStayBusy ==
  ASSUME Busy, ThreadStep
  PROVE  Busy'
<1>1. kind' = kind /\ DOMAIN client' = DOMAIN client
  BY DEF ThreadStep
<1>2. ASSUME NEW c \in Clients, NEW new, client' = [client EXCEPT ![c] = new],
             new.phase \in {"clean", "apply"} => new.cmd \in Commands[kind]
      PROVE  Busy'
  BY <1>1, <1>2 DEF Busy
<1>3. CASE client' = client
  BY <1>1, <1>3 DEF Busy
<1>4. ASSUME NEW c \in Clients,
             client' = [client EXCEPT ![c] = [phase |-> "idle", cmd |-> None]]
      PROVE  Busy'
  BY <1>2, <1>4
<1>5. ASSUME NEW c \in Clients, NEW phase \in {"clean", "apply"}, NEW cmd \in Commands[kind],
             client' = [client EXCEPT ![c] = [phase |-> phase, cmd |-> cmd]]
      PROVE  Busy'
  BY <1>2, <1>5
<1>6. ASSUME NEW c \in Clients, client[c].phase = "clean",
             client' = [client EXCEPT
                          ![c] = [phase |-> "apply", cmd |-> client[c].cmd]]
      PROVE  Busy'
  <2>1. client[c].cmd \in Commands[kind]
    BY <1>6 DEF Busy
  <2> QED
    BY <1>2, <1>6, <2>1
<1> QED
  BY <1>3, <1>4, <1>5, <1>6 DEF ThreadStep

\* The greatest of finitely many numbers is one of them.
LEMMA MaxIsIn ==
  ASSUME NEW S \in SUBSET Nat, IsFiniteSet(S), S # {}
  PROVE  \E x \in S : \A y \in S : x >= y
<1> DEFINE Above(x) == {y \in S : y > x}
<1>1. \A x \in S : IsFiniteSet(Above(x)) /\ Cardinality(Above(x)) \in Nat
  BY FS_Subset, FS_CardinalityType
<1>2. \A x, y \in S : y > x => Cardinality(Above(y)) < Cardinality(Above(x))
  <2> SUFFICES ASSUME NEW x \in S, NEW y \in S, y > x
               PROVE  Cardinality(Above(y)) < Cardinality(Above(x))
    OBVIOUS
  <2>1. \A z \in S : z \in Nat
    OBVIOUS
  <2>2. \A z \in S : z > y => z > x
    BY <2>1
  <2>3. y \in Above(x) /\ Above(y) \in SUBSET Above(x)
    BY <2>2
  <2>4. y \notin Above(y)
    BY <2>1
  <2>5. Cardinality(Above(y)) <= Cardinality(Above(x))
        /\ Cardinality(Above(y)) # Cardinality(Above(x))
    BY <1>1, <2>3, <2>4, FS_Subset
  <2> QED
    BY <1>1, <2>5
<1> DEFINE sizes == {Cardinality(Above(x)) : x \in S}
<1>3. sizes \in SUBSET Nat /\ sizes # {}
  BY <1>1
<1>4. PICK n \in sizes : \A m \in sizes : ~ (<<m, n>> \in OpToRel(<, Nat))
  BY <1>3, NatLessThanWellFounded, WFMin
<1>5. \A m \in sizes : ~ (m < n)
  BY <1>3, <1>4 DEF OpToRel
<1>6. PICK x \in S : n = Cardinality(Above(x))
  OBVIOUS
<1>7. \A y \in S : ~ (y > x)
  BY <1>2, <1>5, <1>6
<1> QED
  BY <1>7

-----------------------------------------------------------------------------
\* The size of a set.

SetInv ==
  kind = "set" =>
    /\ Busy
    /\ IsFiniteSet(member_keys)
    /\ key_value \in Int \cup {None}
    /\ miscounted \in BOOLEAN
    /\ Set!SizeMatchesMembers

\* The instance counts as everybody else.
LEMMA SetCardinality == \A S : Set!Cardinality(S) = Cardinality(S)
BY DEF Set!Cardinality, Cardinality

\* Every action of a set is a step of a thread.
LEMMA SetThreads ==
  ASSUME kind = "set", kind' = kind, [Set!Next]_(Set!vars)
  PROVE  ThreadStep
<1> USE DEF Set!SeeExpired, Set!SeeLive, Set!ReadLive, Set!Waiting, Set!Return, Set!GoOn,
            Set!Idle, Set!Call, ThreadStep
<1>1. CASE UNCHANGED Set!vars
  BY <1>1 DEF Set!vars, Set!expiryVars
<1>2. CASE Set!Tick
  BY <1>2 DEF Set!Tick
<1>3. ASSUME NEW c \in Clients, Set!SAddBegin(c) \/ Set!SRemBegin(c)
      PROVE  ThreadStep
  BY <1>3 DEF Set!SAddBegin, Set!SRemBegin
<1>4. ASSUME NEW c \in Clients, Set!SAddClean(c)
      PROVE  ThreadStep
  BY <1>4 DEF Set!SAddClean
<1>5. ASSUME NEW c \in Clients, Set!SAddApply(c) \/ Set!SRemApply(c) \/ Set!CleanAndReturn(c)
      PROVE  ThreadStep
  BY <1>5 DEF Set!SAddApply, Set!SRemApply, Set!CleanAndReturn
<1>6. ASSUME NEW c \in Clients, Set!SIsMember(c) \/ Set!SCard(c) \/ Set!SMembers(c)
      PROVE  ThreadStep
  BY <1>6 DEF Set!SIsMember, Set!SCard, Set!SMembers
<1>7. ASSUME NEW c \in Clients, Set!Del(c) \/ \E seconds \in Ttls : Set!Expire(c, seconds)
      PROVE  ThreadStep
  BY <1>7 DEF Set!Del, Set!Expire
<1> QED
  BY <1>1, <1>2, <1>3, <1>4, <1>5, <1>6, <1>7 DEF Set!Next

\* Finitely many arguments name finitely many members, and as many as they are
\* themselves when they are all different.
LEMMA NamedAsOften ==
  ASSUME NEW args, NEW I, IsFiniteSet(I)
  PROVE  /\ IsFiniteSet({args[i] : i \in I})
         /\ (\A i, j \in I : args[i] = args[j] => i = j) =>
              Cardinality({args[i] : i \in I}) = Cardinality(I)
<1> DEFINE f == [i \in I |-> args[i]]
           T == {args[i] : i \in I}
<1>1. f \in [I -> T] /\ \A y \in T : \E i \in I : f[i] = y
  OBVIOUS
<1>2. f \in Surjection(I, T)
  BY <1>1 DEF Surjection
<1>3. (\A i, j \in I : args[i] = args[j] => i = j) => f \in Injection(I, T)
  BY <1>1 DEF Injection, IsInjective
<1> HIDE DEF f, T
<1>4. /\ IsFiniteSet(T)
      /\ f \in Injection(I, T) => Cardinality(T) = Cardinality(I)
  BY <1>2, FS_Surjection
<1> QED
  BY <1>3, <1>4 DEF T

\* The stored size is a number.
LEMMA StoredSizeType ==
  ASSUME key_value \in Int \cup {None}
  PROVE  Set!StoredSize \in Int
BY DEF Set!StoredSize

\* SADD adds as many members as it counts, unless it counts one twice.
LEMMA SAddStep ==
  ASSUME SetInv, kind = "set", kind' = kind, NEW c \in Clients, Set!SAddApply(c)
  PROVE  /\ IsFiniteSet(member_keys') /\ key_value' \in Int /\ miscounted' \in BOOLEAN
         /\ Set!SizeMatchesMembers'
<1> DEFINE args == client[c].cmd.args
           I == Set!Missing(client[c].cmd)
           New == {args[i] : i \in I}
<1>1. /\ client[c].cmd \in Commands["set"] /\ "set" \in Kinds /\ client[c].cmd.op = "sadd"
      /\ IsFiniteSet(member_keys) /\ key_value \in Int \cup {None}
      /\ miscounted \/ Set!StoredSize = Cardinality(member_keys)
  BY SetCardinality DEF SetInv, Busy, Set!SAddApply, Set!SizeMatchesMembers
<1>2. IsFiniteSet(I)
  <2>1. IsFiniteSet(DOMAIN args)
    BY <1>1, CommandsAssumption DEF SetCommand, IsArgs
  <2> QED
    BY <2>1, FS_Subset DEF Set!Missing
<1>3. /\ miscounted' \in BOOLEAN
      /\ ~ miscounted' => ~ miscounted /\ \A i, j \in I : args[i] = args[j] => i = j
  BY DEF Set!SAddApply, Set!CountsTwice
<1>4. member_keys' = member_keys \cup New /\ member_keys \cap New = {}
  BY DEF Set!SAddApply, Set!Named, Set!Missing
<1>5. key_value' = Set!StoredSize + Cardinality(I)
  BY SetCardinality DEF Set!SAddApply
<1> HIDE DEF args, I
<1>6. /\ IsFiniteSet(New)
      /\ ~ miscounted' => Cardinality(New) = Cardinality(I)
  BY <1>2, <1>3, NamedAsOften
<1> HIDE DEF New
<1>7. IsFiniteSet(member_keys')
      /\ Cardinality(member_keys') = Cardinality(member_keys) + Cardinality(New)
                                       - Cardinality(member_keys \cap New)
  BY <1>1, <1>4, <1>6, FS_Union
<1>8. Cardinality(member_keys \cap New) = 0
  BY <1>4, FS_EmptySet
<1>9. /\ Cardinality(member_keys) \in Nat /\ Cardinality(New) \in Nat
      /\ Cardinality(I) \in Nat /\ Set!StoredSize \in Int
  BY <1>1, <1>2, <1>6, FS_CardinalityType, StoredSizeType
<1>10. /\ key_value' \in Int
       /\ ~ miscounted' => key_value' = Cardinality(member_keys')
  BY <1>1, <1>3, <1>5, <1>6, <1>7, <1>8, <1>9
<1>11. Set!StoredSize' = key_value'
  BY <1>10, NoneAssumption DEF Set!StoredSize
<1> QED
  BY <1>3, <1>7, <1>10, <1>11, SetCardinality DEF Set!SizeMatchesMembers

\* SREM removes as many members as it counts, unless it counts one twice.
LEMMA SRemStep ==
  ASSUME SetInv, kind = "set", kind' = kind, NEW c \in Clients, Set!SRemApply(c)
  PROVE  /\ IsFiniteSet(member_keys') /\ key_value' \in Int /\ miscounted' \in BOOLEAN
         /\ Set!SizeMatchesMembers'
<1> DEFINE args == client[c].cmd.args
           I == Set!Existing(client[c].cmd)
           Old == {args[i] : i \in I}
<1>1. /\ client[c].cmd \in Commands["set"] /\ "set" \in Kinds /\ client[c].cmd.op = "srem"
      /\ IsFiniteSet(member_keys) /\ key_value \in Int \cup {None}
      /\ miscounted \/ Set!StoredSize = Cardinality(member_keys)
  BY SetCardinality DEF SetInv, Busy, Set!SRemApply, Set!SizeMatchesMembers
<1>2. IsFiniteSet(I)
  <2>1. IsFiniteSet(DOMAIN args)
    BY <1>1, CommandsAssumption DEF SetCommand, IsArgs
  <2> QED
    BY <2>1, FS_Subset DEF Set!Existing
<1>3. /\ miscounted' \in BOOLEAN
      /\ ~ miscounted' => ~ miscounted /\ \A i, j \in I : args[i] = args[j] => i = j
  BY DEF Set!SRemApply, Set!CountsTwice
<1>4. /\ member_keys' \in SUBSET member_keys
      /\ member_keys = member_keys' \cup Old /\ member_keys' \cap Old = {}
  BY DEF Set!SRemApply, Set!Named, Set!Existing
<1>5. key_value' = Set!StoredSize - Cardinality(I)
  BY SetCardinality DEF Set!SRemApply, Set!Removed
<1> HIDE DEF args, I
<1>6. /\ IsFiniteSet(Old)
      /\ ~ miscounted' => Cardinality(Old) = Cardinality(I)
  BY <1>2, <1>3, NamedAsOften
<1> HIDE DEF Old
<1>7. IsFiniteSet(member_keys')
  BY <1>1, <1>4, FS_Subset
<1>8. Cardinality(member_keys) = Cardinality(member_keys') + Cardinality(Old)
                                    - Cardinality(member_keys' \cap Old)
  BY <1>4, <1>6, <1>7, FS_Union
<1>9. Cardinality(member_keys' \cap Old) = 0
  BY <1>4, FS_EmptySet
<1>10. /\ Cardinality(member_keys') \in Nat /\ Cardinality(Old) \in Nat
       /\ Cardinality(I) \in Nat /\ Set!StoredSize \in Int
  BY <1>1, <1>2, <1>6, <1>7, FS_CardinalityType, StoredSizeType
<1>11. /\ key_value' \in Int
       /\ ~ miscounted' => key_value' = Cardinality(member_keys')
  BY <1>1, <1>3, <1>5, <1>6, <1>8, <1>9, <1>10
<1>12. Set!StoredSize' = key_value'
  BY <1>11, NoneAssumption DEF Set!StoredSize
<1> QED
  BY <1>3, <1>7, <1>11, <1>12, SetCardinality DEF Set!SizeMatchesMembers

\* Every step keeps the invariant of a set.
LEMMA SetStep == SetInv /\ [Next]_vars => SetInv'
<1> DEFINE Goal == /\ IsFiniteSet(member_keys') /\ key_value' \in Int \cup {None}
                   /\ miscounted' \in BOOLEAN /\ Set!SizeMatchesMembers'
<1> SUFFICES ASSUME SetInv, [Next]_vars, kind' = "set"
             PROVE  Busy' /\ Goal
  BY DEF SetInv
<1>1. kind = "set" /\ kind' = kind /\ [Set!Next]_(Set!vars)
  BY DEF Next, vars, Set!vars, expiryVars, Set!expiryVars, Set!set, members
<1>2. Busy'
  BY <1>1, SetThreads, ThreadsStayBusy DEF SetInv
<1>3. ASSUME UNCHANGED <<key_value, member_keys, miscounted>>
      PROVE  Goal
  BY <1>1, <1>3 DEF SetInv, Set!SizeMatchesMembers, Set!StoredSize
<1>4. ASSUME key_value' = None, member_keys' = {}, miscounted' \in BOOLEAN
      PROVE  Goal
  BY <1>4, FS_EmptySet, SetCardinality DEF Set!SizeMatchesMembers, Set!StoredSize
<1>5. ASSUME NEW c \in Clients, Set!Del(c)
      PROVE  Goal
  <2>1. /\ key_value' = None /\ member_keys' = member_keys
        /\ miscounted' = (member_keys # {})
    BY <1>5 DEF Set!Del
  <2>2. CASE member_keys = {}
    <3>1. miscounted' \in BOOLEAN
      BY <2>1
    <3> QED
      BY <1>4, <2>1, <2>2, <3>1
  <2>3. CASE member_keys # {}
    <3>1. miscounted' /\ miscounted' \in BOOLEAN
      BY <2>1, <2>3
    <3>2. IsFiniteSet(member_keys')
      BY <1>1, <2>1 DEF SetInv
    <3> QED
      BY <2>1, <3>1, <3>2 DEF Set!SizeMatchesMembers
  <2> QED
    BY <2>2, <2>3
<1>6. ASSUME NEW c \in Clients, Set!SAddApply(c)
      PROVE  Goal
  BY <1>1, <1>6, SAddStep
<1>7. ASSUME NEW c \in Clients, Set!SRemApply(c)
      PROVE  Goal
  BY <1>1, <1>7, SRemStep
<1> HIDE DEF Goal
<1>8. ASSUME NEW c \in Clients, Set!SAddClean(c) \/ Set!CleanAndReturn(c)
      PROVE  Goal
  <2>1. key_value' = None /\ member_keys' = {} /\ miscounted' \in BOOLEAN
    BY <1>8 DEF Set!SAddClean, Set!CleanAndReturn, Set!expire_set_clean
  <2> QED
    BY <1>4, <2>1
<1>10. ASSUME NEW c \in Clients, \/ Set!SAddBegin(c) \/ Set!SRemBegin(c)
                                 \/ Set!SIsMember(c) \/ Set!SCard(c) \/ Set!SMembers(c)
       PROVE  Goal
  BY <1>3, <1>10 DEF Set!SAddBegin, Set!SRemBegin, Set!SIsMember, Set!SCard, Set!SMembers,
     Set!set
<1>11. ASSUME UNCHANGED Set!vars
       PROVE  Goal
  BY <1>3, <1>11 DEF Set!vars, Set!set
<1>12. ASSUME UNCHANGED Set!set
       PROVE  Goal
  BY <1>3, <1>12 DEF Set!set
<1>13. Goal
  BY <1>1, <1>5, <1>6, <1>7, <1>8, <1>10, <1>11, <1>12 DEF Set!Next
<1> QED
  BY <1>2, <1>13

\* SCARD and SMEMBERS agree, for any number of threads and members and whatever
\* arguments SADD and SREM are given, until DEL leaves members behind or an argument
\* is counted twice; and they agree again once the set has expired.
THEOREM SizesMatch == Spec => []SizeMatchesMembers
<1>1. Init => SetInv
  <2> SUFFICES ASSUME Init, kind = "set"
               PROVE  /\ Busy
                      /\ IsFiniteSet(member_keys) /\ key_value \in Int \cup {None}
                      /\ miscounted \in BOOLEAN /\ Set!SizeMatchesMembers
    BY DEF SetInv
  <2>1. Busy
    BY DEF Init, Busy, Set!Init, Set!ExpiryInit, Set!Idle
  <2>2. key_value = None /\ member_keys = {} /\ miscounted = FALSE
    BY DEF Init, Set!Init
  <2> QED
    BY <2>1, <2>2, FS_EmptySet, SetCardinality DEF Set!SizeMatchesMembers, Set!StoredSize
<1>2. SetInv => SizeMatchesMembers
  BY DEF SetInv, SizeMatchesMembers
<1> QED
  BY <1>1, <1>2, SetStep, PTL DEF Spec

-----------------------------------------------------------------------------
\* The keys of a sorted set.

ZSetInv ==
  kind = "zset" =>
    /\ Busy
    /\ elem_keys \in [Elems -> ZSet!Scores \cup {None}]
    /\ score_keys \in [ZSet!Scores -> Elems \cup {None}]
    /\ unpaired \in BOOLEAN
    /\ ZSet!KeysComeInPairs

\* The keys after a step, in the same terms.
ZSetGoal ==
  /\ elem_keys' \in [Elems -> ZSet!Scores \cup {None}]
  /\ score_keys' \in [ZSet!Scores -> Elems \cup {None}]
  /\ unpaired' \in BOOLEAN
  /\ ~ unpaired' =>
       /\ \A e \in Elems : elem_keys'[e] # None => score_keys'[elem_keys'[e]] = e
       /\ \A s \in ZSet!Scores : score_keys'[s] # None => elem_keys'[score_keys'[s]] = s

\* Every action of a sorted set is a step of a thread.
LEMMA ZSetThreads ==
  ASSUME kind = "zset", kind' = kind, [ZSet!Next]_(ZSet!vars)
  PROVE  ThreadStep
<1> USE DEF ZSet!SeeExpired, ZSet!SeeLive, ZSet!ReadLive, ZSet!Waiting, ZSet!Return, ZSet!GoOn,
            ZSet!Idle, ZSet!Call, ThreadStep
<1>1. CASE UNCHANGED ZSet!vars
  BY <1>1 DEF ZSet!vars, ZSet!expiryVars
<1>2. CASE ZSet!Tick
  BY <1>2 DEF ZSet!Tick
<1>3. ASSUME NEW c \in Clients, ZSet!ZAddBegin(c) \/ ZSet!ZRemBegin(c)
      PROVE  ThreadStep
  BY <1>3 DEF ZSet!ZAddBegin, ZSet!ZRemBegin
<1>4. ASSUME NEW c \in Clients, ZSet!ZAddClean(c)
      PROVE  ThreadStep
  BY <1>4 DEF ZSet!ZAddClean
<1>5. ASSUME NEW c \in Clients, \/ ZSet!ZAddApply(c) \/ ZSet!ZIncrBy(c)
                                \/ ZSet!ZRemApply(c) \/ ZSet!CleanAndReturn(c)
      PROVE  ThreadStep
  BY <1>5 DEF ZSet!ZAddApply, ZSet!ZIncrBy, ZSet!ZRemApply, ZSet!CleanAndReturn
<1>6. ASSUME NEW c \in Clients, \/ ZSet!ZRange(c) \/ ZSet!ZCard(c) \/ ZSet!ZScore(c)
                                \/ ZSet!ZRank(c)
      PROVE  ThreadStep
  BY <1>6 DEF ZSet!ZRange, ZSet!ZCard, ZSet!ZScore, ZSet!ZRank
<1>7. ASSUME NEW c \in Clients, ZSet!Del(c) \/ \E seconds \in Ttls : ZSet!Expire(c, seconds)
      PROVE  ThreadStep
  BY <1>7 DEF ZSet!Del, ZSet!Expire
<1> QED
  BY <1>1, <1>2, <1>3, <1>4, <1>5, <1>6, <1>7 DEF ZSet!Next

\* Max is the greatest, in the instance as well.
LEMMA ZSetMax ==
  ASSUME NEW S \in SUBSET Nat, IsFiniteSet(S), S # {}
  PROVE  ZSet!Max(S) \in S
<1>1. \E x \in S : \A y \in S : x >= y
  BY MaxIsIn
<1> QED
  BY <1>1, Zenon DEF ZSet!Max

\* What ZADD does to the two kinds of keys.
LEMMA ZAddKeys ==
  ASSUME ZSetInv, kind = "zset", kind' = kind, NEW c \in Clients, ZSet!ZAddApply(c)
  PROVE  \E pairs \in SUBSET (ZSet!Scores \X Elems) :
           /\ ~ unpaired' =>
                /\ ~ unpaired
                /\ \A p \in pairs : elem_keys[p[2]] = None /\ score_keys[p[1]] = None
                /\ \A p, q \in pairs : p[1] = q[1] <=> p[2] = q[2]
           /\ unpaired' \in BOOLEAN
           /\ elem_keys' = [e \in Elems |-> elem_keys'[e]]
           /\ score_keys' = [s \in ZSet!Scores |-> score_keys'[s]]
           /\ \A e \in Elems : IF \E p \in pairs : p[2] = e
                                THEN <<elem_keys'[e], e>> \in pairs
                                ELSE elem_keys'[e] = elem_keys[e]
           /\ \A s \in ZSet!Scores : IF \E p \in pairs : p[1] = s
                                      THEN <<s, score_keys'[s]>> \in pairs
                                      ELSE score_keys'[s] = score_keys[s]
<1> DEFINE args == client[c].cmd.args
           I == ZSet!Changed(elem_keys, args)
           pairs == {<<args[i][1], args[i][2]>> : i \in I}
<1>1. client[c].cmd \in Commands["zset"] /\ "zset" \in Kinds /\ client[c].cmd.op = "zadd"
  BY DEF ZSetInv, Busy, ZSet!ZAddApply
<1>2. /\ DOMAIN args \subseteq Nat /\ IsFiniteSet(DOMAIN args)
      /\ \A i \in DOMAIN args : args[i][1] \in ZSet!Scores /\ args[i][2] \in Elems
  BY <1>1, CommandsAssumption DEF ZSetCommand, IsArgs
<1>3. /\ unpaired' \in BOOLEAN
      /\ ~ unpaired' =>
           /\ ~ unpaired
           /\ \A i \in I : elem_keys[args[i][2]] = None /\ score_keys[args[i][1]] = None
           /\ \A i, j \in I : args[i][1] = args[j][1] <=> args[i][2] = args[j][2]
  BY DEF ZSet!ZAddApply, ZSet!OnlyNew
<1>4. I \in SUBSET DOMAIN args
  BY DEF ZSet!Changed
<1>5. \A J \in SUBSET I : J # {} => ZSet!Max(J) \in J
  <2> SUFFICES ASSUME NEW J \in SUBSET I, J # {}
               PROVE  ZSet!Max(J) \in J
    OBVIOUS
  <2>1. J \in SUBSET (DOMAIN args) /\ J \in SUBSET Nat
    BY <1>2, <1>4
  <2>2. IsFiniteSet(J)
    BY <1>2, <2>1, FS_Subset
  <2> QED
    BY <2>1, <2>2, ZSetMax
<1>6. /\ elem_keys' = ZSet!PutScores(elem_keys, args, I)
      /\ score_keys' = ZSet!PutElems(args, I)
  BY DEF ZSet!ZAddApply
<1> HIDE DEF args, I
<1>7. pairs \in SUBSET (ZSet!Scores \X Elems)
  BY <1>2, <1>4
<1>8. /\ elem_keys' = [e \in Elems |-> elem_keys'[e]]
      /\ score_keys' = [s \in ZSet!Scores |-> score_keys'[s]]
  BY <1>6 DEF ZSet!PutScores, ZSet!PutElems
<1>9. /\ \A p \in pairs : \E i \in I : p[1] = args[i][1] /\ p[2] = args[i][2]
      /\ \A i \in I : \E p \in pairs : p[1] = args[i][1] /\ p[2] = args[i][2]
  <2>1. ASSUME NEW p \in pairs
        PROVE  \E i \in I : p[1] = args[i][1] /\ p[2] = args[i][2]
    <3>1. PICK i \in I : p = <<args[i][1], args[i][2]>>
      OBVIOUS
    <3> QED
      BY <3>1
  <2>2. ASSUME NEW i \in I
        PROVE  \E p \in pairs : p[1] = args[i][1] /\ p[2] = args[i][2]
    <3>1. <<args[i][1], args[i][2]>> \in pairs
      OBVIOUS
    <3> HIDE DEF pairs
    <3> QED
      BY <3>1
  <2> HIDE DEF pairs
  <2> QED
    BY <2>1, <2>2
<1>10. ASSUME NEW e \in Elems
       PROVE  IF \E p \in pairs : p[2] = e
                THEN <<elem_keys'[e], e>> \in pairs
                ELSE elem_keys'[e] = elem_keys[e]
  <2> DEFINE J == {i \in I : args[i][2] = e}
  <2>1. elem_keys'[e] = IF J = {} THEN elem_keys[e] ELSE args[ZSet!Max(J)][1]
    BY <1>6 DEF ZSet!PutScores
  <2>2. J # {} => ZSet!Max(J) \in J
    BY <1>5
  <2>3. J # {} <=> \E p \in pairs : p[2] = e
    <3> HIDE DEF pairs
    <3> QED
      BY <1>9
  <2>4. \A i \in J : <<args[i][1], e>> \in pairs
    OBVIOUS
  <2> HIDE DEF J, pairs
  <2> QED
    BY <2>1, <2>2, <2>3, <2>4
<1>11. ASSUME NEW s \in ZSet!Scores
       PROVE  IF \E p \in pairs : p[1] = s
                THEN <<s, score_keys'[s]>> \in pairs
                ELSE score_keys'[s] = score_keys[s]
  <2> DEFINE J == {i \in I : args[i][1] = s}
  <2>1. score_keys'[s] = IF J = {} THEN score_keys[s] ELSE args[ZSet!Max(J)][2]
    BY <1>6 DEF ZSet!PutElems
  <2>2. J # {} => ZSet!Max(J) \in J
    BY <1>5
  <2>3. J # {} <=> \E p \in pairs : p[1] = s
    <3> HIDE DEF pairs
    <3> QED
      BY <1>9
  <2>4. \A i \in J : <<s, args[i][2]>> \in pairs
    OBVIOUS
  <2> HIDE DEF J, pairs
  <2> QED
    BY <2>1, <2>2, <2>3, <2>4
<1> HIDE DEF pairs
<1>12. ~ unpaired' => /\ ~ unpaired
                      /\ \A p \in pairs : elem_keys[p[2]] = None /\ score_keys[p[1]] = None
                      /\ \A p, q \in pairs : p[1] = q[1] <=> p[2] = q[2]
  BY <1>3, <1>9
<1> QED
  BY <1>3, <1>7, <1>8, <1>10, <1>11, <1>12

\* ZADD puts both keys of new elements with scores that no other has.
LEMMA ZAddStep ==
  ASSUME ZSetInv, kind = "zset", kind' = kind, NEW c \in Clients, ZSet!ZAddApply(c)
  PROVE  ZSetGoal
<1>1. PICK pairs \in SUBSET (ZSet!Scores \X Elems) :
        /\ ~ unpaired' =>
             /\ ~ unpaired
             /\ \A p \in pairs : elem_keys[p[2]] = None /\ score_keys[p[1]] = None
             /\ \A p, q \in pairs : p[1] = q[1] <=> p[2] = q[2]
        /\ unpaired' \in BOOLEAN
        /\ elem_keys' = [e \in Elems |-> elem_keys'[e]]
        /\ score_keys' = [s \in ZSet!Scores |-> score_keys'[s]]
        /\ \A e \in Elems : IF \E p \in pairs : p[2] = e
                             THEN <<elem_keys'[e], e>> \in pairs
                             ELSE elem_keys'[e] = elem_keys[e]
        /\ \A s \in ZSet!Scores : IF \E p \in pairs : p[1] = s
                                   THEN <<s, score_keys'[s]>> \in pairs
                                   ELSE score_keys'[s] = score_keys[s]
  BY ZAddKeys
<1>2. /\ elem_keys \in [Elems -> ZSet!Scores \cup {None}]
      /\ score_keys \in [ZSet!Scores -> Elems \cup {None}]
      /\ ~ unpaired =>
           /\ \A e \in Elems : elem_keys[e] # None => score_keys[elem_keys[e]] = e
           /\ \A s \in ZSet!Scores : score_keys[s] # None => elem_keys[score_keys[s]] = s
  BY DEF ZSetInv, ZSet!KeysComeInPairs
<1>3. None \notin ZSet!Scores /\ None \notin Elems
  BY NoneAssumption, CommandsAssumption DEF ZSet!Scores, ZSetInv, Busy
<1>4. \A s, e : <<s, e>> \in pairs => s \in ZSet!Scores /\ e \in Elems
  OBVIOUS
<1>5. elem_keys' \in [Elems -> ZSet!Scores \cup {None}]
  <2>1. \A e \in Elems : elem_keys'[e] \in ZSet!Scores \cup {None}
    BY <1>1, <1>2, <1>4
  <2> QED
    BY <1>1, <2>1
<1>6. score_keys' \in [ZSet!Scores -> Elems \cup {None}]
  <2>1. \A s \in ZSet!Scores : score_keys'[s] \in Elems \cup {None}
    BY <1>1, <1>2, <1>4
  <2> QED
    BY <1>1, <2>1
<1>7. ASSUME ~ unpaired'
      PROVE  \A s, e, t, d : <<s, e>> \in pairs /\ <<t, d>> \in pairs => (s = t <=> e = d)
  <2> SUFFICES ASSUME NEW s, NEW e, NEW t, NEW d, <<s, e>> \in pairs, <<t, d>> \in pairs
               PROVE  s = t <=> e = d
    OBVIOUS
  <2>1. <<s, e>>[1] = <<t, d>>[1] <=> <<s, e>>[2] = <<t, d>>[2]
    BY <1>1, <1>7
  <2> QED
    BY <2>1
<1>8. ASSUME ~ unpaired', NEW e \in Elems, elem_keys'[e] # None
      PROVE  score_keys'[elem_keys'[e]] = e
  <2>1. PICK s \in ZSet!Scores : s = elem_keys'[e]
    BY <1>5, <1>8
  <2>2. CASE \E p \in pairs : p[2] = e
    <3>1. <<s, e>> \in pairs
      BY <1>1, <2>1, <2>2
    <3>2. \E p \in pairs : p[1] = s
      BY <3>1
    <3>3. <<s, score_keys'[s]>> \in pairs
      BY <1>1, <3>2
    <3> QED
      BY <1>7, <1>8, <2>1, <3>1, <3>3
  <2>3. CASE ~ \E p \in pairs : p[2] = e
    <3>1. elem_keys[e] = s
      BY <1>1, <2>1, <2>3
    <3>2. score_keys[s] = e
      BY <1>1, <1>2, <1>8, <2>1, <3>1
    <3>3. ~ \E p \in pairs : p[1] = s
      BY <1>1, <1>3, <1>8, <3>2
    <3> QED
      BY <1>1, <2>1, <3>2, <3>3
  <2> QED
    BY <2>2, <2>3
<1>9. ASSUME ~ unpaired', NEW s \in ZSet!Scores, score_keys'[s] # None
      PROVE  elem_keys'[score_keys'[s]] = s
  <2>1. PICK e \in Elems : e = score_keys'[s]
    BY <1>6, <1>9
  <2>2. CASE \E p \in pairs : p[1] = s
    <3>1. <<s, e>> \in pairs
      BY <1>1, <2>1, <2>2
    <3>2. \E p \in pairs : p[2] = e
      BY <3>1
    <3>3. <<elem_keys'[e], e>> \in pairs
      BY <1>1, <3>2
    <3> QED
      BY <1>7, <1>9, <2>1, <3>1, <3>3
  <2>3. CASE ~ \E p \in pairs : p[1] = s
    <3>1. score_keys[s] = e
      BY <1>1, <2>1, <2>3
    <3>2. elem_keys[e] = s
      BY <1>1, <1>2, <1>9, <2>1, <3>1
    <3>3. ~ \E p \in pairs : p[2] = e
      BY <1>1, <1>3, <1>9, <3>2
    <3> QED
      BY <1>1, <2>1, <3>2, <3>3
  <2> QED
    BY <2>2, <2>3
<1> QED
  BY <1>1, <1>5, <1>6, <1>8, <1>9 DEF ZSetGoal

\* ZINCRBY moves an element from one score to another, which nobody else has.
LEMMA ZIncrByStep ==
  ASSUME ZSetInv, kind = "zset", kind' = kind, NEW c \in Clients, ZSet!ZIncrBy(c)
  PROVE  ZSetGoal
<1> DEFINE inc == client[c].cmd.args[1]
           e == client[c].cmd.args[2]
           new == IF elem_keys[e] = None THEN inc ELSE elem_keys[e] + inc
<1>1. client[c].cmd \in Commands["zset"] /\ "zset" \in Kinds /\ client[c].cmd.op = "zincrby"
  BY DEF ZSetInv, Busy, ZSet!ZIncrBy
<1>2. e \in Elems /\ None \notin ZSet!Scores /\ None \notin Elems
  BY <1>1, CommandsAssumption, NoneAssumption DEF ZSetCommand, ZSet!Scores
<1>3. /\ elem_keys \in [Elems -> ZSet!Scores \cup {None}]
      /\ score_keys \in [ZSet!Scores -> Elems \cup {None}]
      /\ ~ unpaired =>
           /\ \A d \in Elems : elem_keys[d] # None => score_keys[elem_keys[d]] = d
           /\ \A s \in ZSet!Scores : score_keys[s] # None => elem_keys[score_keys[s]] = s
  BY DEF ZSetInv, ZSet!KeysComeInPairs
<1>4. /\ new \in ZSet!Scores
      /\ elem_keys' = [elem_keys EXCEPT ![e] = new]
      /\ score_keys' = [ZSet!WithoutOld(e) EXCEPT ![new] = e]
      /\ unpaired' \in BOOLEAN
      /\ ~ unpaired' => ~ unpaired /\ score_keys[new] \in {None, e}
  BY DEF ZSet!ZIncrBy
<1> HIDE DEF inc, e, new
<1>5. \A d \in Elems : elem_keys'[d] = IF d = e THEN new ELSE elem_keys[d]
  BY <1>2, <1>3, <1>4
<1>6. score_keys' = [s \in ZSet!Scores |-> IF s = new THEN e
                                           ELSE IF s = elem_keys[e] THEN None
                                           ELSE score_keys[s]]
  BY <1>2, <1>3, <1>4 DEF ZSet!WithoutOld
<1>7. elem_keys' \in [Elems -> ZSet!Scores \cup {None}]
  BY <1>2, <1>3, <1>4
<1>8. score_keys' \in [ZSet!Scores -> Elems \cup {None}]
  BY <1>2, <1>3, <1>6
<1>9. ASSUME ~ unpaired', NEW d \in Elems, elem_keys'[d] # None
      PROVE  score_keys'[elem_keys'[d]] = d
  <2>1. CASE d = e
    BY <1>4, <1>5, <1>6, <2>1
  <2>2. CASE d # e
    <3>1. /\ elem_keys'[d] = elem_keys[d] /\ elem_keys[d] \in ZSet!Scores
          /\ score_keys[elem_keys[d]] = d
      BY <1>3, <1>4, <1>5, <1>9, <2>2
    <3>2. elem_keys[d] # new
      BY <1>2, <1>4, <1>9, <2>2, <3>1
    <3>3. elem_keys[d] # elem_keys[e]
      BY <1>2, <1>3, <1>4, <1>9, <2>2, <3>1
    <3> QED
      BY <1>6, <3>1, <3>2, <3>3
  <2> QED
    BY <2>1, <2>2
<1>10. ASSUME ~ unpaired', NEW s \in ZSet!Scores, score_keys'[s] # None
       PROVE  elem_keys'[score_keys'[s]] = s
  <2>1. CASE s = new
    BY <1>2, <1>5, <1>6, <2>1
  <2>2. CASE s # new
    <3>1. s # elem_keys[e] /\ score_keys'[s] = score_keys[s]
      BY <1>6, <1>10, <2>2
    <3>2. score_keys[s] \in Elems /\ elem_keys[score_keys[s]] = s
      BY <1>3, <1>4, <1>10, <3>1
    <3>3. score_keys[s] # e
      BY <3>1, <3>2
    <3> QED
      BY <1>5, <3>1, <3>2, <3>3
  <2> QED
    BY <2>1, <2>2
<1> QED
  BY <1>4, <1>7, <1>8, <1>9, <1>10 DEF ZSetGoal

\* ZREM removes elements with their scores.
LEMMA ZRemStep ==
  ASSUME ZSetInv, kind = "zset", kind' = kind, NEW c \in Clients, ZSet!ZRemApply(c)
  PROVE  ZSetGoal
<1>1. PICK there : /\ \A e \in there : e \in Elems /\ elem_keys[e] # None
                   /\ elem_keys' = [e \in Elems |-> IF e \in there THEN None ELSE elem_keys[e]]
                   /\ score_keys' = [s \in ZSet!Scores |->
                                       IF \E e \in there : elem_keys[e] = s
                                         THEN None ELSE score_keys[s]]
  <2> DEFINE there == {e \in ZSet!ToSet(client[c].cmd.args) : elem_keys[e] # None}
  <2>1. /\ elem_keys' = [e \in Elems |-> IF e \in there THEN None ELSE elem_keys[e]]
        /\ score_keys' = [s \in ZSet!Scores |->
                            IF \E e \in there : elem_keys[e] = s
                              THEN None ELSE score_keys[s]]
    BY DEF ZSet!ZRemApply
  <2>2. client[c].cmd \in Commands["zset"] /\ "zset" \in Kinds /\ client[c].cmd.op = "zrem"
    BY DEF ZSetInv, Busy, ZSet!ZRemApply
  <2>3. \A e \in there : e \in Elems /\ elem_keys[e] # None
    BY <2>2, CommandsAssumption DEF ZSetCommand, ZSet!ToSet
  <2> QED
    BY <2>1, <2>3
<1>2. /\ elem_keys \in [Elems -> ZSet!Scores \cup {None}]
      /\ score_keys \in [ZSet!Scores -> Elems \cup {None}]
      /\ unpaired' = unpaired /\ unpaired \in BOOLEAN
      /\ ~ unpaired =>
           /\ \A d \in Elems : elem_keys[d] # None => score_keys[elem_keys[d]] = d
           /\ \A s \in ZSet!Scores : score_keys[s] # None => elem_keys[score_keys[s]] = s
  BY DEF ZSetInv, ZSet!KeysComeInPairs, ZSet!ZRemApply
<1>3. elem_keys' \in [Elems -> ZSet!Scores \cup {None}]
      /\ score_keys' \in [ZSet!Scores -> Elems \cup {None}]
  BY <1>1, <1>2
<1>4. \A e \in Elems : elem_keys'[e] # None => e \notin there /\ elem_keys'[e] = elem_keys[e]
  BY <1>1
<1>5. ASSUME ~ unpaired', NEW e \in Elems, elem_keys'[e] # None
      PROVE  score_keys'[elem_keys'[e]] = e
  <2>1. elem_keys'[e] = elem_keys[e] /\ e \notin there /\ elem_keys[e] \in ZSet!Scores
        /\ score_keys[elem_keys[e]] = e
    BY <1>2, <1>4, <1>5
  <2>2. ~ \E d \in there : elem_keys[d] = elem_keys[e]
    BY <1>1, <1>2, <1>5, <2>1
  <2> QED
    BY <1>1, <2>1, <2>2
<1>6. ASSUME ~ unpaired', NEW s \in ZSet!Scores, score_keys'[s] # None
      PROVE  elem_keys'[score_keys'[s]] = s
  <2>1. score_keys'[s] = score_keys[s] /\ ~ \E d \in there : elem_keys[d] = s
    BY <1>1, <1>6
  <2>2. score_keys[s] \in Elems /\ elem_keys[score_keys[s]] = s
    BY <1>2, <1>6, <2>1
  <2>3. score_keys[s] \notin there
    BY <2>1, <2>2
  <2> QED
    BY <1>1, <2>1, <2>2, <2>3
<1> QED
  BY <1>2, <1>3, <1>5, <1>6 DEF ZSetGoal

\* Every step keeps the invariant of a sorted set.
LEMMA ZSetStep == ZSetInv /\ [Next]_vars => ZSetInv'
<1> SUFFICES ASSUME ZSetInv, [Next]_vars, kind' = "zset"
             PROVE  Busy' /\ ZSetGoal
  BY DEF ZSetInv, ZSetGoal, ZSet!KeysComeInPairs
<1>1. kind = "zset" /\ kind' = kind /\ [ZSet!Next]_(ZSet!vars)
  BY DEF Next, vars, ZSet!vars, expiryVars, ZSet!expiryVars, ZSet!zset, zset
<1>2. Busy'
  BY <1>1, ZSetThreads, ThreadsStayBusy DEF ZSetInv
<1>3. ASSUME UNCHANGED <<elem_keys, score_keys, unpaired>>
      PROVE  ZSetGoal
  BY <1>1, <1>3 DEF ZSetInv, ZSetGoal, ZSet!KeysComeInPairs
<1>4. ASSUME elem_keys' = ZSet!NoElems, score_keys' = ZSet!NoScores, unpaired' = FALSE
      PROVE  ZSetGoal
  BY <1>4 DEF ZSetGoal, ZSet!NoElems, ZSet!NoScores
<1>5. ASSUME NEW c \in Clients, ZSet!ZAddApply(c) \/ ZSet!ZIncrBy(c) \/ ZSet!ZRemApply(c)
      PROVE  ZSetGoal
  BY <1>1, <1>5, ZAddStep, ZIncrByStep, ZRemStep
<1>6. ASSUME NEW c \in Clients, ZSet!ZAddClean(c) \/ ZSet!CleanAndReturn(c)
      PROVE  ZSetGoal
  BY <1>4, <1>6 DEF ZSet!ZAddClean, ZSet!CleanAndReturn, ZSet!expire_zset_clean
<1>7. ASSUME NEW c \in Clients, \/ ZSet!Del(c) \/ ZSet!ZAddBegin(c) \/ ZSet!ZRemBegin(c)
                                \/ ZSet!ZRange(c) \/ ZSet!ZCard(c) \/ ZSet!ZScore(c)
                                \/ ZSet!ZRank(c)
      PROVE  ZSetGoal
  BY <1>3, <1>7 DEF ZSet!Del, ZSet!ZAddBegin, ZSet!ZRemBegin, ZSet!ZRange, ZSet!ZCard,
     ZSet!ZScore, ZSet!ZRank, ZSet!zset
<1>8. ASSUME UNCHANGED ZSet!zset
      PROVE  ZSetGoal
  BY <1>3, <1>8 DEF ZSet!zset
<1>9. ASSUME UNCHANGED ZSet!vars
      PROVE  ZSetGoal
  BY <1>8, <1>9 DEF ZSet!vars
<1>10. ZSetGoal
  BY <1>1, <1>5, <1>6, <1>7, <1>8, <1>9 DEF ZSet!Next
<1> QED
  BY <1>2, <1>10

\* For each element key of a sorted set there is its score key and the other way
\* round, for any number of threads and elements, until a ZADD changes a score or
\* two elements meet at one; and again once the sorted set has expired.
THEOREM PairsKept == Spec => []KeysComeInPairs
<1>1. Init => ZSetInv
  <2> SUFFICES ASSUME Init, kind = "zset"
               PROVE  ZSetInv
    BY DEF ZSetInv
  <2>1. Busy
    BY DEF Init, Busy, ZSet!Init, ZSet!ExpiryInit, ZSet!Idle
  <2>2. elem_keys = ZSet!NoElems /\ score_keys = ZSet!NoScores /\ unpaired = FALSE
    BY DEF Init, ZSet!Init
  <2> QED
    BY <2>1, <2>2 DEF ZSetInv, ZSet!NoElems, ZSet!NoScores, ZSet!KeysComeInPairs
<1>2. ZSetInv => KeysComeInPairs
  BY DEF ZSetInv, KeysComeInPairs
<1> QED
  BY <1>1, <1>2, ZSetStep, PTL DEF Spec

-----------------------------------------------------------------------------
\* The field list of a hash.

\* The fields that HSET has stored and nothing has removed.
Stored == {f \in Fields : field_key[f] # None} \cup blank

HashInv ==
  kind = "hash" =>
    /\ Busy
    /\ DOMAIN field_key = Fields
    /\ blank \in SUBSET Fields
    /\ key_value \in Seq(Fields) \cup {None}
    /\ Hash!FieldListMatchesFields

\* list has each of names exactly once.
Lists(list, names) ==
  /\ list \in Seq(Fields)
  /\ {list[i] : i \in DOMAIN list} = names
  /\ \A i, j \in DOMAIN list : list[i] = list[j] => i = j

\* The keys after a step, in these terms.
HashGoal ==
  /\ DOMAIN field_key' = Fields
  /\ blank' \in SUBSET Fields
  /\ \A f \in blank' : field_key'[f] = None
  /\ \/ key_value' = None /\ Stored' = {}
     \/ Lists(key_value', Stored')

\* The instance counts as everybody else.
LEMMA HashCardinality == \A S : Hash!Cardinality(S) = Cardinality(S)
BY DEF Hash!Cardinality, Cardinality

\* The empty list.
LEMMA NoFieldListed == Lists(<< >>, {})
<1>1. << >> \in Seq(Fields) /\ Len(<< >>) = 0
  BY EmptySeq
<1>2. DOMAIN << >> = {}
  OBVIOUS
<1> QED
  BY <1>1, <1>2 DEF Lists

\* The invariant before a step, in the same terms.
LEMMA HashListed ==
  ASSUME HashInv, kind = "hash"
  PROVE  /\ Busy /\ DOMAIN field_key = Fields /\ blank \in SUBSET Fields
         /\ \A f \in blank : field_key[f] = None
         /\ key_value # None => key_value = Hash!get_fileds_from_hash_value
         /\ Lists(Hash!get_fileds_from_hash_value, Stored)
<1>1. Hash!get_fileds_from_hash_value \in Seq(Fields)
  BY EmptySeq DEF HashInv, Hash!get_fileds_from_hash_value
<1> QED
  BY <1>1 DEF HashInv, Lists, Stored, Hash!FieldListMatchesFields, Hash!ToSet,
     Hash!IsInjective, Hash!get_fileds_from_hash_value

\* What a step must achieve.
LEMMA HashGoalReached ==
  ASSUME Busy', HashGoal
  PROVE  HashInv'
<1>1. CASE key_value' = None /\ Stored' = {}
  <2>1. Hash!get_fileds_from_hash_value' = << >>
    BY <1>1 DEF Hash!get_fileds_from_hash_value
  <2>2. Lists(Hash!get_fileds_from_hash_value', Stored')
    BY <1>1, <2>1, NoFieldListed
  <2>3. Hash!FieldListMatchesFields'
    BY <2>2 DEF HashGoal, Lists, Stored, Hash!FieldListMatchesFields, Hash!ToSet,
       Hash!IsInjective
  <2> QED
    BY <1>1, <2>3 DEF HashInv, HashGoal
<1>2. CASE Lists(key_value', Stored')
  <2>1. key_value' \in Seq(Fields) /\ key_value' # None
    BY <1>2, NoneAssumption DEF Lists
  <2>2. Hash!get_fileds_from_hash_value' = key_value'
    BY <2>1 DEF Hash!get_fileds_from_hash_value
  <2>3. Hash!FieldListMatchesFields'
    BY <1>2, <2>2 DEF HashGoal, Lists, Stored, Hash!FieldListMatchesFields, Hash!ToSet,
       Hash!IsInjective
  <2> QED
    BY <2>1, <2>3 DEF HashInv, HashGoal
<1> QED
  BY <1>1, <1>2 DEF HashGoal

\* Every action of a hash is a step of a thread.
LEMMA HashThreads ==
  ASSUME kind = "hash", kind' = kind, [Hash!Next]_(Hash!vars)
  PROVE  ThreadStep
<1> USE DEF Hash!SeeExpired, Hash!SeeLive, Hash!ReadLive, Hash!Waiting, Hash!Return, Hash!GoOn,
            Hash!Idle, Hash!Call, ThreadStep
<1>1. CASE UNCHANGED Hash!vars
  BY <1>1 DEF Hash!vars, Hash!expiryVars
<1>2. CASE Hash!Tick
  BY <1>2 DEF Hash!Tick
<1>3. ASSUME NEW c \in Clients, Hash!HSetBegin(c) \/ Hash!HDelBegin(c)
      PROVE  ThreadStep
  BY <1>3 DEF Hash!HSetBegin, Hash!HDelBegin
<1>4. ASSUME NEW c \in Clients, Hash!HSetClean(c)
      PROVE  ThreadStep
  BY <1>4 DEF Hash!HSetClean
<1>5. ASSUME NEW c \in Clients, Hash!HSetApply(c) \/ Hash!HDelApply(c) \/ Hash!CleanAndReturn(c)
      PROVE  ThreadStep
  BY <1>5 DEF Hash!HSetApply, Hash!HDelApply, Hash!CleanAndReturn
<1>6. ASSUME NEW c \in Clients, Hash!HGet(c) \/ Hash!HKeys(c)
      PROVE  ThreadStep
  BY <1>6 DEF Hash!HGet, Hash!HKeys
<1>7. ASSUME NEW c \in Clients, Hash!Del(c) \/ \E seconds \in Ttls : Hash!Expire(c, seconds)
      PROVE  ThreadStep
  BY <1>7 DEF Hash!Del, Hash!Expire
<1> QED
  BY <1>1, <1>2, <1>3, <1>4, <1>5, <1>6, <1>7 DEF Hash!Next

\* DEL and expiry go by the list and reach every field.
LEMMA RemoveListedStep ==
  ASSUME HashInv, kind = "hash", Hash!RemoveListed, key_value' = None, blank' = {}
  PROVE  HashGoal
<1>1. Lists(Hash!get_fileds_from_hash_value, Stored)
  BY HashListed
<1>2. field_key' = [f \in Fields |->
                      IF f \in Hash!ToSet(Hash!get_fileds_from_hash_value)
                        THEN None ELSE field_key[f]]
  BY DEF Hash!RemoveListed
<1>3. Hash!ToSet(Hash!get_fileds_from_hash_value) = Stored
  BY <1>1 DEF Lists, Hash!ToSet
<1>4. \A f \in Fields : field_key'[f] = None
  BY <1>2, <1>3 DEF Stored
<1> QED
  BY <1>2, <1>4 DEF HashGoal, Stored

\* An entry is taken out of a list of distinct fields.
LEMMA OneRemoved ==
  ASSUME NEW s \in Seq(Fields), \A i, j \in DOMAIN s : s[i] = s[j] => i = j,
         NEW f, \E i \in DOMAIN s : s[i] = f
  PROVE  Lists(Hash!RemoveFirst(s, f), {s[i] : i \in DOMAIN s} \ {f})
<1> DEFINE n == Len(s)
           Found == {i \in 1..Len(s) : s[i] = f}
<1>1. n \in Nat /\ DOMAIN s = 1..n
  BY LenProperties
<1>2. PICK k \in 1..n : s[k] = f
  BY <1>1
<1>3. \A i \in 1..n : s[i] = f => i = k
  BY <1>1, <1>2
<1>4. Hash!Min(Found) = k
  <2>1. Found = {k}
    BY <1>2, <1>3
  <2>2. \E x \in Found : \A y \in Found : x =< y
    BY <1>1, <2>1
  <2>3. Hash!Min(Found) \in Found
    BY <2>2, Zenon DEF Hash!Min
  <2> QED
    BY <2>1, <2>3
<1>5. Hash!RemoveFirst(s, f) = Hash!RemoveAt(s, k)
  <2>1. Found # {}
    BY <1>2
  <2>2. Hash!RemoveFirst(s, f) = Hash!RemoveAt(s, IF Found # {} THEN Hash!Min(Found) ELSE 0)
    BY <1>2 DEF Hash!RemoveFirst, Hash!SelectInSeq
  <2> QED
    BY <1>4, <2>1, <2>2
<1> DEFINE a == SubSeq(s, 1, k - 1)
           b == SubSeq(s, k + 1, n)
           r == a \o b
<1>6. Hash!RemoveAt(s, k) = r
  BY DEF Hash!RemoveAt
<1>7. a \in Seq(Fields) /\ Len(a) = k - 1 /\ \A i \in 1..(k - 1) : a[i] = s[i]
  BY <1>1, SubSeqProperties
<1>8. b \in Seq(Fields) /\ Len(b) = n - k /\ \A i \in 1..(n - k) : b[i] = s[k + i]
  <2>1. \A i \in (k + 1)..n : s[i] \in Fields
    BY <1>1
  <2>2. /\ b \in Seq(Fields) /\ Len(b) = IF k + 1 <= n THEN n - (k + 1) + 1 ELSE 0
        /\ \A i \in 1..(n - (k + 1) + 1) : b[i] = s[(k + 1) + i - 1]
    <3> HIDE DEF n
    <3> QED
      BY <1>1, <2>1, SubSeqProperties
  <2>3. \A i \in 1..(n - k) : (k + 1) + i - 1 = k + i
    BY <1>1
  <2>4. n - (k + 1) + 1 = n - k /\ ((~ (k + 1 <= n)) => n - k = 0)
    <3> HIDE DEF n, b
    <3>1. n \in Nat /\ k \in 1..n
      BY <1>1
    <3> QED
      BY <3>1
  <2> HIDE DEF b, n
  <2> QED
    BY <2>2, <2>3, <2>4
<1> HIDE DEF a, b, n
<1>9. /\ r \in Seq(Fields) /\ Len(r) = n - 1
      /\ \A i \in 1..(n - 1) : r[i] = IF i < k THEN s[i] ELSE s[i + 1]
  <2>0. a \in Seq(Fields) /\ b \in Seq(Fields)
    BY <1>7, <1>8
  <2>1. r \in Seq(Fields) /\ Len(r) = Len(a) + Len(b)
    BY <2>0, ConcatProperties
  <2>2. \A i \in 1..(Len(a) + Len(b)) : r[i] = IF i <= Len(a) THEN a[i] ELSE b[i - Len(a)]
    BY <2>0, ConcatProperties
  <2>3. ASSUME NEW i \in 1..(n - 1)
        PROVE  r[i] = IF i < k THEN s[i] ELSE s[i + 1]
    <3>1. CASE i < k
      <4>1. i \in 1..(Len(a) + Len(b)) /\ i <= Len(a) /\ i \in 1..(k - 1)
        BY <1>1, <1>7, <1>8, <3>1
      <4>2. r[i] = a[i]
        BY <2>2, <4>1
      <4> HIDE DEF r
      <4> QED
        BY <1>7, <3>1, <4>1, <4>2
    <3>2. CASE i >= k
      <4>1. i - (k - 1) \in 1..(n - k) /\ k + (i - (k - 1)) = i + 1
        BY <1>1, <3>2
      <4>2. i \in 1..(Len(a) + Len(b)) /\ ~ i <= Len(a) /\ i - Len(a) = i - (k - 1) /\ ~ i < k
        BY <1>1, <1>7, <1>8, <3>2
      <4>3. r[i] = b[i - (k - 1)]
        BY <2>2, <4>2
      <4> QED
        BY <1>8, <4>1, <4>2, <4>3
    <3>3. i < k \/ i >= k
      BY <1>1
    <3> HIDE DEF r
    <3> QED
      BY <3>1, <3>2, <3>3
  <2> QED
    BY <1>1, <1>7, <1>8, <2>1, <2>3
<1> HIDE DEF r
<1>10. DOMAIN r = 1..(n - 1)
  BY <1>1, <1>9, LenProperties
<1>11. \A i \in 1..(n - 1) : r[i] # f /\ \E j \in DOMAIN s : r[i] = s[j]
  <2> SUFFICES ASSUME NEW i \in 1..(n - 1)
               PROVE  r[i] # f /\ \E j \in DOMAIN s : r[i] = s[j]
    OBVIOUS
  <2>1. CASE i < k
    BY <1>1, <1>3, <1>9, <2>1
  <2>2. CASE i >= k
    <3>1. i + 1 \in 1..n /\ i + 1 # k
      BY <1>1, <2>2
    <3> QED
      BY <1>1, <1>3, <1>9, <2>2, <3>1
  <2> QED
    BY <1>1, <2>1, <2>2
<1>12. \A j \in DOMAIN s : s[j] # f => \E i \in 1..(n - 1) : r[i] = s[j]
  <2> SUFFICES ASSUME NEW j \in 1..n, j # k
               PROVE  \E i \in 1..(n - 1) : r[i] = s[j]
    BY <1>1, <1>2
  <2>1. CASE j < k
    <3>1. j \in 1..(n - 1) /\ r[j] = s[j]
      BY <1>1, <1>9, <2>1
    <3> QED
      BY <3>1
  <2>2. CASE j > k
    <3>1. j - 1 \in 1..(n - 1) /\ ~ (j - 1 < k) /\ (j - 1) + 1 = j
      BY <1>1, <2>2
    <3>2. r[j - 1] = s[j]
      BY <1>9, <3>1
    <3> QED
      BY <3>1, <3>2
  <2> QED
    BY <1>1, <2>1, <2>2
<1>13. ASSUME NEW i \in 1..(n - 1), NEW j \in 1..(n - 1), r[i] = r[j]
       PROVE  i = j
  <2>1. PICK x \in 1..n : x = IF i < k THEN i ELSE i + 1
    BY <1>1
  <2>2. PICK y \in 1..n : y = IF j < k THEN j ELSE j + 1
    BY <1>1
  <2>3. s[x] = s[y]
    BY <1>9, <1>13, <2>1, <2>2
  <2>4. x = y
    BY <1>1, <2>3
  <2> QED
    BY <1>1, <2>1, <2>2, <2>4
<1>14. {r[i] : i \in DOMAIN r} = {s[i] : i \in DOMAIN s} \ {f}
  BY <1>10, <1>11, <1>12
<1> QED
  BY <1>5, <1>6, <1>9, <1>10, <1>13, <1>14 DEF Lists

\* HDEL takes a field and its entry in the list.
LEMMA HDelStep ==
  ASSUME HashInv, kind = "hash", NEW c \in Clients, Hash!HDelApply(c)
  PROVE  HashGoal
<1> DEFINE f == client[c].cmd.args[1]
           list == Hash!get_fileds_from_hash_value
<1>1. /\ DOMAIN field_key = Fields /\ Lists(list, Stored)
      /\ blank \in SUBSET Fields /\ \A g \in blank : field_key[g] = None
      /\ key_value # None => key_value = list
      /\ client[c].cmd \in Commands["hash"] /\ "hash" \in Kinds /\ client[c].cmd.op = "hdel"
  BY HashListed DEF Busy, Hash!HDelApply
<1>2. f \in Fields
  BY <1>1, CommandsAssumption DEF HashCommand
<1>3. field_key' = [field_key EXCEPT ![f] = None] /\ key_value' = Hash!Unlist(f)
      /\ blank' = blank \ {f}
  BY DEF Hash!HDelApply
<1> HIDE DEF f
<1>4. /\ DOMAIN field_key' = Fields /\ blank' \in SUBSET Fields
      /\ \A g \in blank' : field_key'[g] = None
      /\ Stored' = Stored \ {f}
  BY <1>1, <1>2, <1>3 DEF Stored
<1>5. list \in Seq(Fields) /\ (\A i, j \in DOMAIN list : list[i] = list[j] => i = j)
      /\ {list[i] : i \in DOMAIN list} = Stored
  BY <1>1 DEF Lists
<1>6. CASE key_value = <<f>>
  <2>1. key_value \in Seq(Fields)
    BY <1>2, <1>6
  <2>2. key_value # None
    BY <2>1, NoneAssumption
  <2>3. list = <<f>>
    BY <1>1, <1>6, <2>2
  <2>4. DOMAIN <<f>> = {1} /\ <<f>>[1] = f
    OBVIOUS
  <2>5. Stored = {f}
    BY <1>5, <2>3, <2>4
  <2>6. Stored' = {}
    BY <1>4, <2>5
  <2>7. key_value' = None
    BY <1>3, <1>6 DEF Hash!Unlist
  <2> QED
    BY <1>4, <2>6, <2>7 DEF HashGoal
<1>7. CASE key_value # <<f>> /\ f \in Hash!ToSet(list)
  <2>1. \E i \in DOMAIN list : list[i] = f
    BY <1>7 DEF Hash!ToSet
  <2>2. key_value # None
    <3>1. DOMAIN << >> = {}
      OBVIOUS
    <3>2. list # << >>
      BY <2>1, <3>1
    <3> QED
      BY <3>2 DEF Hash!get_fileds_from_hash_value
  <2>3. key_value' = Hash!RemoveFirst(list, f)
    BY <1>1, <1>3, <1>7, <2>2 DEF Hash!Unlist
  <2> HIDE DEF list
  <2>4. Lists(Hash!RemoveFirst(list, f), {list[i] : i \in DOMAIN list} \ {f})
    BY <1>5, <2>1, OneRemoved
  <2>5. Lists(key_value', Stored')
    BY <1>4, <1>5, <2>3, <2>4
  <2> QED
    BY <1>4, <2>5 DEF HashGoal
<1>8. CASE key_value # <<f>> /\ f \notin Hash!ToSet(list)
  <2>1. key_value' = key_value
    BY <1>3, <1>8 DEF Hash!Unlist
  <2>2. f \notin Stored
    BY <1>5, <1>8 DEF Hash!ToSet
  <2>3. Stored' = Stored
    BY <1>4, <2>2
  <2>4. CASE key_value = None
    <3>1. list = << >>
      BY <2>4 DEF Hash!get_fileds_from_hash_value
    <3>2. DOMAIN << >> = {}
      OBVIOUS
    <3>3. Stored = {}
      BY <1>5, <3>1, <3>2
    <3> QED
      BY <1>4, <2>1, <2>3, <2>4, <3>3 DEF HashGoal
  <2>5. CASE key_value # None
    BY <1>1, <1>4, <2>1, <2>3, <2>5 DEF HashGoal
  <2> QED
    BY <2>4, <2>5
<1> QED
  BY <1>6, <1>7, <1>8

\* Ascending is an enumeration: how many elements are smaller tells an element
\* from the others.
LEMMA AscendingEnumerates ==
  ASSUME NEW S \in SUBSET Nat, IsFiniteSet(S)
  PROVE  LET a == Hash!Ascending(S)
         IN  /\ Cardinality(S) \in Nat /\ DOMAIN a = 1..Cardinality(S)
             /\ {a[i] : i \in DOMAIN a} = S
             /\ \A i, j \in DOMAIN a : a[i] = a[j] => i = j
<1> DEFINE c == Cardinality(S)
           Below(x) == {y \in S : y < x}
           rank == [x \in S |-> Cardinality(Below(x)) + 1]
           a == Hash!Ascending(S)
<1>1. c \in Nat
  BY FS_CardinalityType
<1>2. \A x \in S : IsFiniteSet(Below(x)) /\ Cardinality(Below(x)) \in Nat
  BY FS_Subset, FS_CardinalityType
<1>3. ASSUME NEW x \in S, NEW T \in SUBSET S, Below(x) \subseteq T, x \in T
      PROVE  Cardinality(Below(x)) < Cardinality(T)
  <2>1. IsFiniteSet(T) /\ Cardinality(T) \in Nat
    BY FS_Subset, FS_CardinalityType
  <2>2. Below(x) \in SUBSET T /\ Below(x) # T
    BY <1>3
  <2>3. Cardinality(Below(x)) <= Cardinality(T) /\ Cardinality(T) # Cardinality(Below(x))
    BY <2>1, <2>2, FS_Subset
  <2> QED
    BY <1>2, <2>1, <2>3
<1>4. rank \in [S -> 1..c]
  <2> SUFFICES ASSUME NEW x \in S
               PROVE  Cardinality(Below(x)) + 1 \in 1..c
    OBVIOUS
  <2>1. Cardinality(Below(x)) < c
    BY <1>3
  <2> QED
    BY <1>1, <1>2, <2>1
<1>5. \A x, y \in S : x < y => rank[x] < rank[y]
  <2> SUFFICES ASSUME NEW x \in S, NEW y \in S, x < y
               PROVE  Cardinality(Below(x)) + 1 < Cardinality(Below(y)) + 1
    OBVIOUS
  <2>1. \A z \in S : z \in Nat
    OBVIOUS
  <2>2. x \in Below(y) /\ Below(y) \in SUBSET S
    OBVIOUS
  <2>3. \A z \in S : z < x => z < y
    BY <2>1
  <2>4. Below(x) \subseteq Below(y)
    BY <2>3
  <2>5. Cardinality(Below(x)) < Cardinality(Below(y))
    BY <1>3, <2>2, <2>4
  <2> QED
    BY <1>2, <2>5
<1>6. \A x \in S : rank[x] \in Nat
  BY <1>2
<1>7. \A x, y \in S : rank[x] = rank[y] => x = y
  <2> SUFFICES ASSUME NEW x \in S, NEW y \in S, rank[x] = rank[y]
               PROVE  x = y
    OBVIOUS
  <2>1. ~ (x < y) /\ ~ (y < x)
    BY <1>5, <1>6
  <2> QED
    BY <2>1
<1>8. \A x \in S : (Cardinality({y \in S : y < x}) + 1) = rank[x]
  OBVIOUS
<1>9. a = [i \in 1..c |-> CHOOSE x \in S : Hash!Cardinality({y \in S : y < x}) = i - 1]
  BY HashCardinality DEF Hash!Ascending
<1> HIDE DEF rank, a, c
<1>10. \A i \in 1..c : \E x \in S : rank[x] = i
  <2>1. rank \in Injection(S, 1..c)
    BY <1>4, <1>7 DEF Injection, IsInjective
  <2>2. IsFiniteSet(1..c) /\ Cardinality(1..c) = c
    BY <1>1, FS_Interval
  <2>3. rank \in Surjection(S, 1..c)
    BY <2>1, <2>2, FS_Injection DEF c
  <2> QED
    BY <2>3 DEF Surjection
<1>11. \A i \in 1..c : a[i] \in S /\ rank[a[i]] = i
  <2> SUFFICES ASSUME NEW i \in 1..c
               PROVE  a[i] \in S /\ rank[a[i]] = i
    OBVIOUS
  <2>1. PICK x \in S : rank[x] = i
    BY <1>10
  <2>2. Cardinality({y \in S : y < x}) = i - 1
    BY <1>2, <1>8, <2>1
  <2>3. Hash!Cardinality({y \in S : y < x}) = i - 1
    BY <2>2, HashCardinality
  <2>4. a[i] = CHOOSE z \in S : Hash!Cardinality({y \in S : y < z}) = i - 1
    BY <1>9
  <2>5. a[i] \in S /\ Hash!Cardinality({y \in S : y < a[i]}) = i - 1
    BY <2>3, <2>4, Zenon
  <2>6. Cardinality({y \in S : y < a[i]}) = i - 1
    BY <2>5, HashCardinality
  <2>7. Cardinality({y \in S : y < a[i]}) + 1 = rank[a[i]]
    BY <1>8, <2>5
  <2>8. i \in Int
    BY <1>1
  <2> QED
    BY <2>5, <2>6, <2>7, <2>8
<1>12. DOMAIN a = 1..c
  BY <1>9
<1>13. \A i, j \in 1..c : a[i] = a[j] => i = j
  BY <1>11
<1>14. \A x \in S : \E i \in 1..c : a[i] = x
  <2> SUFFICES ASSUME NEW x \in S
               PROVE  \E i \in 1..c : a[i] = x
    OBVIOUS
  <2>1. rank[x] \in 1..c
    BY <1>4
  <2>2. a[rank[x]] \in S /\ rank[a[rank[x]]] = rank[x]
    BY <1>11, <2>1
  <2> QED
    BY <1>7, <2>1, <2>2
<1>15. {a[i] : i \in 1..c} = S
  BY <1>11, <1>14
<1> QED
  BY <1>1, <1>12, <1>13, <1>15 DEF a, c

\* The lowest of the pairs that name a field is one of them, and so is the last.
LEMMA HashMinMax ==
  ASSUME NEW S \in SUBSET Nat, IsFiniteSet(S), S # {}
  PROVE  Hash!Min(S) \in S /\ Hash!Max(S) \in S
<1>1. \E x \in S : \A y \in S : x >= y
  BY MaxIsIn
<1>2. PICK x \in S : \A y \in S : ~ (<<y, x>> \in OpToRel(<, Nat))
  BY NatLessThanWellFounded, WFMin
<1>3. \A y \in S : ~ (y < x)
  BY <1>2 DEF OpToRel
<1>4. \E z \in S : \A y \in S : z =< y
  BY <1>3
<1> QED
  BY <1>1, <1>4, Zenon DEF Hash!Min, Hash!Max

\* What HSET appends to a list are the fields it names that are not in the list,
\* each once.
LEMMA AppendedFields ==
  ASSUME NEW list \in Seq(Fields), NEW args,
         \A i, j \in DOMAIN list : list[i] = list[j] => i = j,
         IsArgs(args), \A i \in DOMAIN args : args[i][1] \in Fields
  PROVE  Lists(Hash!ListPairs(list, args),
               {list[i] : i \in DOMAIN list} \cup {args[i][1] : i \in DOMAIN args})
<1> DEFINE A == Hash!Added(list, args)
           a == Hash!Ascending(A)
           new == [n \in DOMAIN a |-> args[a[n]][1]]
           r == list \o new
           listed == {list[i] : i \in DOMAIN list}
           Named(f) == Hash!Mentions(args, f)
<1>1. DOMAIN args \subseteq Nat /\ IsFiniteSet(DOMAIN args)
  BY DEF IsArgs
<1>2. A \in SUBSET DOMAIN args
  BY DEF Hash!Added
<1>3. A \in SUBSET Nat /\ IsFiniteSet(A)
  BY <1>1, <1>2, FS_Subset
<1>4. \A i \in DOMAIN args : Hash!Min(Named(args[i][1])) \in Named(args[i][1])
  <2> SUFFICES ASSUME NEW i \in DOMAIN args
               PROVE  Hash!Min(Named(args[i][1])) \in Named(args[i][1])
    OBVIOUS
  <2>1. Named(args[i][1]) \in SUBSET DOMAIN args /\ i \in Named(args[i][1])
    BY DEF Hash!Mentions
  <2> HIDE DEF Named
  <2>2. Named(args[i][1]) \in SUBSET Nat /\ IsFiniteSet(Named(args[i][1]))
    BY <1>1, <2>1, FS_Subset
  <2> QED
    BY <2>1, <2>2, HashMinMax
<1>5. \A i \in A : args[i][1] \notin listed /\ i = Hash!Min(Named(args[i][1]))
  BY DEF Hash!Added, Hash!ToSet
<1>6. \A i, j \in A : args[i][1] = args[j][1] => i = j
  <2> HIDE DEF A, Named
  <2> QED
    BY <1>5
<1>7. \A i \in DOMAIN args : args[i][1] \in listed \/ \E j \in A : args[j][1] = args[i][1]
  <2> SUFFICES ASSUME NEW i \in DOMAIN args, args[i][1] \notin listed
               PROVE  \E j \in A : args[j][1] = args[i][1]
    OBVIOUS
  <2>1. PICK j : j = Hash!Min(Named(args[i][1]))
    OBVIOUS
  <2>2. j \in DOMAIN args /\ args[j][1] = args[i][1]
    BY <1>4, <2>1 DEF Hash!Mentions
  <2>3. j \in A
    BY <2>1, <2>2 DEF Hash!Added, Hash!ToSet
  <2> QED
    BY <2>2, <2>3
<1> HIDE DEF A, Named
<1>8. /\ Cardinality(A) \in Nat /\ DOMAIN a = 1..Cardinality(A)
      /\ {a[i] : i \in DOMAIN a} = A
      /\ \A i, j \in DOMAIN a : a[i] = a[j] => i = j
  BY <1>3, AscendingEnumerates
<1>9. Hash!ListPairs(list, args) = r
  BY DEF Hash!ListPairs, A
<1> HIDE DEF a
<1> DEFINE n == Len(list)
           m == Cardinality(A)
<1>10. n \in Nat /\ DOMAIN list = 1..n /\ m \in Nat
  BY <1>8, LenProperties
<1>11. \A k \in 1..m : a[k] \in A /\ new[k] = args[a[k]][1] /\ new[k] \in Fields
  BY <1>2, <1>8
<1>12. new \in Seq(Fields) /\ Len(new) = m
  BY <1>8, <1>10, <1>11
<1> HIDE DEF new, m, n
<1>13. /\ r \in Seq(Fields) /\ Len(r) = Len(list) + Len(new)
       /\ \A k \in 1..(Len(list) + Len(new)) :
            r[k] = IF k <= Len(list) THEN list[k] ELSE new[k - Len(list)]
  BY <1>12, ConcatProperties
<1>14. Len(list) = n
  BY DEF n
<1> HIDE DEF r
<1>15. /\ r \in Seq(Fields) /\ Len(r) = n + m
       /\ \A k \in 1..(n + m) : r[k] = IF k <= n THEN list[k] ELSE new[k - n]
  BY <1>12, <1>13, <1>14
<1>16. DOMAIN r = 1..(n + m)
  BY <1>15, LenProperties
<1> HIDE DEF r, listed
<1>17. \A k \in 1..(n + m) :
         \/ k \in 1..n /\ r[k] = list[k] /\ r[k] \in listed
         \/ k - n \in 1..m /\ r[k] = args[a[k - n]][1] /\ a[k - n] \in A /\ r[k] \notin listed
  <2> SUFFICES ASSUME NEW k \in 1..(n + m)
               PROVE  \/ k \in 1..n /\ r[k] = list[k] /\ r[k] \in listed
                      \/ /\ k - n \in 1..m /\ r[k] = args[a[k - n]][1]
                         /\ a[k - n] \in A /\ r[k] \notin listed
    OBVIOUS
  <2>1. CASE k <= n
    <3>1. k \in 1..n /\ r[k] = list[k]
      BY <1>10, <1>15, <2>1
    <3> QED
      BY <1>10, <3>1 DEF listed
  <2>2. CASE ~ (k <= n)
    <3>1. k - n \in 1..m /\ r[k] = new[k - n]
      BY <1>10, <1>15, <2>2
    <3>2. r[k] = args[a[k - n]][1] /\ a[k - n] \in A
      BY <1>11, <3>1
    <3>3. r[k] \notin listed
      BY <1>5, <3>2 DEF listed
    <3> QED
      BY <3>1, <3>2, <3>3
  <2> QED
    BY <2>1, <2>2
<1>18. ASSUME NEW k \in 1..(n + m), NEW l \in 1..(n + m), r[k] = r[l]
       PROVE  k = l
  <2>1. CASE r[k] \in listed
    <3>1. k \in 1..n /\ l \in 1..n /\ list[k] = list[l]
      BY <1>17, <1>18, <2>1
    <3> QED
      BY <1>10, <3>1
  <2>2. CASE r[k] \notin listed
    <3>1. /\ k - n \in 1..m /\ a[k - n] \in A /\ r[k] = args[a[k - n]][1]
          /\ l - n \in 1..m /\ a[l - n] \in A /\ r[l] = args[a[l - n]][1]
      BY <1>17, <1>18, <2>2
    <3>2. a[k - n] = a[l - n]
      BY <1>6, <1>18, <3>1
    <3>3. k - n = l - n
      BY <1>8, <3>1, <3>2 DEF m
    <3> QED
      BY <1>10, <3>3
  <2> QED
    BY <2>1, <2>2
<1>19. {r[k] : k \in DOMAIN r} = listed \cup {args[i][1] : i \in DOMAIN args}
  <2>1. \A k \in DOMAIN r : r[k] \in listed \cup {args[i][1] : i \in DOMAIN args}
    BY <1>2, <1>16, <1>17
  <2>2. ASSUME NEW f \in listed
        PROVE  \E k \in DOMAIN r : r[k] = f
    <3>1. PICK k \in 1..n : list[k] = f
      BY <1>10, <2>2 DEF listed
    <3>2. k \in 1..(n + m) /\ k <= n
      BY <1>10
    <3> QED
      BY <1>15, <1>16, <3>1, <3>2
  <2>3. ASSUME NEW i \in DOMAIN args, args[i][1] \notin listed
        PROVE  \E k \in DOMAIN r : r[k] = args[i][1]
    <3>1. PICK j \in A : args[j][1] = args[i][1]
      BY <1>7, <2>3 DEF listed
    <3>2. PICK l \in 1..m : a[l] = j
      BY <1>8 DEF m
    <3>3. n + l \in 1..(n + m) /\ ~ (n + l <= n) /\ (n + l) - n = l
      BY <1>10
    <3>4. r[n + l] = new[l]
      BY <1>15, <3>3
    <3> QED
      BY <1>11, <1>16, <3>1, <3>2, <3>3, <3>4
  <2> QED
    BY <2>1, <2>2, <2>3
<1>20. Lists(r, listed \cup {args[i][1] : i \in DOMAIN args})
  BY <1>15, <1>16, <1>18, <1>19, Zenon DEF Lists
<1> QED
  BY <1>9, <1>20, Zenon DEF listed

\* HSET puts every field it names and lists it.
LEMMA HSetStep ==
  ASSUME HashInv, kind = "hash", NEW c \in Clients, Hash!HSetApply(c)
  PROVE  HashGoal
<1> DEFINE args == client[c].cmd.args
           list == Hash!get_fileds_from_hash_value
           named == {args[i][1] : i \in DOMAIN args}
<1>1. /\ DOMAIN field_key = Fields /\ Lists(list, Stored)
      /\ blank \in SUBSET Fields /\ \A f \in blank : field_key[f] = None
      /\ client[c].cmd \in Commands["hash"] /\ "hash" \in Kinds /\ client[c].cmd.op = "hset"
  BY HashListed DEF Busy, Hash!HSetApply
<1>2. /\ IsArgs(args)
      /\ \A i \in DOMAIN args : args[i][1] \in Fields
  BY <1>1, CommandsAssumption DEF HashCommand
<1>3. field_key' = Hash!PutPairs(field_key, args) /\ key_value' = Hash!ListPairs(list, args)
      /\ blank' = Hash!BlankAfter(args)
  BY DEF Hash!HSetApply
<1> HIDE DEF args, list
<1>4. Lists(Hash!ListPairs(list, args), Stored \cup named)
  <2>1. /\ list \in Seq(Fields) /\ (\A i, j \in DOMAIN list : list[i] = list[j] => i = j)
        /\ {list[i] : i \in DOMAIN list} = Stored
    BY <1>1 DEF Lists
  <2>2. Lists(Hash!ListPairs(list, args), {list[i] : i \in DOMAIN list} \cup named)
    BY <1>2, <2>1, AppendedFields
  <2> QED
    BY <2>1, <2>2
<1>5. ASSUME NEW f \in Fields
      PROVE  /\ f \in Stored' <=> f \in Stored \cup named
             /\ f \in blank' => field_key'[f] = None
  <2> DEFINE M == Hash!Mentions(args, f)
             last == args[Hash!Max(M)][2]
  <2>1. /\ field_key'[f] = IF M = {} THEN field_key[f] ELSE last
        /\ f \in blank' <=> IF M = {} THEN f \in blank ELSE last = None
    BY <1>3 DEF Hash!PutPairs, Hash!BlankAfter
  <2>2. M = {} <=> f \notin named
    BY DEF Hash!Mentions
  <2>3. f \in Stored <=> field_key[f] # None \/ f \in blank
    BY DEF Stored
  <2>4. f \in Stored' <=> field_key'[f] # None \/ f \in blank'
    BY DEF Stored
  <2> HIDE DEF M, last, named
  <2> QED
    BY <1>1, <2>1, <2>2, <2>3, <2>4
<1>6. DOMAIN field_key' = Fields /\ blank' \in SUBSET Fields
  BY <1>3 DEF Hash!PutPairs, Hash!BlankAfter
<1>7. named \subseteq Fields /\ Stored \subseteq Fields
  BY <1>1, <1>2 DEF Stored
<1>8. Stored' \subseteq Fields
  BY <1>6 DEF Stored
<1>9. Stored' = Stored \cup named
  BY <1>5, <1>7, <1>8
<1> QED
  BY <1>3, <1>4, <1>5, <1>6, <1>9 DEF HashGoal

\* Every step keeps the invariant of a hash.
LEMMA HashStep == HashInv /\ [Next]_vars => HashInv'
<1> SUFFICES ASSUME HashInv, [Next]_vars, kind' = "hash"
             PROVE  HashInv'
  BY DEF HashInv
<1>1. kind = "hash" /\ kind' = kind /\ [Hash!Next]_(Hash!vars)
  BY DEF Next, vars, Hash!vars, expiryVars, Hash!expiryVars, Hash!hash,
     fields
<1>2. Busy'
  BY <1>1, HashThreads, ThreadsStayBusy DEF HashInv
<1>3. ASSUME UNCHANGED <<key_value, field_key, blank>>
      PROVE  HashInv'
  BY <1>1, <1>2, <1>3 DEF HashInv, Hash!FieldListMatchesFields, Hash!get_fileds_from_hash_value
<1>4. ASSUME NEW c \in Clients, \/ Hash!HSetClean(c) \/ Hash!CleanAndReturn(c) \/ Hash!Del(c)
                                \/ Hash!HSetApply(c) \/ Hash!HDelApply(c)
      PROVE  HashGoal
  <2>1. CASE Hash!HSetClean(c) \/ Hash!CleanAndReturn(c) \/ Hash!Del(c)
    BY <1>1, <2>1, RemoveListedStep
       DEF Hash!HSetClean, Hash!CleanAndReturn, Hash!Del, Hash!expire_hash_clean
  <2> QED
    BY <1>1, <1>4, <2>1, HSetStep, HDelStep
<1>5. ASSUME NEW c \in Clients, \/ Hash!HSetBegin(c) \/ Hash!HDelBegin(c)
                                \/ Hash!HGet(c) \/ Hash!HKeys(c)
      PROVE  HashInv'
  BY <1>3, <1>5 DEF Hash!HSetBegin, Hash!HDelBegin, Hash!HGet, Hash!HKeys, Hash!hash
<1>6. ASSUME UNCHANGED Hash!hash
      PROVE  HashInv'
  BY <1>3, <1>6 DEF Hash!hash
<1>7. ASSUME UNCHANGED Hash!vars
      PROVE  HashInv'
  BY <1>6, <1>7 DEF Hash!vars
<1>8. HashGoal => HashInv'
  BY <1>2, HashGoalReached
<1> QED
  BY <1>1, <1>4, <1>5, <1>6, <1>7, <1>8 DEF Hash!Next

\* The key of a hash lists the fields that HSET has stored and nothing has removed,
\* each once, for any number of threads, fields and pairs in an HSET, empty values
\* included, through expiry and DEL.
THEOREM FieldListsMatch == Spec => []FieldListMatchesFields
<1>1. Init => HashInv
  <2> SUFFICES ASSUME Init, kind = "hash"
               PROVE  HashInv
    BY DEF HashInv
  <2>1. Busy
    BY DEF Init, Busy, Hash!Init, Hash!ExpiryInit, Hash!Idle
  <2>2. key_value = None /\ field_key = Hash!NoFields /\ blank = {}
    BY DEF Init, Hash!Init
  <2>3. Hash!get_fileds_from_hash_value = << >> /\ Stored = {}
    BY <2>2 DEF Stored, Hash!get_fileds_from_hash_value, Hash!NoFields
  <2>4. Hash!FieldListMatchesFields
    BY <2>2, <2>3, NoFieldListed
       DEF Lists, Stored, Hash!FieldListMatchesFields, Hash!ToSet, Hash!IsInjective
  <2> QED
    BY <2>1, <2>2, <2>4 DEF HashInv, Hash!NoFields
<1>2. HashInv => FieldListMatchesFields
  BY DEF HashInv, FieldListMatchesFields
<1> QED
  BY <1>1, <1>2, HashStep, PTL DEF Spec


-----------------------------------------------------------------------------
\* The server (RedisServer): the inductive invariant.

Replies == [request : Nat, kind : {"answer", "error", "none"}]

TypeInv ==
  /\ received \in [Connections -> Nat \X Nat]
  /\ consumed \in [Connections -> Nat \X Nat]
  /\ session \in [Connections -> {"reading", "writing", "closed"}]
  /\ response \in [Connections -> Replies]
  /\ replies \in [Connections -> Seq(Replies)]
  /\ closing \in [Connections -> BOOLEAN]
  /\ executed \in Seq(Connections \X Nat \X BOOLEAN)
  /\ running \in BOOLEAN

\* What was executed has been taken out of the buffer, at least in part.
TakenInv ==
  \A m \in DOMAIN executed : Before(<<executed[m][2], 0>>, consumed[executed[m][1]])

\* Reply s may come after reply r.
Follows(r, s) == r.request < s.request \/ (r.request = s.request /\ s.kind = "error")

\* The requests that have a reply, the one being written included, have been taken
\* out of the buffer, at least in part; and the one being written comes in order.
OrderInv ==
  \A c \in Connections :
    /\ \A n \in DOMAIN replies[c] : Before(<<replies[c][n].request, 0>>, consumed[c])
    /\ session[c] = "writing" =>
         /\ Before(<<response[c].request, 0>>, consumed[c])
         /\ \A n \in DOMAIN replies[c] : Follows(replies[c][n], response[c])

\* The right kind of reply to request n of c, the one-line form aside.
Right(c, n, outcome) ==
  Requests[c][n].argc > 0 =>
    (outcome = "answer" <=> WellCounted(Requests[c][n].op, Requests[c][n].argc))

\* A session whose requests arrive whole stands at the beginning of a request, and
\* has one reply for each request before it, the one it is writing included; but for
\* a request whose handling has ended the server.
WholeInv ==
  \A c \in Connections \ Split :
    /\ received[c][2] = 0 /\ consumed[c][2] = 0
    /\ session[c] = "reading" /\ running => consumed[c][1] = Len(replies[c]) + 1
    /\ session[c] = "writing" =>
         /\ consumed[c][1] = Len(replies[c]) + 2
         /\ response[c].request = Len(replies[c]) + 1
         /\ Right(c, Len(replies[c]) + 1, response[c].kind)

IInv == TypeInv /\ TakenInv /\ OrderInv /\ WholeInv /\ ExecutedInOrder /\ AnsweredInOrder

-----------------------------------------------------------------------------
\* The server: places.

\* Whatever a session takes out of a readable buffer, it takes something, and a
\* session whose requests arrive whole takes one request.
Takes(c) ==
  /\ consumed' \in [Connections -> Nat \X Nat]
  /\ Before(consumed[c], consumed'[c])
  /\ \A d \in Connections : d # c => consumed'[d] = consumed[d]
  /\ c \notin Split => consumed'[c] = NextRequest(c)

\* The place of a line's end.
LEMMA LineEndIsAfter ==
  ASSUME TypeInv, NEW c \in Connections, Readable(c)
  PROVE  /\ Number(c) \in Nat /\ consumed[c] \in Nat \X Nat /\ received[c] \in Nat \X Nat
         /\ Request(c).argc \in Nat /\ Size(c, Number(c)) = 2 + 4 * Request(c).argc
         /\ LineEnd(c) \in Nat \X Nat
         /\ Before(consumed[c], LineEnd(c))
         /\ Before(consumed[c], received[c])
         /\ consumed[c][2] = 0 /\ Request(c).argc = 0 => LineEnd(c) = NextRequest(c)
<1> DEFINE i == Number(c)
           j == consumed[c][2]
           k == 2 * (j \div 2) + 2
           n == Request(c).argc
<1>1. consumed[c] \in Nat \X Nat /\ received[c] \in Nat \X Nat /\ i \in Nat /\ j \in Nat
  BY DEF TypeInv, Number
<1>2. n \in Nat /\ Size(c, i) = 2 + 4 * n
  BY ServerParameters DEF Readable, Request, Size
<1>3. k \in Nat /\ k > j
  BY <1>1
<1>4. LineEnd(c) = IF k = Size(c, i) THEN <<i + 1, 0>> ELSE <<i, k>>
  BY DEF LineEnd, NextRequest
<1>5. consumed[c] = <<i, j>>
  BY <1>1 DEF Number
<1>6. j = 0 /\ n = 0 => k = Size(c, i)
  BY <1>1, <1>2
<1> HIDE DEF i, j, k
<1>7. LineEnd(c) \in Nat \X Nat /\ Before(consumed[c], LineEnd(c))
  BY <1>1, <1>3, <1>4, <1>5 DEF Before
<1>8. ~ Before(received[c], LineEnd(c))
  BY DEF Readable
<1>9. Before(consumed[c], received[c])
  BY <1>1, <1>7, <1>8 DEF Before
<1> QED
  BY <1>1, <1>2, <1>4, <1>6, <1>7, <1>9 DEF i, j, NextRequest

\* A session takes something in each of its ways.
LEMMA SessionsTake ==
  ASSUME TypeInv, WholeInv, NEW c \in Connections,
         NotArray(c) \/ PartialRequest(c) \/ HandleRequest(c) \/ HandleThrows(c)
  PROVE  Takes(c) /\ (c \notin Split => ~ PartialRequest(c))
<1>1. Readable(c)
  BY DEF NotArray, PartialRequest, HandleRequest, HandleThrows
<1>2. PICK p : /\ consumed' = [consumed EXCEPT ![c] = p]
               /\ \/ ~ IsArray(c) /\ p = LineEnd(c)
                  \/ IsArray(c) /\ Partial(c) /\ p = received[c]
                  \/ IsArray(c) /\ ~ Partial(c) /\ p = RequestEnd(c)
  BY DEF NotArray, PartialRequest, HandleRequest, HandleThrows, TakeRequest
<1>3. Number(c) \in Nat /\ consumed[c] \in Nat \X Nat /\ received[c] \in Nat \X Nat
  BY <1>1, LineEndIsAfter
<1>4. Before(consumed[c], NextRequest(c)) /\ NextRequest(c) \in Nat \X Nat
  BY <1>3 DEF Before, NextRequest, Number
<1>5. p \in Nat \X Nat /\ Before(consumed[c], p)
  BY <1>1, <1>2, <1>3, <1>4, LineEndIsAfter DEF RequestEnd
<1>6. consumed' \in [Connections -> Nat \X Nat] /\ consumed'[c] = p
      /\ \A d \in Connections : d # c => consumed'[d] = consumed[d]
  BY <1>2, <1>5 DEF TypeInv
<1>7. ASSUME c \notin Split
      PROVE  p = NextRequest(c) /\ ~ PartialRequest(c)
  <2>1. received[c][2] = 0 /\ consumed[c][2] = 0
    BY <1>7 DEF WholeInv
  <2>2. ~ Before(received[c], NextRequest(c))
    BY <1>1, <1>3, <2>1, LineEndIsAfter DEF Before, NextRequest, Number
  <2>3. ~ IsArray(c) => LineEnd(c) = NextRequest(c)
    BY <1>1, <2>1, LineEndIsAfter DEF IsArray
  <2>4. Size(c, Number(c)) - 2 \in Nat
    BY <1>1, LineEndIsAfter
  <2>5. ~ Partial(c)
    BY <1>3, <2>2, <2>4 DEF Partial, Before, NextRequest
  <2>6. RequestEnd(c) = NextRequest(c)
    BY <2>2 DEF RequestEnd
  <2> QED
    BY <1>2, <2>3, <2>5, <2>6 DEF PartialRequest
<1> QED
  BY <1>5, <1>6, <1>7 DEF Takes

-----------------------------------------------------------------------------
\* The server: steps.

\* A session that has taken a request writes a reply to it.
Replying(c, outcome) ==
  /\ response' = [response EXCEPT ![c] = Reply(Number(c), outcome)]
  /\ session' = [session EXCEPT ![c] = "writing"]
  /\ running /\ session[c] = "reading"
  /\ UNCHANGED <<received, replies, closing, running>>

\* Taking more out of the buffer leaves what is taken before.
LEMMA TakesMore ==
  ASSUME TypeInv, NEW c \in Connections, Takes(c), NEW d \in Connections, NEW i \in Nat,
         Before(<<i, 0>>, consumed[d])
  PROVE  Before(<<i, 0>>, consumed'[d])
<1>1. CASE d = c
  <2>1. /\ consumed[c] \in Nat \X Nat /\ consumed'[c] \in Nat \X Nat
        /\ Before(consumed[c], consumed'[c])
    BY DEF TypeInv, Takes
  <2> QED
    BY <1>1, <2>1 DEF Before
<1>2. CASE d # c
  BY <1>2 DEF Takes
<1> QED
  BY <1>1, <1>2

\* The requests of the replies are numbers.
LEMMA ReplyTypes ==
  ASSUME TypeInv, NEW d \in Connections, NEW n \in DOMAIN replies[d]
  PROVE  replies[d][n].request \in Nat
<1>1. replies[d] \in Seq(Replies)
  BY DEF TypeInv
<1>2. replies[d][n] \in Replies
  BY <1>1, ElementOfSeq
<1> QED
  BY <1>2 DEF Replies

\* What a step of that kind leaves of the invariant, apart from what is executed.
LEMMA ReplyStep ==
  ASSUME IInv, NEW c \in Connections, NEW outcome \in {"answer", "error"},
         Takes(c), Replying(c, outcome),
         outcome = "answer" => consumed[c][2] = 0,
         c \notin Split => Right(c, Number(c), outcome)
  PROVE  /\ OrderInv' /\ WholeInv' /\ AnsweredInOrder'
         /\ response' \in [Connections -> Replies]
         /\ session' \in [Connections -> {"reading", "writing", "closed"}]
<1>1. TypeInv /\ OrderInv /\ WholeInv /\ AnsweredInOrder
  BY DEF IInv
<1>2. Number(c) \in Nat /\ consumed[c] \in Nat \X Nat
  BY <1>1 DEF TypeInv, Number
<1>3. Reply(Number(c), outcome) \in Replies
  BY <1>2 DEF Reply, Replies
<1>4. /\ response' \in [Connections -> Replies]
      /\ session' \in [Connections -> {"reading", "writing", "closed"}]
      /\ response'[c] = Reply(Number(c), outcome) /\ session'[c] = "writing"
      /\ \A d \in Connections : d # c => response'[d] = response[d] /\ session'[d] = session[d]
      /\ received' = received /\ replies' = replies
  BY <1>1, <1>3 DEF Replying, TypeInv
<1>5. AnsweredInOrder'
  BY <1>1, <1>4 DEF AnsweredInOrder
<1>6. WholeInv'
  <2> SUFFICES ASSUME NEW d \in Connections \ Split
               PROVE  WholeInv!(d)'
    BY DEF WholeInv
  <2>1. CASE d # c
    <3>1. /\ received'[d] = received[d] /\ consumed'[d] = consumed[d]
          /\ session'[d] = session[d] /\ replies'[d] = replies[d]
          /\ response'[d] = response[d] /\ running' = running
      BY <1>4, <2>1 DEF Takes, Replying
    <3> QED
      BY <1>1, <3>1 DEF WholeInv, Right
  <2>2. CASE d = c
    <3>1. consumed'[c] = <<Number(c) + 1, 0>>
      BY <2>2 DEF Takes, NextRequest
    <3>2. Number(c) = Len(replies[c]) + 1 /\ received[c][2] = 0
      BY <1>1, <2>2 DEF WholeInv, Number, Replying
    <3>3. Len(replies[c]) \in Nat
      BY <1>1 DEF TypeInv
    <3>4. /\ response'[c].request = Number(c) /\ response'[c].kind = outcome
      BY <1>4 DEF Reply
    <3>5. Right(c, Number(c), outcome)
      BY <2>2
    <3>6. consumed'[c][1] = Len(replies[c]) + 2 /\ consumed'[c][2] = 0
      BY <1>2, <3>1, <3>2, <3>3
    <3> QED
      BY <1>4, <2>2, <3>2, <3>4, <3>5, <3>6 DEF Right
  <2> QED
    BY <2>1, <2>2
<1>7. OrderInv'
  <2> SUFFICES ASSUME NEW d \in Connections
               PROVE  OrderInv!(d)'
    BY DEF OrderInv
  <2>1. \A n \in DOMAIN replies'[d] : Before(<<replies'[d][n].request, 0>>, consumed'[d])
    <3> SUFFICES ASSUME NEW n \in DOMAIN replies[d]
                 PROVE  Before(<<replies[d][n].request, 0>>, consumed'[d])
      BY <1>4
    <3>1. replies[d][n].request \in Nat
      BY <1>1, ReplyTypes
    <3>2. Before(<<replies[d][n].request, 0>>, consumed[d])
      BY <1>1 DEF OrderInv
    <3> QED
      BY <1>1, <3>1, <3>2, TakesMore
  <2>2. CASE d # c
    <3>1. consumed'[d] = consumed[d] /\ session'[d] = session[d]
          /\ replies'[d] = replies[d] /\ response'[d] = response[d]
      BY <1>4, <2>2 DEF Takes
    <3> QED
      BY <1>1, <3>1 DEF OrderInv, Follows
  <2>3. CASE d = c
    <3>1. response'[c].request = Number(c) /\ response'[c].kind = outcome
      BY <1>4 DEF Reply
    <3>2. Before(<<Number(c), 0>>, consumed'[c])
      <4>1. consumed'[c] \in Nat \X Nat /\ Before(consumed[c], consumed'[c])
        BY DEF Takes
      <4> QED
        BY <1>2, <4>1 DEF Before, Number
    <3>3. ASSUME NEW n \in DOMAIN replies[c]
          PROVE  Follows(replies[c][n], response'[c])
      <4>1. replies[c][n].request \in Nat
        BY <1>1, ReplyTypes
      <4>2. Before(<<replies[c][n].request, 0>>, consumed[c])
        BY <1>1 DEF OrderInv
      <4> QED
        BY <1>2, <3>1, <4>1, <4>2 DEF Before, Number, Follows
    <3> QED
      BY <1>4, <2>1, <2>3, <3>1, <3>2, <3>3
  <2> QED
    BY <2>2, <2>3
<1> QED
  BY <1>4, <1>5, <1>6, <1>7

\* Nothing is executed: what was taken before is still taken.
LEMMA TakenStays ==
  ASSUME TypeInv, TakenInv, NEW c \in Connections, Takes(c), executed' = executed
  PROVE  TakenInv'
<1> SUFFICES ASSUME NEW m \in DOMAIN executed
             PROVE  Before(<<executed[m][2], 0>>, consumed'[executed[m][1]])
  BY DEF TakenInv
<1>1. executed[m] \in Connections \X Nat \X BOOLEAN
  BY ElementOfSeq DEF TypeInv
<1>2. executed[m][1] \in Connections /\ executed[m][2] \in Nat
  BY <1>1
<1>3. Before(<<executed[m][2], 0>>, consumed[executed[m][1]])
  BY DEF TakenInv
<1> QED
  BY <1>2, <1>3, TakesMore

\* A request is executed: it stands behind all that were executed before.
LEMMA ExecuteStep ==
  ASSUME TypeInv, TakenInv, ExecutedInOrder, NEW c \in Connections, Takes(c), consumed[c][2] = 0,
         NEW b \in BOOLEAN, executed' = Append(executed, <<c, Number(c), b>>)
  PROVE  TakenInv' /\ ExecutedInOrder' /\ executed' \in Seq(Connections \X Nat \X BOOLEAN)
<1> DEFINE e == <<c, Number(c), b>>
           n == Len(executed)
<1>1. consumed[c] \in Nat \X Nat /\ Number(c) \in Nat /\ consumed[c] = <<Number(c), 0>>
  BY DEF TypeInv, Number
<1>2. e \in Connections \X Nat \X BOOLEAN /\ e[1] = c /\ e[2] = Number(c)
  BY <1>1
<1>3. executed \in Seq(Connections \X Nat \X BOOLEAN) /\ n \in Nat /\ DOMAIN executed = 1..n
  BY DEF TypeInv
<1> HIDE DEF e, n
<1>4. /\ executed' \in Seq(Connections \X Nat \X BOOLEAN)
      /\ DOMAIN executed' = 1..(n + 1)
      /\ executed'[n + 1] = e
      /\ \A m \in 1..n : executed'[m] = executed[m]
  BY <1>2, <1>3, AppendProperties DEF e, n
<1>5. \A m \in 1..n : executed[m][1] \in Connections /\ executed[m][2] \in Nat
  <2> SUFFICES ASSUME NEW m \in 1..n
               PROVE  executed[m][1] \in Connections /\ executed[m][2] \in Nat
    OBVIOUS
  <2>1. executed[m] \in Connections \X Nat \X BOOLEAN
    BY <1>3, ElementOfSeq DEF n
  <2> QED
    BY <2>1
<1>6. \A m \in 1..n : executed[m][1] = c => executed[m][2] < Number(c)
  <2> SUFFICES ASSUME NEW m \in 1..n, executed[m][1] = c
               PROVE  executed[m][2] < Number(c)
    OBVIOUS
  <2>1. Before(<<executed[m][2], 0>>, <<Number(c), 0>>)
    BY <1>1, <1>3 DEF TakenInv
  <2> QED
    BY <1>1, <1>5, <2>1 DEF Before
<1>7. TakenInv'
  <2> SUFFICES ASSUME NEW m \in 1..(n + 1)
               PROVE  Before(<<executed'[m][2], 0>>, consumed'[executed'[m][1]])
    BY <1>4 DEF TakenInv
  <2>0. consumed'[c] \in Nat \X Nat /\ Before(consumed[c], consumed'[c])
    BY DEF Takes
  <2>1. CASE m = n + 1
    BY <1>1, <1>2, <1>4, <2>0, <2>1
  <2>2. CASE m \in 1..n /\ executed[m][1] # c
    <3>1. Before(<<executed[m][2], 0>>, consumed[executed[m][1]])
      BY <1>3, <2>2 DEF TakenInv
    <3> QED
      BY <1>4, <1>5, <2>2, <3>1 DEF Takes
  <2>3. CASE m \in 1..n /\ executed[m][1] = c
    <3>1. executed[m][2] < Number(c) /\ executed[m][2] \in Nat
      BY <1>5, <1>6, <2>3
    <3>2. executed'[m] = executed[m]
      BY <1>4, <2>3
    <3>3. PICK x \in Nat, y \in Nat : consumed'[c] = <<x, y>>
      BY <2>0
    <3>4. Before(<<Number(c), 0>>, <<x, y>>)
      BY <1>1, <2>0, <3>3
    <3>5. Before(<<executed[m][2], 0>>, <<x, y>>)
      BY <1>1, <3>1, <3>4 DEF Before
    <3> QED
      BY <2>3, <3>2, <3>3, <3>5
  <2>4. m = n + 1 \/ m \in 1..n
    BY <1>3
  <2> QED
    BY <2>1, <2>2, <2>3, <2>4
<1>8. ExecutedInOrder'
  <2> SUFFICES ASSUME NEW l \in 1..(n + 1), NEW m \in 1..(n + 1), l < m,
                      executed'[l][1] = executed'[m][1]
               PROVE  executed'[l][2] < executed'[m][2]
    BY <1>4 DEF ExecutedInOrder
  <2>1. CASE m \in 1..n
    <3>1. l \in 1..n
      BY <1>3, <2>1
    <3> QED
      BY <1>3, <1>4, <2>1, <3>1 DEF ExecutedInOrder
  <2>2. CASE m = n + 1
    <3>1. l \in 1..n
      BY <1>3, <2>2
    <3>2. executed[l][1] = c
      BY <1>2, <1>4, <2>2, <3>1
    <3> QED
      BY <1>2, <1>4, <1>6, <2>2, <3>1, <3>2
  <2> QED
    BY <1>3, <2>1, <2>2
<1> QED
  BY <1>4, <1>7, <1>8

\* An error reply, and nothing is executed.
LEMMA RefusedStep ==
  ASSUME IInv, NEW c \in Connections, Takes(c), Replying(c, "error"),
         c \notin Split => Right(c, Number(c), "error"), executed' = executed
  PROVE  IInv'
<1>1. TypeInv /\ TakenInv /\ ExecutedInOrder
  BY DEF IInv
<1>2. OrderInv' /\ WholeInv' /\ AnsweredInOrder'
  BY ReplyStep
<1>3. TypeInv'
  <2>1. /\ response' \in [Connections -> Replies]
        /\ session' \in [Connections -> {"reading", "writing", "closed"}]
    BY ReplyStep
  <2> QED
    BY <1>1, <2>1 DEF TypeInv, Takes, Replying
<1>4. TakenInv'
  BY <1>1, TakenStays
<1>5. ExecutedInOrder'
  BY <1>1 DEF ExecutedInOrder
<1> QED
  BY <1>2, <1>3, <1>4, <1>5 DEF IInv

\* A request goes to its handler.
LEMMA DispatchStep ==
  ASSUME IInv, NEW c \in Connections, NEW b \in BOOLEAN, Takes(c), Readable(c), IsArray(c),
         Dispatch(c, Number(c), b), session' = [session EXCEPT ![c] = "writing"],
         running, UNCHANGED <<received, replies, closing, running>>
  PROVE  IInv'
<1>1. TypeInv /\ TakenInv /\ ExecutedInOrder /\ session[c] = "reading"
  BY DEF IInv, Readable
<1> DEFINE good == WellCounted(Requests[c][Number(c)].op, Requests[c][Number(c)].argc)
<1>2. consumed[c][2] = 0 /\ Requests[c][Number(c)].argc > 0
  BY DEF IsArray, Request
<1>3. CASE good
  <2>1. executed' = Append(executed, <<c, Number(c), b>>) /\ Replying(c, "answer")
    BY <1>1, <1>3 DEF Dispatch, Replying
  <2>2. Right(c, Number(c), "answer")
    BY <1>2, <1>3 DEF Right
  <2>3. /\ OrderInv' /\ WholeInv' /\ AnsweredInOrder'
        /\ response' \in [Connections -> Replies]
        /\ session' \in [Connections -> {"reading", "writing", "closed"}]
    BY <1>2, <2>1, <2>2, ReplyStep
  <2>4. TakenInv' /\ ExecutedInOrder' /\ executed' \in Seq(Connections \X Nat \X BOOLEAN)
    BY <1>1, <1>2, <2>1, ExecuteStep
  <2>5. TypeInv'
    BY <1>1, <2>3, <2>4 DEF TypeInv, Takes
  <2> QED
    BY <2>3, <2>4, <2>5 DEF IInv
<1>4. CASE ~ good
  <2>1. executed' = executed /\ Replying(c, "error")
    BY <1>1, <1>4 DEF Dispatch, Replying
  <2>2. Right(c, Number(c), "error")
    BY <1>4 DEF Right
  <2> QED
    BY <2>1, <2>2, RefusedStep
<1> QED
  BY <1>3, <1>4

\* "PING\r\r\n" is not "PING\r\n": a line that is not the head of an array is refused.
LEMMA LinesAreRefused ==
  ASSUME IInv, running, NEW c \in Connections, NotArray(c)
  PROVE  IInv'
<1>1. TypeInv /\ WholeInv
  BY DEF IInv
<1>2. Takes(c)
  BY <1>1, SessionsTake
<1>3. request_line(c) # <<"PING", "\r", "\n">>
  <2>1. Len(request_line(c)) = 4 /\ Len(<<"PING", "\r", "\n">>) = 3
    BY DEF request_line
  <2> QED
    BY <2>1
<1>4. Replying(c, "error") /\ executed' = executed
  BY <1>3 DEF NotArray, Replying, Readable
<1>5. ASSUME c \notin Split
      PROVE  Right(c, Number(c), "error")
  <2>1. consumed[c][2] = 0
    BY <1>1, <1>5 DEF WholeInv
  <2>2. ~ (Requests[c][Number(c)].argc > 0)
    BY <2>1 DEF NotArray, IsArray, Request
  <2> QED
    BY <2>2 DEF Right
<1> QED
  BY <1>2, <1>4, <1>5, RefusedStep

\* Requests in pieces are refused only for the clients in Split.
LEMMA PartialStep ==
  ASSUME IInv, running, NEW c \in Connections, PartialRequest(c)
  PROVE  IInv'
<1>1. Takes(c) /\ c \in Split
  BY SessionsTake DEF IInv
<1>2. Replying(c, "error") /\ executed' = executed
  BY DEF PartialRequest, Refuse, Replying, Readable
<1> QED
  BY <1>1, <1>2, RefusedStep

\* handleRequest; a last line that is cut off occurs for the clients in Split only.
LEMMA HandleStep ==
  ASSUME IInv, running, NEW c \in Connections, HandleRequest(c)
  PROVE  IInv'
<1>1. Takes(c)
  BY SessionsTake DEF IInv
<1>2. Readable(c) /\ IsArray(c) /\ session' = [session EXCEPT ![c] = "writing"]
      /\ UNCHANGED <<received, replies, closing, running>>
  BY DEF HandleRequest
<1>3. CASE Dispatch(c, Number(c), TRUE)
  BY <1>1, <1>2, <1>3, DispatchStep
<1>4. CASE Dispatch(c, Number(c), FALSE)
  BY <1>1, <1>2, <1>4, DispatchStep
<1>5. CASE RequestEnd(c)[2] # 0 /\ Refuse(c, Number(c))
  <2>1. c \in Split
    <3>1. consumed'[c] = RequestEnd(c)
      BY DEF HandleRequest, TakeRequest, IInv, TypeInv
    <3>2. NextRequest(c)[2] = 0
      BY DEF NextRequest
    <3> QED
      BY <1>1, <1>5, <3>1, <3>2 DEF Takes
  <2>2. Replying(c, "error") /\ executed' = executed
    BY <1>2, <1>5 DEF Refuse, Replying, Readable
  <2> QED
    BY <1>1, <2>1, <2>2, RefusedStep
<1> QED
  BY <1>3, <1>4, <1>5 DEF HandleRequest

\* A request whose handling ends the server is taken, and that is all.
LEMMA ThrowStep ==
  ASSUME IInv, NEW c \in Connections, HandleThrows(c)
  PROVE  IInv'
<1>1. TypeInv /\ WholeInv /\ OrderInv /\ TakenInv /\ ExecutedInOrder /\ AnsweredInOrder
  BY DEF IInv
<1>2. Takes(c)
  BY <1>1, SessionsTake
<1>3. /\ UNCHANGED <<received, session, response, replies, closing, executed>>
      /\ running' = FALSE /\ session[c] = "reading"
  BY DEF HandleThrows, Throw, Readable
<1>4. TypeInv'
  BY <1>1, <1>2, <1>3 DEF TypeInv, Takes
<1>5. TakenInv' /\ ExecutedInOrder' /\ AnsweredInOrder'
  BY <1>1, <1>2, <1>3, TakenStays DEF ExecutedInOrder, AnsweredInOrder
<1>6. WholeInv'
  <2> SUFFICES ASSUME NEW d \in Connections \ Split
               PROVE  WholeInv!(d)'
    BY DEF WholeInv
  <2>1. CASE d # c
    <3>1. consumed'[d] = consumed[d]
      BY <1>2, <2>1 DEF Takes
    <3> QED
      BY <1>1, <1>3, <3>1 DEF WholeInv, Right
  <2>2. CASE d = c
    <3>1. consumed'[c][2] = 0
      BY <1>2, <2>2 DEF Takes, NextRequest
    <3> QED
      BY <1>1, <1>3, <2>2, <3>1 DEF WholeInv
  <2> QED
    BY <2>1, <2>2
<1>7. OrderInv'
  <2> SUFFICES ASSUME NEW d \in Connections
               PROVE  OrderInv!(d)'
    BY DEF OrderInv
  <2>1. \A n \in DOMAIN replies[d] : Before(<<replies[d][n].request, 0>>, consumed'[d])
    <3> SUFFICES ASSUME NEW n \in DOMAIN replies[d]
                 PROVE  Before(<<replies[d][n].request, 0>>, consumed'[d])
      OBVIOUS
    <3>1. replies[d][n].request \in Nat
      BY <1>1, ReplyTypes
    <3>2. Before(<<replies[d][n].request, 0>>, consumed[d])
      BY <1>1 DEF OrderInv
    <3> QED
      BY <1>1, <1>2, <3>1, <3>2, TakesMore
  <2>2. session[d] = "writing" => consumed'[d] = consumed[d]
    BY <1>2, <1>3 DEF Takes
  <2> QED
    BY <1>1, <1>3, <2>1, <2>2 DEF OrderInv, Follows
<1> QED
  BY <1>4, <1>5, <1>6, <1>7 DEF IInv

\* A reply reaches the client.
LEMMA WrittenStep ==
  ASSUME IInv, NEW c \in Connections, Written(c)
  PROVE  IInv'
<1>1. TypeInv /\ OrderInv /\ WholeInv /\ AnsweredInOrder /\ TakenInv /\ ExecutedInOrder
  BY DEF IInv
<1>2. /\ received' = received /\ consumed' = consumed /\ response' = response
      /\ closing' = closing /\ executed' = executed /\ running' = running
      /\ session[c] = "writing"
  BY DEF Written
<1>3. replies[c] \in Seq(Replies) /\ response[c] \in Replies /\ Len(replies[c]) \in Nat
  BY <1>1 DEF TypeInv
<1> DEFINE s == Append(replies[c], response[c])
           n == Len(replies[c])
<1>4. /\ s \in Seq(Replies) /\ Len(s) = n + 1 /\ DOMAIN s = 1..(n + 1)
      /\ s[n + 1] = response[c] /\ \A m \in 1..n : s[m] = replies[c][m]
  BY <1>3, AppendProperties
<1>5. /\ session'[c] = "reading" /\ replies'[c] = s
      /\ \A d \in Connections : d # c => session'[d] = session[d] /\ replies'[d] = replies[d]
  BY <1>1 DEF Written, TypeInv
<1> HIDE DEF s
<1>6. TypeInv'
  <2>1. replies' = [replies EXCEPT ![c] = s]
    BY DEF Written, s
  <2>2. session' = [session EXCEPT ![c] = "reading"]
    BY DEF Written
  <2> QED
    BY <1>1, <1>2, <1>4, <2>1, <2>2 DEF TypeInv
<1>7. TakenInv' /\ ExecutedInOrder'
  BY <1>1, <1>2 DEF TakenInv, ExecutedInOrder
<1>8. WholeInv'
  <2> SUFFICES ASSUME NEW d \in Connections \ Split
               PROVE  WholeInv!(d)'
    BY DEF WholeInv
  <2>1. CASE d # c
    BY <1>1, <1>2, <1>5, <2>1 DEF WholeInv, Right
  <2>2. CASE d = c
    <3>1. received[c][2] = 0 /\ consumed[c][2] = 0 /\ consumed[c][1] = n + 2
      BY <1>1, <1>2, <2>2 DEF WholeInv
    <3>2. Len(replies'[c]) + 1 = n + 2
      BY <1>3, <1>4, <1>5
    <3> QED
      BY <1>2, <1>5, <2>2, <3>1, <3>2
  <2> QED
    BY <2>1, <2>2
<1>9. AnsweredInOrder'
  <2>1. ASSUME NEW d \in Connections, NEW l \in DOMAIN replies'[d], NEW m \in DOMAIN replies'[d],
               l < m
        PROVE  Follows(replies'[d][l], replies'[d][m])
    <3>1. CASE d # c
      BY <1>1, <1>5, <2>1, <3>1 DEF AnsweredInOrder, Follows
    <3>2. CASE d = c /\ m = n + 1
      <4>1. l \in 1..n /\ l \in DOMAIN replies[c]
        BY <1>3, <1>4, <1>5, <2>1, <3>2
      <4>2. Follows(replies[c][l], response[c])
        BY <1>1, <1>2, <4>1 DEF OrderInv
      <4> QED
        BY <1>4, <1>5, <3>2, <4>1, <4>2
    <3>3. CASE d = c /\ m \in 1..n
      <4>1. l \in 1..n /\ l \in DOMAIN replies[c] /\ m \in DOMAIN replies[c]
        BY <1>3, <1>4, <1>5, <2>1, <3>3
      <4>2. Follows(replies[c][l], replies[c][m])
        BY <1>1, <2>1, <4>1 DEF AnsweredInOrder, Follows
      <4> QED
        BY <1>4, <1>5, <3>3, <4>1, <4>2
    <3>4. d # c \/ m = n + 1 \/ m \in 1..n
      BY <1>3, <1>4, <1>5
    <3> QED
      BY <3>1, <3>2, <3>3, <3>4
  <2>2. ASSUME NEW d \in Connections \ Split, NEW m \in DOMAIN replies'[d]
        PROVE  replies'[d][m].request = m /\ Right(d, m, replies'[d][m].kind)
    <3>1. CASE d # c
      BY <1>1, <1>5, <3>1 DEF AnsweredInOrder, Right
    <3>2. CASE d = c /\ m = n + 1
      BY <1>1, <1>2, <1>4, <1>5, <3>2 DEF WholeInv
    <3>3. CASE d = c /\ m \in 1..n
      <4>1. m \in DOMAIN replies[c] /\ replies'[c][m] = replies[c][m]
        BY <1>3, <1>4, <1>5, <3>3
      <4> QED
        BY <1>1, <3>3, <4>1 DEF AnsweredInOrder, Right
    <3>4. d # c \/ m = n + 1 \/ m \in 1..n
      BY <1>3, <1>4, <1>5
    <3> QED
      BY <3>1, <3>2, <3>3, <3>4
  <2> QED
    BY <2>1, <2>2, Zenon DEF AnsweredInOrder, Right, Follows
<1>10. OrderInv'
  <2> SUFFICES ASSUME NEW d \in Connections
               PROVE  OrderInv!(d)'
    BY DEF OrderInv
  <2>1. CASE d # c
    BY <1>1, <1>2, <1>5, <2>1 DEF OrderInv, Follows
  <2>2. CASE d = c
    <3>1. ASSUME NEW m \in DOMAIN replies'[c]
          PROVE  Before(<<replies'[c][m].request, 0>>, consumed[c])
      <4>1. CASE m = n + 1
        BY <1>1, <1>2, <1>4, <1>5, <4>1 DEF OrderInv
      <4>2. CASE m \in 1..n
        <5>1. m \in DOMAIN replies[c] /\ replies'[c][m] = replies[c][m]
          BY <1>3, <1>4, <1>5, <4>2
        <5> QED
          BY <1>1, <5>1 DEF OrderInv
      <4> QED
        BY <1>3, <1>4, <1>5, <4>1, <4>2
    <3> QED
      BY <1>2, <1>5, <2>2, <3>1
  <2> QED
    BY <2>1, <2>2
<1> QED
  BY <1>1, <1>6, <1>7, <1>8, <1>9, <1>10 DEF IInv

\* The stream, the client's end and the end of a session: nothing else changes.
LEMMA QuietSteps ==
  ASSUME IInv, running, NEW c \in Connections, Arrive(c) \/ Disconnect(c) \/ Close(c)
  PROVE  IInv'
<1>1. TypeInv /\ OrderInv /\ WholeInv /\ AnsweredInOrder /\ TakenInv /\ ExecutedInOrder
  BY DEF IInv
<1>2. UNCHANGED <<consumed, response, replies, executed>>
  BY DEF Arrive, Disconnect, Close
<1>3. AnsweredInOrder' /\ TakenInv' /\ ExecutedInOrder'
  BY <1>1, <1>2 DEF AnsweredInOrder, TakenInv, ExecutedInOrder
<1>4. CASE Arrive(c)
  <2>1. PICK p \in Places(c) : (c \in Split \/ p[2] = 0) /\ received' = [received EXCEPT ![c] = p]
    BY <1>4 DEF Arrive
  <2>2. p \in Nat \X Nat
    <3>1. CASE p = <<Len(Requests[c]) + 1, 0>>
      BY <3>1, ServerParameters
    <3>2. CASE p # <<Len(Requests[c]) + 1, 0>>
      <4>1. PICK i \in DOMAIN Requests[c] : p \in {i} \X (0..(Size(c, i) - 1))
        BY <2>1, <3>2 DEF Places
      <4>2. i \in Nat /\ Size(c, i) - 1 \in Nat
        BY <4>1, ServerParameters DEF Size
      <4> QED
        BY <4>1, <4>2
    <3> QED
      BY <3>1, <3>2
  <2>3. session' = session /\ closing' = closing /\ running' = running
    BY <1>4 DEF Arrive
  <2>4. TypeInv'
    BY <1>1, <1>2, <2>1, <2>2, <2>3 DEF TypeInv
  <2>5. \A d \in Connections \ Split : received'[d][2] = 0
    BY <1>1, <2>1 DEF TypeInv, WholeInv
  <2>6. WholeInv'
    BY <1>1, <1>2, <2>3, <2>5 DEF WholeInv, Right
  <2>7. OrderInv'
    BY <1>1, <1>2, <2>3 DEF OrderInv, Follows
  <2> QED
    BY <1>3, <2>4, <2>6, <2>7 DEF IInv
<1>5. CASE Disconnect(c)
  <2>1. /\ received' = received /\ session' = session /\ running' = running
        /\ closing' = [closing EXCEPT ![c] = TRUE]
    BY <1>5 DEF Disconnect
  <2>2. TypeInv' /\ WholeInv' /\ OrderInv'
    BY <1>1, <1>2, <2>1 DEF TypeInv, WholeInv, Right, OrderInv, Follows
  <2> QED
    BY <1>3, <2>2 DEF IInv
<1>6. CASE Close(c)
  <2>1. /\ received' = received /\ closing' = closing
        /\ running' \in BOOLEAN /\ (running' => running)
        /\ session' = [session EXCEPT ![c] = "closed"]
    BY <1>6 DEF Close
  <2>2. TypeInv'
    BY <1>1, <1>2, <2>1 DEF TypeInv
  <2>3. \A d \in Connections : session'[d] = session[d] \/ session'[d] = "closed"
    BY <1>1, <2>1 DEF TypeInv
  <2>4. WholeInv'
    BY <1>1, <1>2, <2>1, <2>3 DEF WholeInv, Right
  <2>5. OrderInv'
    BY <1>1, <1>2, <2>3 DEF OrderInv, Follows
  <2> QED
    BY <1>3, <2>2, <2>4, <2>5 DEF IInv
<1> QED
  BY <1>4, <1>5, <1>6

-----------------------------------------------------------------------------
\* The server: theorems.

\* The invariant holds of every behaviour of the server.
THEOREM ServerInvariance == ServerSpec => []IInv
<1>1. ServerInit => IInv
  <2> SUFFICES ASSUME ServerInit
               PROVE  IInv
    OBVIOUS
  <2>1. TypeInv
    BY DEF ServerInit, TypeInv, Replies, Reply
  <2>2. TakenInv /\ ExecutedInOrder
    BY DEF ServerInit, TakenInv, ExecutedInOrder
  <2>3. OrderInv /\ WholeInv /\ AnsweredInOrder
    <3>1. \A c \in Connections : /\ received[c] = <<1, 0>> /\ consumed[c] = <<1, 0>>
                             /\ session[c] = "reading" /\ replies[c] = << >>
      BY DEF ServerInit
    <3>2. Len(<< >>) = 0 /\ DOMAIN << >> = {}
      OBVIOUS
    <3>3. WholeInv
      <4> SUFFICES ASSUME NEW c \in Connections \ Split
                   PROVE  WholeInv!(c)
        BY DEF WholeInv
      <4>1. session[c] # "writing" /\ received[c] = <<1, 0>> /\ consumed[c] = <<1, 0>>
        BY <3>1
      <4>2. Len(replies[c]) = 0
        BY <3>1, <3>2
      <4> QED
        BY <4>1, <4>2
    <3>4. AnsweredInOrder
      BY <3>1, <3>2, Zenon DEF AnsweredInOrder
    <3>5. OrderInv
      BY <3>1, <3>2 DEF OrderInv
    <3> QED
      BY <3>3, <3>4, <3>5
  <2> QED
    BY <2>1, <2>2, <2>3 DEF IInv
<1>2. IInv /\ [ServerNext]_server_vars => IInv'
  <2> SUFFICES ASSUME IInv, [ServerNext]_server_vars
               PROVE  IInv'
    OBVIOUS
  <2>1. CASE UNCHANGED server_vars
    <3>1. UNCHANGED <<received, consumed, session, response, replies, closing, executed, running>>
      BY <2>1 DEF server_vars
    <3>2. TypeInv' /\ TakenInv' /\ ExecutedInOrder' /\ AnsweredInOrder'
      BY <3>1 DEF IInv, TypeInv, TakenInv, ExecutedInOrder, AnsweredInOrder
    <3>3. OrderInv'
      BY <3>1 DEF IInv, OrderInv, Follows
    <3>4. WholeInv'
      BY <3>1 DEF IInv, WholeInv, Right
    <3> QED
      BY <3>2, <3>3, <3>4 DEF IInv
  <2>2. ASSUME NEW c \in Connections, Arrive(c) \/ Disconnect(c) \/ Serve(c)
        PROVE  IInv'
    <3>0. running
      BY <2>2 DEF Arrive, Disconnect, Serve
    <3>1. CASE Arrive(c) \/ Disconnect(c) \/ Close(c)
      BY <3>0, <3>1, QuietSteps
    <3>2. CASE NotArray(c)
      BY <3>0, <3>2, LinesAreRefused
    <3>3. CASE PartialRequest(c)
      BY <3>0, <3>3, PartialStep
    <3>4. CASE HandleRequest(c)
      BY <3>0, <3>4, HandleStep
    <3>5. CASE HandleThrows(c)
      BY <3>5, ThrowStep
    <3>6. CASE Written(c)
      BY <3>6, WrittenStep
    <3> QED
      BY <2>2, <3>1, <3>2, <3>3, <3>4, <3>5, <3>6 DEF Serve
  <2> QED
    BY <2>1, <2>2 DEF ServerNext
<1> QED
  BY <1>1, <1>2, PTL DEF ServerSpec

\* However TCP cuts the streams and the sessions interleave, no request is executed
\* twice and none before one that the same client sent earlier.
THEOREM NothingExecutedTwice == ServerSpec => []ExecutedInOrder
<1>1. IInv => ExecutedInOrder
  BY DEF IInv
<1> QED
  BY <1>1, ServerInvariance, PTL

\* A client gets its replies in the order of its requests, and no two answers to
\* one of them, however its stream is cut; and when its requests arrive whole, the
\* n-th reply is for the n-th request, and an answer exactly when a handler takes it.
THEOREM RepliesInOrder == ServerSpec => []AnsweredInOrder
<1>1. IInv => AnsweredInOrder
  BY DEF IInv
<1> QED
  BY <1>1, ServerInvariance, PTL
=============================================================================
