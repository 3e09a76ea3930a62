----------------------------- MODULE RedisZSet -----------------------------
(***************************************************************************)
(* The sorted set commands of RedisWrapper: ZADD, ZREM, ZRANGE, ZCARD,     *)
(* ZSCORE, ZINCRBY and ZRANK, and DEL on a sorted set.  An element is two  *)
(* LSM keys: its element key holds the score, its score key, in which the  *)
(* score is padded so that keys sort by score, holds the element.  Scores  *)
(* are natural numbers of at most the padded width, for which the order of *)
(* the padded strings is that of the numbers.                              *)
(***************************************************************************)
EXTENDS RedisExpiry, RedisRange, SequencesExt

CONSTANTS Elems, MaxScore    \* bound on the scores ZINCRBY reaches

Scores == 0..MaxScore

VARIABLES key_exists,    \* whether the key itself is there
          elem_keys,     \* elem_keys[e]: the score under e's element key, or None
          score_keys,    \* score_keys[s]: the element under the score key of s, or None
          unpaired       \* history: a command has changed a score with ZADD or let two
                         \*   elements meet at one since the sorted set was last cleaned

zset == <<key_exists, elem_keys, score_keys, unpaired>>
vars == <<expiryVars, zset>>

Call(op) == {cmd \in Commands : cmd.op = op}

NoElems == [e \in Elems |-> None]
NoScores == [s \in Scores |-> None]

Init ==
  /\ ExpiryInit
  /\ key_exists = FALSE
  /\ elem_keys = NoElems
  /\ score_keys = NoScores
  /\ unpaired = FALSE

\* Mutant: only the score keys have the prefix.
CleanScoresOnly ==
  /\ key_exists' = FALSE
  /\ expire_at' = None
  /\ score_keys' = NoScores
  /\ unpaired' = FALSE
  /\ UNCHANGED elem_keys

\* Everything under the key's prefix goes.
expire_zset_clean ==
  /\ key_exists' = FALSE
  /\ expire_at' = None
  /\ elem_keys' = NoElems
  /\ score_keys' = NoScores
  /\ unpaired' = FALSE

-----------------------------------------------------------------------------
ZAddBegin(c) ==
  \E cmd \in Call("zadd") \cup Call("zincrby") :
    (SeeExpired(c, cmd) \/ SeeLive(c, cmd)) /\ UNCHANGED zset

ZAddClean(c) ==
  /\ client[c].phase = "clean" /\ client[c].cmd.op \in {"zadd", "zincrby"}
  /\ expire_zset_clean
  /\ GoOn(c)
  /\ UNCHANGED now

(***************************************************************************)
(* redis_zadd: cmd.args is a sequence of <<score, element>>.  A pair whose *)
(* score is stored already is skipped.  The old score keys go to           *)
(* remove_keys, but remove_batch is given del_keys, which is empty: they   *)
(* stay.  The key is put every time, since the existence test looks up the *)
(* prefix, which is never a key.                                           *)
(***************************************************************************)
Changed(data, args) == {i \in DOMAIN args : data[args[i][2]] # args[i][1]}

\* The puts of the pairs in a set, in their order: the last one decides.
PutScores(data, args, pairs) ==
  [e \in Elems |-> LET of == {i \in pairs : args[i][2] = e}
                   IN  IF of = {} THEN data[e] ELSE args[Max(of)][1]]

PutElems(args, pairs) ==
  [s \in Scores |-> LET at == {i \in pairs : args[i][1] = s}
                    IN  IF at = {} THEN score_keys[s] ELSE args[Max(at)][2]]

\* Whether the pairs are of new elements, each with a score that no other has.
OnlyNew(args, pairs) ==
  /\ \A i \in pairs : elem_keys[args[i][2]] = None /\ score_keys[args[i][1]] = None
  /\ \A i, j \in pairs : args[i][1] = args[j][1] <=> args[i][2] = args[j][2]

ZAddApply(c) ==
  LET args  == client[c].cmd.args
      pairs == Changed(elem_keys, args)
  IN  /\ client[c].phase = "apply" /\ client[c].cmd.op = "zadd"
      /\ key_exists' = TRUE
      /\ elem_keys' = PutScores(elem_keys, args, pairs)
      /\ score_keys' = PutElems(args, pairs)
      /\ unpaired' = (unpaired \/ ~ OnlyNew(args, pairs))
      /\ Return(c, Cardinality(pairs))
      /\ UNCHANGED <<now, expire_at>>

\* Mutant: the old score key stays.
WithoutOldNone(e) == score_keys

\* The score keys without the one of e's present score.
WithoutOld(e) ==
  IF elem_keys[e] = None THEN score_keys ELSE [score_keys EXCEPT ![elem_keys[e]] = None]

\* redis_zincrby with cmd.args = <<increment, element>>: does not put the key.
ZIncrBy(c) ==
  LET increment == client[c].cmd.args[1]
      e         == client[c].cmd.args[2]
      new_score == IF elem_keys[e] = None THEN increment ELSE elem_keys[e] + increment
  IN  /\ client[c].phase = "apply" /\ client[c].cmd.op = "zincrby"
      /\ new_score \in Scores
      /\ elem_keys' = [elem_keys EXCEPT ![e] = new_score]
      /\ score_keys' = [WithoutOld(e) EXCEPT ![new_score] = e]
      /\ unpaired' = (unpaired \/ score_keys[new_score] \notin {None, e})
      /\ Return(c, new_score)
      /\ UNCHANGED <<now, expire_at, key_exists>>

ZRemBegin(c) ==
  \E cmd \in Call("zrem") :
    (SeeExpired(c, cmd) \/ SeeLive(c, cmd)) /\ UNCHANGED zset

\* The elements of cmd that are there, and the score keys of their scores, are
\* removed; the key stays.
ZRemApply(c) ==
  LET there == {e \in ToSet(client[c].cmd.args) : elem_keys[e] # None}
  IN  /\ client[c].phase = "apply" /\ client[c].cmd.op = "zrem"
      /\ elem_keys' = [e \in Elems |-> IF e \in there THEN None ELSE elem_keys[e]]
      /\ score_keys' = [s \in Scores |->
                          IF \E e \in there : elem_keys[e] = s THEN None ELSE score_keys[s]]
      /\ Return(c, Cardinality(there))
      /\ UNCHANGED <<now, expire_at, key_exists, unpaired>>

\* The elements in the order of the score keys.
InScoreOrder ==
  LET used == SetToSortSeq({s \in Scores : score_keys[s] # None}, <)
  IN  [i \in 1..Len(used) |-> score_keys[used[i]]]

ZRange(c) ==
  \E cmd \in Call("zrange") :
    /\ SeeExpired(c, cmd)
         \/ ReadLive(c, cmd, Slice(InScoreOrder, cmd.args[1], cmd.args[2]))
    /\ UNCHANGED zset

ZCard(c) ==
  \E cmd \in Call("zcard") :
    /\ SeeExpired(c, cmd) \/ ReadLive(c, cmd, Len(InScoreOrder))
    /\ UNCHANGED zset

ZScore(c) ==
  \E cmd \in Call("zscore") :
    /\ SeeExpired(c, cmd) \/ ReadLive(c, cmd, elem_keys[cmd.args[1]])
    /\ UNCHANGED zset

\* The scan runs over both kinds of keys, of which the element keys come first.
Rank(e) ==
  IF elem_keys[e] = None \/ score_keys[elem_keys[e]] = None THEN None
  ELSE Cardinality({d \in Elems : elem_keys[d] # None})
         + Cardinality({s \in 0..(elem_keys[e] - 1) : score_keys[s] # None})

ZRank(c) ==
  \E cmd \in Call("zrank") :
    /\ SeeExpired(c, cmd) \/ ReadLive(c, cmd, Rank(cmd.args[1]))
    /\ UNCHANGED zset

\* What the other commands answer when they have found the sorted set expired.
ExpiredAnswer(op) ==
  CASE op \in {"zrem", "zcard"}    -> 0
    [] op = "zrange"               -> << >>
    [] op \in {"zscore", "zrank"}  -> None

CleanAndReturn(c) ==
  /\ client[c].phase = "clean" /\ client[c].cmd.op \notin {"zadd", "zincrby"}
  /\ expire_zset_clean
  /\ Return(c, ExpiredAnswer(client[c].cmd.op))
  /\ UNCHANGED now

\* redis_del removes the key and its expire key only.
Del(c) ==
  \E cmd \in Call("del") :
    /\ client[c] = Idle
    /\ key_exists' = FALSE
    /\ expire_at' = None
    /\ Answer(cmd, IF key_exists THEN 1 ELSE 0)
    /\ UNCHANGED <<now, client, elem_keys, score_keys, unpaired>>

Next ==
  \/ Tick /\ UNCHANGED zset
  \/ \E c \in Clients :
       \/ ZAddBegin(c) \/ ZAddClean(c) \/ ZAddApply(c) \/ ZIncrBy(c)
       \/ ZRemBegin(c) \/ ZRemApply(c)
       \/ ZRange(c) \/ ZCard(c) \/ ZScore(c) \/ ZRank(c) \/ CleanAndReturn(c)
       \/ Del(c)
       \/ \E seconds \in Ttls : Expire(c, seconds) /\ UNCHANGED zset

Spec == Init /\ [][Next]_vars

-----------------------------------------------------------------------------
\* Properties.

\* Unless a score was changed by ZADD or shared, element keys and score keys come
\* in pairs: what ZRANGE and ZCARD read by score is what ZSCORE reads by element.
KeysComeInPairs ==
  unpaired \/ /\ \A e \in Elems : elem_keys[e] # None => score_keys[elem_keys[e]] = e
              /\ \A s \in Scores : score_keys[s] # None => elem_keys[score_keys[s]] = s
=============================================================================
