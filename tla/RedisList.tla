----------------------------- MODULE RedisList -----------------------------
(***************************************************************************)
(* The list commands of RedisWrapper: LPUSH, RPUSH, LPOP, RPOP, LLEN and   *)
(* LRANGE, and DEL on a list.  A list is one LSM value, its elements       *)
(* joined by a separator character.                                        *)
(*                                                                         *)
(* A string is a sequence of symbols, of which Separator is one; split and *)
(* join do what the code's helpers do with it.                             *)
(***************************************************************************)
EXTENDS RedisExpiry, RedisRange, SequencesExt

CONSTANTS Separator,   \* getRedisListSeparator()
          MaxLen       \* bound on the symbols of a list that is pushed to

VARIABLE list_value    \* the key's value, None if missing

vars == <<expiryVars, list_value>>

Call(op) == {cmd \in Commands : cmd.op = op}

Init == ExpiryInit /\ list_value = None

-----------------------------------------------------------------------------
\* Repeated std::getline: an empty piece at the end is not returned.
split(str) ==
  LET inner == {i \in DOMAIN str : str[i] = Separator}
      final == IF str = << >> \/ Last(str) = Separator THEN {} ELSE {Len(str) + 1}
      ends  == SetToSortSeq(inner \cup final, <)
  IN  [k \in 1..Len(ends) |->
         SubSeq(str, IF k = 1 THEN 1 ELSE ends[k - 1] + 1, ends[k] - 1)]

join(elements) ==
  FoldLeftDomain(LAMBDA str, k : str \o (IF k > 1 THEN <<Separator>> ELSE << >>) \o elements[k],
                 << >>, elements)

\* What the commands find; a missing key and an empty list answer alike.
Elements == IF list_value = None THEN << >> ELSE split(list_value)

expire_list_clean == list_value' = None /\ expire_at' = None

\* The engine stores an empty value as a deletion.
put(str) == list_value' = IF str = << >> THEN None ELSE str

-----------------------------------------------------------------------------
Pushes == Call("lpush") \cup Call("rpush")
Pops == Call("lpop") \cup Call("rpop")

PushBegin(c) ==
  \E cmd \in Pushes :
    /\ list_value # None => Len(list_value) < MaxLen
    /\ SeeExpired(c, cmd) \/ SeeLive(c, cmd)
    /\ UNCHANGED list_value

PushClean(c) ==
  /\ client[c].phase = "clean" /\ client[c].cmd \in Pushes
  /\ expire_list_clean
  /\ GoOn(c)
  /\ UNCHANGED now

LPushed(str) == IF list_value = None THEN str ELSE str \o <<Separator>> \o list_value
RPushed(str) == IF list_value = None THEN str ELSE list_value \o <<Separator>> \o str

LPush(c) ==
  /\ client[c].phase = "apply" /\ client[c].cmd.op = "lpush"
  /\ put(LPushed(client[c].cmd.args[1]))
  /\ Return(c, Len(split(LPushed(client[c].cmd.args[1]))))
  /\ UNCHANGED <<now, expire_at>>

RPush(c) ==
  /\ client[c].phase = "apply" /\ client[c].cmd.op = "rpush"
  /\ put(RPushed(client[c].cmd.args[1]))
  /\ Return(c, Len(split(RPushed(client[c].cmd.args[1]))))
  /\ UNCHANGED <<now, expire_at>>

PopBegin(c) ==
  \E cmd \in Pops :
    (SeeExpired(c, cmd) \/ SeeLive(c, cmd)) /\ UNCHANGED list_value

\* A list without elements is left as it is.
PopNothing(c) ==
  /\ client[c].phase = "apply" /\ client[c].cmd \in Pops
  /\ Elements = << >>
  /\ Return(c, None)
  /\ UNCHANGED <<now, expire_at, list_value>>

LPop(c) ==
  /\ client[c].phase = "apply" /\ client[c].cmd.op = "lpop"
  /\ Elements # << >>
  /\ put(join(Tail(Elements)))
  /\ Return(c, Head(Elements))
  /\ UNCHANGED <<now, expire_at>>

RPop(c) ==
  /\ client[c].phase = "apply" /\ client[c].cmd.op = "rpop"
  /\ Elements # << >>
  /\ put(join(Front(Elements)))
  /\ Return(c, Last(Elements))
  /\ UNCHANGED <<now, expire_at>>

LLen(c) ==
  \E cmd \in Call("llen") :
    /\ SeeExpired(c, cmd) \/ ReadLive(c, cmd, Len(Elements))
    /\ UNCHANGED list_value

LRange(c) ==
  \E cmd \in Call("lrange") :
    /\ SeeExpired(c, cmd) \/ ReadLive(c, cmd, Slice(Elements, cmd.args[1], cmd.args[2]))
    /\ UNCHANGED list_value

\* What the other commands answer when they have found the list expired.
ExpiredAnswer(op) ==
  CASE op \in {"lpop", "rpop"} -> None
    [] op = "llen"             -> 0
    [] op = "lrange"           -> << >>

CleanAndReturn(c) ==
  /\ client[c].phase = "clean" /\ client[c].cmd \notin Pushes
  /\ expire_list_clean
  /\ Return(c, ExpiredAnswer(client[c].cmd.op))
  /\ UNCHANGED now

\* redis_del on a key that holds a list, or nothing.
Del(c) ==
  \E cmd \in Call("del") :
    /\ client[c] = Idle
    /\ list_value' = None
    /\ expire_at' = None
    /\ Answer(cmd, IF list_value = None THEN 0 ELSE 1)
    /\ UNCHANGED <<now, client>>

Next ==
  \/ Tick /\ UNCHANGED list_value
  \/ \E c \in Clients :
       \/ PushBegin(c) \/ PushClean(c) \/ LPush(c) \/ RPush(c)
       \/ PopBegin(c) \/ PopNothing(c) \/ LPop(c) \/ RPop(c)
       \/ LLen(c) \/ LRange(c) \/ CleanAndReturn(c) \/ Del(c)
       \/ \E seconds \in Ttls : Expire(c, seconds) /\ UNCHANGED list_value

Spec == Init /\ [][Next]_vars
=============================================================================
