----------------------------- MODULE RedisHash -----------------------------
(***************************************************************************)
(* The hash commands of RedisWrapper: HSET, HGET, HDEL and HKEYS, and DEL  *)
(* on a hash.  A hash is one LSM key per field and the key itself, whose   *)
(* value lists the fields.  An empty value is None: the engine stores it   *)
(* as a deletion.                                                          *)
(***************************************************************************)
EXTENDS RedisExpiry, SequencesExt

CONSTANT Fields

VARIABLES key_value,   \* the key: its field list, None if missing
          field_key,   \* field_key[f]: the value of field f, None if missing
          blank        \* history: the fields that HSET last gave the empty value

hash == <<key_value, field_key, blank>>
vars == <<expiryVars, hash>>

Call(op) == {cmd \in Commands : cmd.op = op}

NoFields == [f \in Fields |-> None]

Init ==
  /\ ExpiryInit
  /\ key_value = None
  /\ field_key = NoFields
  /\ blank = {}

get_fileds_from_hash_value == IF key_value = None THEN << >> ELSE key_value

RemoveListed ==
  field_key' = [f \in Fields |->
                  IF f \in ToSet(get_fileds_from_hash_value) THEN None ELSE field_key[f]]

\* Mutant: the fields stay.
CleanKeyOnly ==
  /\ key_value' = None
  /\ expire_at' = None
  /\ UNCHANGED <<field_key, blank>>

\* expire_hash_clean's exclusive section.
expire_hash_clean ==
  /\ RemoveListed
  /\ key_value' = None
  /\ expire_at' = None
  /\ blank' = {}

-----------------------------------------------------------------------------
(***************************************************************************)
(* redis_hset_batch (redis_hset, which the server no longer calls, is the  *)
(* case of one pair).  cmd.args is a sequence of <<field, value>> pairs;   *)
(* a field that occurs twice is put twice and listed once.                 *)
(***************************************************************************)
HSetBegin(c) ==
  \E cmd \in Call("hset") :
    (SeeExpired(c, cmd) \/ SeeLive(c, cmd)) /\ UNCHANGED hash

\* The pairs that name field f.
Mentions(args, f) == {i \in DOMAIN args : args[i][1] = f}

\* The loop puts pair after pair: the last one that names a field decides.
PutPairs(fields, args) ==
  [f \in Fields |->
     IF Mentions(args, f) = {} THEN fields[f] ELSE args[Max(Mentions(args, f))][2]]

\* The history blank after the loop.
BlankAfter(args) ==
  {f \in Fields : IF Mentions(args, f) = {} THEN f \in blank
                  ELSE args[Max(Mentions(args, f))][2] = None}

\* Mutant: existing_fields is not consulted.
AddedAgain(list, args) == DOMAIN args

\* The pairs whose field is not in existing_fields when the loop comes to them.
Added(list, args) ==
  {i \in DOMAIN args : args[i][1] \notin ToSet(list) /\ i = Min(Mentions(args, args[i][1]))}

Ascending(S) ==
  [n \in 1..Cardinality(S) |-> CHOOSE i \in S : Cardinality({j \in S : j < i}) = n - 1]

\* field_list after the loop.
ListPairs(list, args) ==
  LET added == Ascending(Added(list, args))
  IN  list \o [n \in DOMAIN added |-> args[added[n]][1]]

HSetClean(c) ==
  /\ client[c].phase = "clean" /\ client[c].cmd.op = "hset"
  /\ expire_hash_clean
  /\ GoOn(c)
  /\ UNCHANGED now

HSetApply(c) ==
  /\ client[c].phase = "apply" /\ client[c].cmd.op = "hset"
  /\ field_key' = PutPairs(field_key, client[c].cmd.args)
  /\ key_value' = ListPairs(get_fileds_from_hash_value, client[c].cmd.args)
  /\ blank' = BlankAfter(client[c].cmd.args)
  /\ Return(c, Len(key_value') - Len(get_fileds_from_hash_value))
  /\ UNCHANGED <<now, expire_at>>

HDelBegin(c) ==
  \E cmd \in Call("hdel") :
    (SeeExpired(c, cmd) \/ SeeLive(c, cmd)) /\ UNCHANGED hash

\* A list that becomes empty takes the key with it, but not the expire key.
Unlist(f) ==
  IF key_value = <<f>> THEN None
  ELSE IF f \in ToSet(get_fileds_from_hash_value) THEN RemoveFirst(key_value, f)
  ELSE key_value

HDelApply(c) ==
  LET f == client[c].cmd.args[1]
  IN  /\ client[c].phase = "apply" /\ client[c].cmd.op = "hdel"
      /\ field_key' = [field_key EXCEPT ![f] = None]
      /\ key_value' = Unlist(f)
      /\ blank' = blank \ {f}
      /\ Return(c, IF field_key[f] = None THEN 0 ELSE 1)
      /\ UNCHANGED <<now, expire_at>>

HGet(c) ==
  \E cmd \in Call("hget") :
    /\ SeeExpired(c, cmd) \/ ReadLive(c, cmd, field_key[cmd.args[1]])
    /\ UNCHANGED hash

HKeys(c) ==
  \E cmd \in Call("hkeys") :
    /\ \/ SeeExpired(c, cmd)
       \/ ReadLive(c, cmd, <<Len(get_fileds_from_hash_value),
                             ToSet(get_fileds_from_hash_value)>>)
    /\ UNCHANGED hash

\* What HDEL, HGET and HKEYS answer when they have found the hash expired.
ExpiredAnswer(op) ==
  CASE op = "hdel"  -> 0
    [] op = "hget"  -> None
    [] op = "hkeys" -> <<0, {}>>

CleanAndReturn(c) ==
  /\ client[c].phase = "clean" /\ client[c].cmd.op # "hset"
  /\ expire_hash_clean
  /\ Return(c, ExpiredAnswer(client[c].cmd.op))
  /\ UNCHANGED now

\* redis_del on a key that holds a hash, or nothing.
Del(c) ==
  \E cmd \in Call("del") :
    /\ client[c] = Idle
    /\ RemoveListed
    /\ key_value' = None
    /\ expire_at' = None
    /\ blank' = {}
    /\ Answer(cmd, IF key_value = None THEN 0 ELSE 1)
    /\ UNCHANGED <<now, client>>

Next ==
  \/ Tick /\ UNCHANGED hash
  \/ \E c \in Clients :
       \/ HSetBegin(c) \/ HSetClean(c) \/ HSetApply(c)
       \/ HDelBegin(c) \/ HDelApply(c)
       \/ HGet(c) \/ HKeys(c) \/ CleanAndReturn(c)
       \/ Del(c)
       \/ \E seconds \in Ttls : Expire(c, seconds) /\ UNCHANGED hash

Spec == Init /\ [][Next]_vars

-----------------------------------------------------------------------------
\* Properties.

\* The key lists the fields that have a value and those whose last HSET gave them
\* the empty one, each once, and no others.
FieldListMatchesFields ==
  /\ ToSet(get_fileds_from_hash_value) = {f \in Fields : field_key[f] # None} \cup blank
  /\ \A f \in blank : field_key[f] = None
  /\ IsInjective(get_fileds_from_hash_value)
=============================================================================
