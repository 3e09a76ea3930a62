---------------------------- MODULE RedisWrapper ----------------------------
(***************************************************************************)
(* RedisWrapper (src/src/redis_wrapper/redis_wrapper.cpp): one key, of any *)
(* of the five kinds, with its expire key and the LSM keys of its parts.   *)
(* The commands of each kind are in a module of their own; the expire key, *)
(* redis_mtx and the threads are common to all.  A key is used as one kind *)
(* of value throughout: the code does not look at what it finds.           *)
(***************************************************************************)
EXTENDS RedisExpiry, Sequences

CONSTANTS Kinds,       \* the kinds of values in use
          MaxValue, Fields, Separator, MaxLen, Elems, MaxScore

ASSUME KindsAssumption == Kinds \subseteq {"string", "list", "hash", "set", "zset"}

\* An entry of the LSM tree is not taken for a missing one.
ASSUME NoneAssumption == None \notin Int /\ None \notin Seq(Fields) /\ None \notin Elems

VARIABLES
  kind,                      \* what the key is used as
  key_value,                 \* the key: value, joined list, field list or size
  field_key, blank,          \* the fields of a hash
  member_keys, miscounted,   \* the members of a set
  key_exists, elem_keys, score_keys, unpaired    \* a sorted set

String == INSTANCE RedisString WITH Commands <- Commands["string"], value <- key_value
List == INSTANCE RedisList WITH Commands <- Commands["list"], list_value <- key_value
Hash == INSTANCE RedisHash WITH Commands <- Commands["hash"]
Set == INSTANCE RedisSet WITH Commands <- Commands["set"]
ZSet == INSTANCE RedisZSet WITH Commands <- Commands["zset"]

fields == <<field_key, blank>>
members == <<member_keys, miscounted>>
zset == <<key_exists, elem_keys, score_keys, unpaired>>
vars == <<expiryVars, kind, key_value, fields, members, zset>>

Init ==
  /\ kind \in Kinds
  /\ String!Init /\ List!Init /\ Hash!Init /\ Set!Init /\ ZSet!Init

Next ==
  \/ /\ kind = "string" /\ String!Next
     /\ UNCHANGED <<kind, fields, members, zset>>
  \/ /\ kind = "list" /\ List!Next
     /\ UNCHANGED <<kind, fields, members, zset>>
  \/ /\ kind = "hash" /\ Hash!Next
     /\ UNCHANGED <<kind, members, zset>>
  \/ /\ kind = "set" /\ Set!Next
     /\ UNCHANGED <<kind, fields, zset>>
  \/ /\ kind = "zset" /\ ZSet!Next
     /\ UNCHANGED <<kind, key_value, fields, members>>

Spec == Init /\ [][Next]_vars

-----------------------------------------------------------------------------
\* What the clients' commands are.

IsArgs(args) == DOMAIN args \subseteq Nat /\ IsFiniteSet(DOMAIN args)

HashCommand(cmd) ==
  /\ cmd.op = "hset" =>
       /\ IsArgs(cmd.args)
       /\ \A i \in DOMAIN cmd.args : cmd.args[i][1] \in Fields
  /\ cmd.op = "hdel" => cmd.args[1] \in Fields

SetCommand(cmd) == cmd.op \in {"sadd", "srem"} => IsArgs(cmd.args)

ZSetCommand(cmd) ==
  /\ cmd.op = "zadd" =>
       /\ IsArgs(cmd.args)
       /\ \A i \in DOMAIN cmd.args : cmd.args[i][1] \in ZSet!Scores /\ cmd.args[i][2] \in Elems
  /\ cmd.op = "zincrby" => cmd.args[1] \in Int /\ cmd.args[2] \in Elems
  /\ cmd.op = "zrem" => \A i \in DOMAIN cmd.args : cmd.args[i] \in Elems

ASSUME CommandsAssumption ==
  /\ "hash" \in Kinds => \A cmd \in Commands["hash"] : HashCommand(cmd)
  /\ "set" \in Kinds => \A cmd \in Commands["set"] : SetCommand(cmd)
  /\ "zset" \in Kinds => MaxScore \in Nat /\ \A cmd \in Commands["zset"] : ZSetCommand(cmd)

-----------------------------------------------------------------------------
\* Properties of the keys a value is spread over.

\* The key of a hash lists exactly the fields that HSET has stored and nothing has
\* removed since, each once, whatever the threads do between their critical
\* sections: HKEYS and HGET agree on every field whose value is not empty, and DEL
\* and expiry, which go by the list, leave no field behind.
FieldListMatchesFields == kind = "hash" => Hash!FieldListMatchesFields

\* SCARD answers the number of SMEMBERS, through every interleaving of the threads'
\* critical sections and every expiry.  The two causes for which the code lets them
\* differ are named in miscounted: DEL, which removes the size and leaves the
\* members, and an argument that SADD or SREM is given twice.
SizeMatchesMembers == kind = "set" => Set!SizeMatchesMembers

\* The element keys and score keys of a sorted set come in pairs: what ZRANGE and
\* ZCARD read by score is what ZSCORE reads by element.  The comment in redis_zcard
\* says so without a condition; the code keeps it until a ZADD changes the score of
\* an element, whose old score key stays, or two elements meet at one score, which
\* has a single key.
KeysComeInPairs == kind = "zset" => ZSet!KeysComeInPairs

\* Whatever indices LRANGE and ZRANGE are given, they read no element outside the
\* ones there are; and they answer those between the indices, and no others unless
\* stop lies before the first element.
RangesAreExact ==
  /\ kind = "list" => \A cmd \in List!Call("lrange") :
       List!ExactRange(cmd.args[1], cmd.args[2], Len(List!Elements))
  /\ kind = "zset" => \A cmd \in ZSet!Call("zrange") :
       ZSet!ExactRange(cmd.args[1], cmd.args[2], Len(ZSet!InScoreOrder))
=============================================================================
