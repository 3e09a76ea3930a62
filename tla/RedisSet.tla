------------------------------ MODULE RedisSet ------------------------------
(***************************************************************************)
(* The set commands of RedisWrapper: SADD, SREM, SISMEMBER, SCARD and      *)
(* SMEMBERS, and DEL on a set.  A set is one LSM key per member and the    *)
(* key itself, whose value is the number of members.  cmd.args is the list *)
(* of members a command names.                                             *)
(***************************************************************************)
EXTENDS RedisExpiry, Sequences

CONSTANT MaxValue    \* bound on the absolute value of a size that is changed

VARIABLES key_value,     \* the key: the stored size, None if missing
          member_keys,   \* the members whose key exists
          miscounted     \* history: DEL has left members, or a command has counted
                         \*   a member more than once, since the set was last cleaned

set == <<key_value, member_keys, miscounted>>
vars == <<expiryVars, set>>

Call(op) == {cmd \in Commands : cmd.op = op}

Init ==
  /\ ExpiryInit
  /\ key_value = None
  /\ member_keys = {}
  /\ miscounted = FALSE

StoredSize == IF key_value = None THEN 0 ELSE key_value

\* Mutant: the size stays.
CleanMembersOnly ==
  /\ member_keys' = {}
  /\ expire_at' = None
  /\ miscounted' = FALSE
  /\ UNCHANGED key_value

\* The member keys are found by their prefix, whatever the size says.
expire_set_clean ==
  /\ key_value' = None
  /\ expire_at' = None
  /\ member_keys' = {}
  /\ miscounted' = FALSE

Named(cmd) == {cmd.args[i] : i \in DOMAIN cmd.args}

\* put_kvs and del_kvs: the arguments that are no members yet, or that are. An
\* argument that is given twice is in them twice.
Missing(cmd) == {i \in DOMAIN cmd.args : cmd.args[i] \notin member_keys}
Existing(cmd) == {i \in DOMAIN cmd.args : cmd.args[i] \in member_keys}

CountsTwice(cmd, counted) == \E i, j \in counted : i # j /\ cmd.args[i] = cmd.args[j]

-----------------------------------------------------------------------------
SAddBegin(c) ==
  \E cmd \in Call("sadd") :
    /\ StoredSize <= MaxValue
    /\ SeeExpired(c, cmd) \/ SeeLive(c, cmd)
    /\ UNCHANGED set

SAddClean(c) ==
  /\ client[c].phase = "clean" /\ client[c].cmd.op = "sadd"
  /\ expire_set_clean
  /\ GoOn(c)
  /\ UNCHANGED now

SAddApply(c) ==
  LET added == Cardinality(Missing(client[c].cmd))
  IN  /\ client[c].phase = "apply" /\ client[c].cmd.op = "sadd"
      /\ member_keys' = member_keys \cup Named(client[c].cmd)
      /\ key_value' = StoredSize + added
      /\ miscounted' = (miscounted \/ CountsTwice(client[c].cmd, Missing(client[c].cmd)))
      /\ Return(c, added)
      /\ UNCHANGED <<now, expire_at>>

SRemBegin(c) ==
  \E cmd \in Call("srem") :
    /\ -StoredSize <= MaxValue
    /\ SeeExpired(c, cmd) \/ SeeLive(c, cmd)
    /\ UNCHANGED set

\* Mutant: the size is not reduced.
RemovedNone(cmd) == 0

Removed(cmd) == Cardinality(Existing(cmd))

\* The size is stored even if there was none.
SRemApply(c) ==
  /\ client[c].phase = "apply" /\ client[c].cmd.op = "srem"
  /\ member_keys' = member_keys \ Named(client[c].cmd)
  /\ key_value' = StoredSize - Removed(client[c].cmd)
  /\ miscounted' = (miscounted \/ CountsTwice(client[c].cmd, Existing(client[c].cmd)))
  /\ Return(c, Removed(client[c].cmd))
  /\ UNCHANGED <<now, expire_at>>

SIsMember(c) ==
  \E cmd \in Call("sismember") :
    /\ SeeExpired(c, cmd)
         \/ ReadLive(c, cmd, IF cmd.args[1] \in member_keys THEN 1 ELSE 0)
    /\ UNCHANGED set

SCard(c) ==
  \E cmd \in Call("scard") :
    /\ SeeExpired(c, cmd) \/ ReadLive(c, cmd, StoredSize)
    /\ UNCHANGED set

SMembers(c) ==
  \E cmd \in Call("smembers") :
    /\ SeeExpired(c, cmd) \/ ReadLive(c, cmd, member_keys)
    /\ UNCHANGED set

\* What the other commands answer when they have found the set expired.
ExpiredAnswer(op) == IF op = "smembers" THEN {} ELSE 0

CleanAndReturn(c) ==
  /\ client[c].phase = "clean" /\ client[c].cmd.op # "sadd"
  /\ expire_set_clean
  /\ Return(c, ExpiredAnswer(client[c].cmd.op))
  /\ UNCHANGED now

\* redis_del knows the parts of a hash, but not those of a set.
Del(c) ==
  \E cmd \in Call("del") :
    /\ client[c] = Idle
    /\ key_value' = None
    /\ expire_at' = None
    /\ miscounted' = (member_keys # {})
    /\ Answer(cmd, IF key_value = None THEN 0 ELSE 1)
    /\ UNCHANGED <<now, client, member_keys>>

Next ==
  \/ Tick /\ UNCHANGED set
  \/ \E c \in Clients :
       \/ SAddBegin(c) \/ SAddClean(c) \/ SAddApply(c)
       \/ SRemBegin(c) \/ SRemApply(c)
       \/ SIsMember(c) \/ SCard(c) \/ SMembers(c) \/ CleanAndReturn(c)
       \/ Del(c)
       \/ \E seconds \in Ttls : Expire(c, seconds) /\ UNCHANGED set

Spec == Init /\ [][Next]_vars

-----------------------------------------------------------------------------
\* Properties.

\* SCARD answers the number of SMEMBERS, but for what DEL leaves behind and what
\* is counted twice.
SizeMatchesMembers == miscounted \/ StoredSize = Cardinality(member_keys)
=============================================================================
