---------------------------- MODULE RedisString ----------------------------
(***************************************************************************)
(* The string commands of RedisWrapper: SET, GET, INCR, DECR, DEL, EXPIRE  *)
(* and TTL on one key.  A value is the number it reads as.                 *)
(***************************************************************************)
EXTENDS RedisExpiry

CONSTANT MaxValue    \* bound on the absolute value of counters

VARIABLE value       \* the key's value, None if missing

vars == <<expiryVars, value>>

Call(op) == {cmd \in Commands : cmd.op = op}

Init == ExpiryInit /\ value = None

-----------------------------------------------------------------------------
\* put also removes the expire key.
Set(c) ==
  \E cmd \in Call("set") :
    /\ client[c] = Idle
    /\ value' = cmd.args[1]
    /\ expire_at' = None
    /\ Answer(cmd, "OK")
    /\ UNCHANGED <<now, client>>

Counter == IF value = None THEN 0 ELSE value

Incr(c) ==
  \E cmd \in Call("incr") :
    /\ client[c] = Idle
    /\ Counter < MaxValue
    /\ value' = Counter + 1
    /\ Answer(cmd, value')
    /\ UNCHANGED <<now, expire_at, client>>

Decr(c) ==
  \E cmd \in Call("decr") :
    /\ client[c] = Idle
    /\ Counter > -MaxValue
    /\ value' = Counter - 1
    /\ Answer(cmd, value')
    /\ UNCHANGED <<now, expire_at, client>>

Del(c) ==
  \E cmd \in Call("del") :
    /\ client[c] = Idle
    /\ value' = None
    /\ expire_at' = None
    /\ Answer(cmd, IF value = None THEN 0 ELSE 1)
    /\ UNCHANGED <<now, client>>

\* GET of a missing key whose expire key is left, or of an expired one, waits
\* for the exclusive lock.
Get(c) ==
  \E cmd \in Call("get") :
    /\ client[c] = Idle
    /\ IF expire_at # None /\ (value = None \/ is_expired)
         THEN /\ client' = [client EXCEPT ![c] =
                   Waiting(IF value = None THEN "orphan" ELSE "clean", cmd)]
              /\ UNCHANGED reply
         ELSE Answer(cmd, value) /\ UNCHANGED client
    /\ UNCHANGED <<now, expire_at, value>>

GetRemoves(c) ==
  /\ client[c].phase = "clean"
  /\ value' = None
  /\ expire_at' = None
  /\ Return(c, None)
  /\ UNCHANGED now

GetRemovesOrphan(c) ==
  /\ client[c].phase = "orphan"
  /\ expire_at' = None
  /\ Return(c, None)
  /\ UNCHANGED <<now, value>>

\* TTL only reads; a missing key is answered with -1.
Ttl(c) ==
  \E cmd \in Call("ttl") :
    /\ client[c] = Idle
    /\ Answer(cmd, IF value = None \/ expire_at = None THEN -1
                   ELSE IF is_expired THEN -2 ELSE expire_at - now)
    /\ UNCHANGED <<now, expire_at, client, value>>

Next ==
  \/ Tick /\ UNCHANGED value
  \/ \E c \in Clients :
       \/ Set(c) \/ Incr(c) \/ Decr(c) \/ Del(c) \/ Ttl(c)
       \/ Get(c) \/ GetRemoves(c) \/ GetRemovesOrphan(c)
       \/ \E seconds \in Ttls : Expire(c, seconds) /\ UNCHANGED value

Spec == Init /\ [][Next]_vars
=============================================================================
