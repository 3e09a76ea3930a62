---------------------------- MODULE RedisExpiry ----------------------------
(***************************************************************************)
(* Expiry in RedisWrapper (src/src/redis_wrapper/redis_wrapper.cpp), for   *)
(* one key and several threads that call the wrapper.  A key's deadline is *)
(* kept under a second LSM key, the expire key.                            *)
(*                                                                         *)
(* A command first takes redis_mtx shared and looks at the expire key.  If *)
(* the key has expired, expire_*_clean (redis_get has the code inline)     *)
(* releases the lock, takes it exclusively and removes the data; otherwise *)
(* a command that writes also releases it and takes it exclusively.  Each  *)
(* critical section is one step here; client says between which sections a *)
(* thread is.                                                              *)
(*                                                                         *)
(* Time is in whole seconds: is_expired compares time_t values.            *)
(***************************************************************************)
EXTENDS Integers, FiniteSets

CONSTANTS Clients,     \* threads
          Commands,    \* the commands they issue: [op, args], by kind of value
          Ttls,        \* the seconds EXPIRE is called with
          MaxTime,     \* bound on the clock
          None         \* no such key in the LSM tree

ASSUME ExpiryParameters == Ttls \subseteq Int /\ MaxTime \in Nat

VARIABLES now,         \* system_clock
          expire_at,   \* value of the expire key
          client,      \* what each thread is doing
          reply        \* <<command, answer>> of the last call that returned

expiryVars == <<now, expire_at, client, reply>>

Idle == [phase |-> "idle", cmd |-> None]

Waiting(phase, cmd) == [phase |-> phase, cmd |-> cmd]

ExpiryInit ==
  /\ now = 0
  /\ expire_at = None
  /\ client = [c \in Clients |-> Idle]
  /\ reply = <<None, None>>

-----------------------------------------------------------------------------
is_expired == expire_at # None /\ expire_at < now

get_expire_time(seconds) == now + seconds

\* The shared section of a command that finds the key expired.
SeeExpired(c, cmd) ==
  /\ client[c] = Idle
  /\ is_expired
  /\ client' = [client EXCEPT ![c] = Waiting("clean", cmd)]
  /\ UNCHANGED <<now, expire_at, reply>>

\* The shared section of a writing command that finds it not expired.
SeeLive(c, cmd) ==
  /\ client[c] = Idle
  /\ ~ is_expired
  /\ client' = [client EXCEPT ![c] = Waiting("apply", cmd)]
  /\ UNCHANGED <<now, expire_at, reply>>

Answer(cmd, answer) == reply' = <<cmd, answer>>

\* A reading command is over within its shared section.
ReadLive(c, cmd, answer) ==
  /\ client[c] = Idle
  /\ ~ is_expired
  /\ Answer(cmd, answer)
  /\ UNCHANGED <<now, expire_at, client>>

\* What follows expire_*_clean: a command that creates its object goes on.
GoOn(c) ==
  /\ client' = [client EXCEPT ![c] = Waiting("apply", @.cmd)]
  /\ UNCHANGED reply

Return(c, answer) ==
  /\ client' = [client EXCEPT ![c] = Idle]
  /\ Answer(client[c].cmd, answer)

\* redis_expire, which does not ask whether the key exists.
Expire(c, seconds) ==
  /\ client[c] = Idle
  /\ expire_at' = get_expire_time(seconds)
  /\ UNCHANGED <<now, client, reply>>

Tick ==
  /\ now < MaxTime
  /\ now' = now + 1
  /\ UNCHANGED <<expire_at, client, reply>>
=============================================================================
