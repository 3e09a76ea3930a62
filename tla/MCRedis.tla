------------------------------ MODULE MCRedis ------------------------------
(***************************************************************************)
(* The two halves of the Redis layer, which meet only in the calls that    *)
(* RedisServer records in executed: a behaviour is one of either.          *)
(*                                                                         *)
(* The wrapper: two threads and one key of each kind.  (The shipped server *)
(* calls the wrapper from one thread.)  The server: pipelined requests of  *)
(* two clients, served, refused for their argument count, in the one-line  *)
(* form, and with a number to be parsed.  Those of c2 may arrive in        *)
(* pieces.                                                                 *)
(***************************************************************************)
EXTENDS RedisWrapper, RedisServer, TLC

CONSTANTS x, y, f1, f2, v, w, m1, m2, a, b, c1, c2

VARIABLE side    \* "wrapper" or "server"

C(op, args) == [op |-> op, args |-> args]

Strings == {C("set", <<1>>)}
             \cup {C(op, << >>) : op \in {"get", "incr", "decr", "del", "ttl"}}

\* The LRANGE indices include ones before the first and behind the last element.
Lists ==
  {C("lpush", <<<<x>>>>), C("rpush", <<<<y>>>>), C("rpush", << << >> >>)}
    \cup {C(op, << >>) : op \in {"lpop", "rpop", "del", "llen"}}
    \cup {C("lrange", bounds) : bounds \in {<<-9, 0>>, <<1, 9>>, <<-1, -9>>}}

\* One HSET names a field twice, one has the empty value.
Hashes ==
  {C("hset", <<<<f1, v>>>>), C("hset", <<<<f2, v>>, <<f1, w>>, <<f2, w>>>>),
   C("hset", <<<<f2, None>>>>), C("hget", <<f1>>), C("hdel", <<f1>>), C("hdel", <<f2>>),
   C("hkeys", << >>), C("del", << >>)}

\* One SADD and one SREM name a member twice.
Sets ==
  {C("sadd", <<m1, m2>>), C("sadd", <<m2, m2>>), C("srem", <<m2>>),
   C("srem", <<m1, m1>>), C("sismember", <<m2>>), C("scard", << >>),
   C("smembers", << >>), C("del", << >>)}

\* The ZADDs change the score of b, and give it that of a. ZINCRBY may move it alone.
ZSets ==
  {C("zadd", <<<<0, b>>>>), C("zadd", <<<<1, b>>, <<0, a>>>>), C("zincrby", <<1, b>>),
   C("zrem", <<a, b>>), C("zrange", <<0, -1>>), C("zrange", <<-9, 1>>),
   C("zcard", << >>), C("zscore", <<a>>), C("zrank", <<b>>), C("del", << >>)}

AllKinds == [string |-> Strings, list |-> Lists, hash |-> Hashes, set |-> Sets, zset |-> ZSets]

R(op, argc) == [op |-> op, argc |-> argc]

Pipelined == c1 :> <<R("HSET", 5), R("PING", 0), R("INCR", 2)>> @@
             c2 :> <<R("SAVE", 1), R("SAVE", 1)>>

MCInit == side \in {"wrapper", "server"} /\ Init /\ ServerInit

MCNext ==
  /\ UNCHANGED side
  /\ \/ side = "wrapper" /\ Next /\ UNCHANGED server_vars
     \/ side = "server" /\ ServerNext /\ UNCHANGED vars

\* In the half that does not run, nothing that Fairness asks for is a step of MCNext.
MCFairness ==
  \A c \in Connections : /\ WF_server_vars(side = "server" /\ Arrive(c))
                         /\ WF_server_vars(side = "server" /\ Serve(c))

MCSpec == MCInit /\ [][MCNext]_<<side, vars, server_vars>> /\ MCFairness

\* EveryRequestAnswered, of the server's behaviours.
ServerAnswers == side = "server" => EveryRequestAnswered
=============================================================================
