----------------------------- MODULE RedisServer -----------------------------
(***************************************************************************)
(* The Redis server (src/server/src/server.cpp and handler.cpp): sessions  *)
(* that read requests from a byte stream, dispatch them and write replies, *)
(* all on the one thread that runs io_context.                             *)
(*                                                                         *)
(* A request in array form is the line "*n" and two lines for each of its  *)
(* n arguments; n = 0 stands for the one-line form (PING).  A line is two  *)
(* halves, the smallest pieces that may arrive apart; the second holds the *)
(* line's "\r\n".  The place <<i, k>> in the stream of a client is behind  *)
(* k halves of its request i and the requests before it.  Clients send     *)
(* well-formed requests, without waiting for replies.                      *)
(*                                                                         *)
(* Requests are cut by TCP, and by async_read_until, which reads 512 bytes *)
(* at a time when the buffer is small and stops at the first line.         *)
(***************************************************************************)
EXTENDS Integers, Sequences

CONSTANTS Connections, \* the clients, each with a connection of its own
          Requests,    \* Requests[c]: sequence of requests [op, argc] of client c
          Split        \* the clients whose requests may arrive in pieces

ASSUME ServerParameters ==
  /\ \A c \in Connections : Len(Requests[c]) \in Nat /\ DOMAIN Requests[c] = 1..Len(Requests[c])
  /\ \A c \in Connections : \A i \in DOMAIN Requests[c] : Requests[c][i].argc \in Nat
  /\ Split \subseteq Connections

VARIABLES
  received,    \* received[c]: the place up to which c's stream has arrived
  consumed,    \* consumed[c]: the place up to which it was taken out of buffer_
  session,     \* session[c]: "reading", "writing" or "closed"
  response,    \* response[c]: the reply being written
  replies,     \* replies[c]: the replies c has got
  closing,     \* closing[c]: c has closed its end
  executed,    \* history: the requests <<c, i, intact>> executed on redis_
  running      \* whether io_context.run() has not been left by an exception

server_vars == <<received, consumed, session, response, replies, closing, executed, running>>

-----------------------------------------------------------------------------
\* External: the byte stream.

\* The halves of request i.
Size(c, i) == 2 + 4 * Requests[c][i].argc

Places(c) ==
  {<<Len(Requests[c]) + 1, 0>>}
    \cup UNION {{i} \X (0..(Size(c, i) - 1)) : i \in DOMAIN Requests[c]}

Before(p, q) == p[1] < q[1] \/ (p[1] = q[1] /\ p[2] < q[2])

Arrive(c) ==
  /\ running /\ ~ closing[c]
  /\ \E p \in Places(c) :
       /\ Before(received[c], p)
       /\ c \in Split \/ p[2] = 0
       /\ received' = [received EXCEPT ![c] = p]
  /\ UNCHANGED <<consumed, session, response, replies, closing, executed, running>>

Disconnect(c) ==
  /\ running /\ ~ closing[c]
  /\ closing' = [closing EXCEPT ![c] = TRUE]
  /\ UNCHANGED <<received, consumed, session, response, replies, executed, running>>

-----------------------------------------------------------------------------
\* handler.cpp: the handler of op passes n arguments, the command included, on to
\* RedisWrapper, and neither refuses them.
CountsIo(op, n) == op \in {"PING", "FLUSHALL", "SAVE"}

CountsBasic(op, n) ==
  \/ op \in {"GET", "INCR", "DECR", "TTL"} /\ n = 2
  \/ op \in {"SET", "EXPIRE"} /\ n = 3
  \/ op = "DEL" /\ n >= 2

CountsHash(op, n) ==
  \/ op = "HKEYS" /\ n = 2
  \/ op \in {"HGET", "HDEL"} /\ n = 3
  \/ op = "HSET" /\ n >= 4 /\ n % 2 = 0

CountsList(op, n) ==
  \/ op \in {"LPOP", "RPOP"} /\ n = 2
  \/ op \in {"LPUSH", "RPUSH", "LLEN"} /\ n = 3
  \/ op = "LRANGE" /\ n = 4

CountsZSet(op, n) ==
  \/ op = "ZCARD" /\ n = 2
  \/ op \in {"ZSCORE", "ZRANK"} /\ n = 3
  \/ op = "ZINCRBY" /\ n = 4
  \/ op = "ZREM" /\ n >= 3
  \/ op = "ZRANGE" /\ n >= 4
  \/ op = "ZADD" /\ n >= 4 /\ (n - 2) % 2 = 0

CountsSet(op, n) ==
  \/ op \in {"SCARD", "SMEMBERS"} /\ n = 2
  \/ op = "SISMEMBER" /\ n = 3
  \/ op \in {"SADD", "SREM"} /\ n >= 3

WellCounted(op, n) ==
  \/ CountsIo(op, n) \/ CountsBasic(op, n) \/ CountsHash(op, n)
  \/ CountsList(op, n) \/ CountsZSet(op, n) \/ CountsSet(op, n)

Reply(i, kind) == [request |-> i, kind |-> kind]

\* RedisWrapper gives an argument, or the value it finds, to std::stoi or stoll.
ParsesNumber(op) ==
  op \in {"INCR", "DECR", "EXPIRE", "LRANGE", "ZRANGE", "ZINCRBY", "SADD", "SREM"}

\* The switch of handleRequest: the reply to request i of c, which is executed
\* unless it is refused.
Dispatch(c, i, intact) ==
  IF WellCounted(Requests[c][i].op, Requests[c][i].argc)
    THEN /\ executed' = Append(executed, <<c, i, intact>>)
         /\ response' = [response EXCEPT ![c] = Reply(i, "answer")]
    ELSE /\ response' = [response EXCEPT ![c] = Reply(i, "error")]
         /\ UNCHANGED executed

\* What is parsed is not a number: nobody catches the exception before main.
Throw(c, i) ==
  /\ WellCounted(Requests[c][i].op, Requests[c][i].argc)
  /\ ParsesNumber(Requests[c][i].op)
  /\ running' = FALSE

\* An error reply that no handler is asked for; it answers request i at best.
Refuse(c, i) ==
  /\ response' = [response EXCEPT ![c] = Reply(i, "error")]
  /\ UNCHANGED executed

-----------------------------------------------------------------------------
\* do_read.  buffer_ begins in request Number, which is one of the array form if the
\* buffer is at its beginning; the data of an argument never starts with "*".
Number(c) == consumed[c][1]
Request(c) == Requests[c][Number(c)]

IsArray(c) == consumed[c][2] = 0 /\ Request(c).argc > 0

NextRequest(c) == <<Number(c) + 1, 0>>

\* The end of the line buffer_ begins in.
LineEnd(c) ==
  LET k == 2 * (consumed[c][2] \div 2) + 2
  IN  IF k = Size(c, Number(c)) THEN NextRequest(c) ELSE <<Number(c), k>>

\* The handler of async_read_until runs when a whole line is in buffer_.
Readable(c) ==
  /\ session[c] = "reading"
  /\ Number(c) \in DOMAIN Requests[c] /\ ~ Before(received[c], LineEnd(c))

\* getline drops only the newline and the code appends "\r\n", so the line
\* compared with "PING\r\n" is "PING\r\r\n".
request_line(c) == <<Request(c).op, "\r">> \o <<"\r", "\n">>

\* A line that is not the head of an array: PONG for the one-line PING, an error
\* for any other.
NotArray(c) ==
  /\ Readable(c) /\ ~ IsArray(c)
  /\ consumed' = [consumed EXCEPT ![c] = LineEnd(c)]
  /\ response' = [response EXCEPT ![c] =
       Reply(Number(c), IF request_line(c) = <<"PING", "\r", "\n">> THEN "answer" ELSE "error")]
  /\ session' = [session EXCEPT ![c] = "writing"]
  /\ UNCHANGED <<received, replies, closing, executed, running>>

\* buffer_ runs empty before the last of the argument lines: getline stops at a
\* newline or at the end of what has arrived.
Partial(c) == ~ Before(<<Number(c), Size(c, Number(c)) - 2>>, received[c])

PartialRequest(c) ==
  /\ Readable(c) /\ IsArray(c) /\ Partial(c)
  /\ consumed' = [consumed EXCEPT ![c] = received[c]]
  /\ Refuse(c, Number(c))
  /\ session' = [session EXCEPT ![c] = "writing"]
  /\ UNCHANGED <<received, replies, closing, running>>

\* Mutant: what is left in the buffer is thrown away with the request.
TakeAll(c) == received[c]

\* Behind the last line, or what has arrived of it.
RequestEnd(c) == IF Before(received[c], NextRequest(c)) THEN received[c] ELSE NextRequest(c)

\* Mutant: the request is looked at without being taken out of the buffer.
TakeNothing(c) == UNCHANGED consumed

TakeRequest(c) == consumed' = [consumed EXCEPT ![c] = RequestEnd(c)]

\* handleRequest.  The last line may have been cut off: then the length check
\* notices, unless the appended "\r\n" makes up for the missing characters.
HandleRequest(c) ==
  /\ Readable(c) /\ IsArray(c) /\ ~ Partial(c)
  /\ TakeRequest(c)
  /\ session' = [session EXCEPT ![c] = "writing"]
  /\ IF RequestEnd(c)[2] = 0 THEN Dispatch(c, Number(c), TRUE)
     ELSE Dispatch(c, Number(c), FALSE) \/ Refuse(c, Number(c))
  /\ UNCHANGED <<received, replies, closing, running>>

\* handleRequest is left by an exception of RedisWrapper.
HandleThrows(c) ==
  /\ Readable(c) /\ IsArray(c) /\ ~ Partial(c)
  /\ TakeRequest(c)
  /\ Throw(c, Number(c))
  /\ UNCHANGED <<received, session, response, replies, closing, executed>>

\* Mutant: do_read is not called again after a write.
WriteLast(c) ==
  /\ session[c] = "writing" /\ ~ closing[c]
  /\ replies' = [replies EXCEPT ![c] = Append(@, response[c])]
  /\ session' = [session EXCEPT ![c] = "closed"]
  /\ UNCHANGED <<received, consumed, response, closing, executed, running>>

\* do_write completes, then do_read.
Written(c) ==
  /\ session[c] = "writing" /\ ~ closing[c]
  /\ replies' = [replies EXCEPT ![c] = Append(@, response[c])]
  /\ session' = [session EXCEPT ![c] = "reading"]
  /\ UNCHANGED <<received, consumed, response, closing, executed, running>>

\* A read or a write that fails ends the session; what buffer_ holds is still
\* served before the end of the stream is seen.  The log line asks for the remote
\* endpoint, which a connection that was reset no longer has: that throws.
Close(c) ==
  /\ closing[c] /\ session[c] # "closed"
  /\ session[c] = "writing" \/ ~ Readable(c)
  /\ session' = [session EXCEPT ![c] = "closed"]
  /\ running' \in BOOLEAN
  /\ UNCHANGED <<received, consumed, response, replies, closing, executed>>

Serve(c) ==
  /\ running
  /\ \/ NotArray(c) \/ PartialRequest(c) \/ HandleRequest(c) \/ HandleThrows(c)
     \/ Written(c) \/ Close(c)

ServerInit ==
  /\ received = [c \in Connections |-> <<1, 0>>]
  /\ consumed = [c \in Connections |-> <<1, 0>>]
  /\ session = [c \in Connections |-> "reading"]
  /\ response = [c \in Connections |-> Reply(0, "none")]
  /\ replies = [c \in Connections |-> << >>]
  /\ closing = [c \in Connections |-> FALSE]
  /\ executed = << >>
  /\ running = TRUE

ServerNext == \E c \in Connections : Arrive(c) \/ Disconnect(c) \/ Serve(c)

\* TCP delivers what was sent, and io_context runs every handler that is ready.
Fairness == \A c \in Connections : WF_server_vars(Arrive(c)) /\ WF_server_vars(Serve(c))

ServerSpec == ServerInit /\ [][ServerNext]_server_vars /\ Fairness

-----------------------------------------------------------------------------
\* Properties.

\* However the requests are cut and the sessions interleave, a client's replies
\* come in the order of the requests they answer, and no request is answered twice,
\* though what is left of a cut one is refused line by line.  When the requests
\* arrive whole, however many at once, the n-th reply answers the n-th request, and
\* it is an answer exactly for the well-counted ones, the one-line form aside:
\* do_read takes exactly one request out of buffer_ and leaves the next.
AnsweredInOrder ==
  \A c \in Connections :
    /\ \A m, n \in DOMAIN replies[c] : m < n =>
         \/ replies[c][m].request < replies[c][n].request
         \/ /\ replies[c][m].request = replies[c][n].request
            /\ replies[c][n].kind = "error"
    /\ c \notin Split => \A n \in DOMAIN replies[c] :
         /\ replies[c][n].request = n
         /\ Requests[c][n].argc > 0 =>
              (replies[c][n].kind = "answer" <=>
                 WellCounted(Requests[c][n].op, Requests[c][n].argc))

\* No request is executed twice, and the requests of a session are executed in
\* the order they were sent, even when they arrive in pieces and the session
\* loses track of where requests begin.
ExecutedInOrder ==
  \A m, n \in DOMAIN executed :
    m < n /\ executed[m][1] = executed[n][1] => executed[m][2] < executed[n][2]

\* Every request of a client that stays connected, and whose requests arrive
\* whole, is answered, whatever the sessions of other clients go through, unless
\* an exception in one of them ends the server.
EveryRequestAnswered ==
  \A c \in Connections \ Split :
    <>(~ running \/ closing[c] \/ Len(replies[c]) = Len(Requests[c]))
=============================================================================
