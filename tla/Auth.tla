-------------------------------- MODULE Auth --------------------------------
(* The token service (src/auth/auth_service.c): several instances, each one *)
(* thread, against one Redis.  A request turns into the Redis commands the  *)
(* handler sends one after the other; other instances run in between, a     *)
(* command may fail, and a process may die, between any two.  Results of    *)
(* commands are not looked at, so a handler always runs to its reply.  Once *)
(* a command failed, the hiredis context refuses all others: nothing in the *)
(* service reconnects.                                                      *)
(*                                                                          *)
(* rate_check never refuses: the bucket is full when a connection is        *)
(* accepted and a connection carries one request.                           *)
EXTENDS Integers, Sequences, FiniteSets

CONSTANTS
  AuthInstances,  \* processes of the service
  Devices,
  Tokens,         \* tokens that random_hex and HMAC can produce, each once
  Bogus,          \* a token the service never produced
  AuthFds         \* descriptors of an instance

NoToken == "none"

ASSUME AuthAssumption == Bogus \notin Tokens /\ NoToken \notin Tokens

VARIABLES
  live,       \* Redis: the keys auth:token:<t>, with SETEX's expiry
  blacklist,  \* Redis: the set auth:blacklist
  device,     \* Redis: the token field of auth:device:<d>
  registered, \* Redis: the devices in auth:devices
  conns,      \* conns of each instance: the descriptors in use
  todo,       \* commands left in the handler of each instance
  answer,     \* the token the handler will reply with
  linked,     \* the instance's redisContext has no error
  minted,     \* tokens produced so far
  known       \* tokens a reply has carried

authVars == <<live, blacklist, device, registered, conns, todo, answer, linked, minted, known>>

AuthInit ==
  /\ live = {}
  /\ blacklist = {}
  /\ device = [d \in Devices |-> NoToken]
  /\ registered = {}
  /\ conns = [i \in AuthInstances |-> {}]
  /\ todo = [i \in AuthInstances |-> <<>>]
  /\ answer = [i \in AuthInstances |-> NoToken]
  /\ linked = [i \in AuthInstances |-> TRUE]
  /\ minted = {}
  /\ known = {}

Serving(i) == answer[i] # NoToken

AuthAccept(i) ==
  /\ ~Serving(i)
  /\ \E fd \in AuthFds \ conns[i] : conns' = [conns EXCEPT ![i] = @ \cup {fd}]
  /\ UNCHANGED <<live, blacklist, device, registered, todo, answer, linked, minted, known>>

\* The peer closes, the request does not fit, has no body, names no route or no
\* device, or is one that only reads (/auth/verify, /health).
AuthClose(i) ==
  /\ ~Serving(i)
  /\ \E fd \in conns[i] : conns' = [conns EXCEPT ![i] = @ \ {fd}]
  /\ UNCHANGED <<live, blacklist, device, registered, todo, answer, linked, minted, known>>

Command(op, token, d) == [op |-> op, token |-> token, device |-> d]

redis_issue_token(d, t) == <<Command("SETEX", t, d), Command("HSET", t, d)>>

\* Fault: the blacklist entry is made before the key is deleted.
redis_blacklist_token_Fault(d, t) == <<Command("SADD", t, d), Command("DEL", t, d)>>

redis_blacklist_token(d, t) == <<Command("DEL", t, d), Command("SADD", t, d)>>

redis_register_device(d) == <<Command("REGISTER", NoToken, d)>>

\* The handler for a request on an open connection sends the commands of its
\* route, then issues a fresh token and answers with it.
Serve(i, d, commands) ==
  /\ ~Serving(i) /\ conns[i] # {}
  /\ \E t \in Tokens \ minted :
       /\ minted' = minted \cup {t}
       /\ todo' = [todo EXCEPT ![i] = commands \o redis_issue_token(d, t)]
       /\ answer' = [answer EXCEPT ![i] = t]
  /\ UNCHANGED <<live, blacklist, device, registered, conns, linked, known>>

PostToken(i) == \E d \in Devices : Serve(i, d, <<>>)

\* The old token is not verified before it is revoked.
PostRefresh(i) ==
  \E d \in Devices, old \in known \cup {Bogus} : Serve(i, d, redis_blacklist_token(d, old))

PostRegister(i) == \E d \in Devices : Serve(i, d, redis_register_device(d))

\* What Redis does with a command.
Apply(c) ==
  /\ live' = CASE c.op = "SETEX" -> live \cup {c.token}
               [] c.op = "DEL" -> live \ {c.token}
               [] OTHER -> live
  /\ blacklist' = IF c.op = "SADD" THEN blacklist \cup {c.token} ELSE blacklist
  /\ device' = IF c.op = "HSET" THEN [device EXCEPT ![c.device] = c.token] ELSE device
  /\ registered' = IF c.op = "REGISTER" THEN registered \cup {c.device} ELSE registered

\* A command reaches Redis or not, and its reply may be lost; either loss breaks
\* the context for good.
RedisCommand(i) ==
  /\ todo[i] # <<>>
  /\ todo' = [todo EXCEPT ![i] = Tail(@)]
  /\ \/ linked[i] /\ Apply(Head(todo[i])) /\ UNCHANGED linked
     \/ linked[i] /\ Apply(Head(todo[i])) /\ linked' = [linked EXCEPT ![i] = FALSE]
     \/ /\ linked' = [linked EXCEPT ![i] = FALSE]
        /\ UNCHANGED <<live, blacklist, device, registered>>
  /\ UNCHANGED <<conns, answer, minted, known>>

\* http_ok, and the connection is closed.
Reply(i) ==
  /\ Serving(i) /\ todo[i] = <<>>
  /\ known' = known \cup {answer[i]}
  /\ answer' = [answer EXCEPT ![i] = NoToken]
  /\ \E fd \in conns[i] : conns' = [conns EXCEPT ![i] = @ \ {fd}]
  /\ UNCHANGED <<live, blacklist, device, registered, todo, linked, minted>>

\* The process dies and is started again, with a new context.
AuthRestart(i) ==
  /\ conns' = [conns EXCEPT ![i] = {}]
  /\ todo' = [todo EXCEPT ![i] = <<>>]
  /\ answer' = [answer EXCEPT ![i] = NoToken]
  /\ linked' = [linked EXCEPT ![i] = TRUE]
  /\ UNCHANGED <<live, blacklist, device, registered, minted, known>>

\* Redis drops a key whose TOKEN_TTL has passed.
Expire ==
  /\ \E t \in live : live' = live \ {t}
  /\ UNCHANGED <<blacklist, device, registered, conns, todo, answer, linked, minted, known>>

AuthNext ==
  \/ \E i \in AuthInstances :
       \/ AuthAccept(i)
       \/ AuthClose(i)
       \/ PostToken(i)
       \/ PostRefresh(i)
       \/ PostRegister(i)
       \/ RedisCommand(i)
       \/ Reply(i)
       \/ AuthRestart(i)
  \/ Expire

AuthSpec == AuthInit /\ [][AuthNext]_authVars

(* A revoked token stays revoked: a token in auth:blacklist has no          *)
(* auth:token key, whatever instances issue and refresh at the same time    *)
(* and wherever one of them dies or loses Redis in the middle of a handler. *)
(* The consumers of tokens look only at the key (redis_verify_token).       *)
RevokedStaysRevoked == blacklist \cap live = {}
=============================================================================
