----------------------------- MODULE Signaling -----------------------------
(* The signaling server (src/signaling/signaling_server.c) beside the token *)
(* service: the client pool with its free list and fd map, the rooms as     *)
(* linked lists through the clients, and the registry sig:connections in    *)
(* Redis.  One thread handles an event at a time and each handler sends at  *)
(* most one Redis command, so a handler is one action.                      *)
(*                                                                          *)
(* Only the first message of what one recv returns is handled: messages     *)
(* that arrive together with an earlier one are dropped, which is why any   *)
(* message may be the next one handled here.                                *)
EXTENDS Auth

CONSTANTS
  SigPool,   \* MAX_CONNECTIONS
  Rooms      \* room names, other than the empty one

ASSUME SignalingAssumption == SigPool \in Nat \ {0}

Clients == 1..SigPool
SigFds == 1..SigPool     \* accept4 results below MAX_CONNECTIONS
NoClient == 0
NoRoom == "none"         \* room_id[0] = 0

VARIABLES
  client,     \* client_pool: fd, room_id, authenticated, auth_token, room_next, hash_next
  freeClient, \* free_clients
  fd_map,
  room,       \* rooms: exists, clients, client_count
  sigCount,   \* active_clients
  sigRedis,   \* srv->redis: "ok", "failed" (context in error) or "null" (dev mode)
  registry,   \* Redis: sig:connections
  orphans,    \* history: clients taken out of their room by a join that then failed
  leftover,   \* history: descriptors whose registry entry outlived a crash
  nameless    \* history: a client joined the room with the empty name

sigVars == <<client, freeClient, fd_map, room, sigCount, sigRedis, registry, orphans,
             leftover, nameless>>

ZeroClient == [fd |-> -1, room_id |-> NoRoom, authenticated |-> FALSE, auth_token |-> NoToken,
               room_next |-> NoClient, hash_next |-> NoClient]
FreeList == [c \in Clients |-> [ZeroClient EXCEPT !.hash_next = IF c = SigPool THEN NoClient ELSE c + 1]]
NoRooms == [r \in Rooms \cup {NoRoom} |-> [exists |-> FALSE, clients |-> NoClient, client_count |-> 0]]

SignalingInit ==
  /\ client = FreeList
  /\ freeClient = 1
  /\ fd_map = [f \in SigFds |-> NoClient]
  /\ room = NoRooms
  /\ sigCount = 0
  /\ sigRedis \in {"ok", "null"}
  /\ registry = [f \in SigFds |-> NoRoom]
  /\ orphans = {}
  /\ leftover = {}
  /\ nameless = FALSE

\* What one Redis command of the server can come to: nothing without Redis, and
\* a failure breaks the context for good.
Registry(f, r) ==
  \/ sigRedis # "ok" /\ UNCHANGED <<sigRedis, registry, leftover>>
  \/ /\ sigRedis = "ok"
     /\ registry' = [registry EXCEPT ![f] = r]
     /\ leftover' = leftover \ {f}
     /\ UNCHANGED sigRedis
  \/ sigRedis = "ok" /\ sigRedis' = "failed" /\ UNCHANGED <<registry, leftover>>

redis_register_connection(f, r) == Registry(f, r)

\* Fault: the entry of a connection that is gone stays.
redis_unregister_connection_Fault(f) == UNCHANGED <<sigRedis, registry, leftover>>

redis_unregister_connection(f) == Registry(f, NoRoom)

\* accept4 returns a descriptor that is not open.
client_alloc(f) ==
  LET c == freeClient
  IN /\ fd_map[f] = NoClient /\ c # NoClient
     /\ freeClient' = client[c].hash_next
     /\ client' = [client EXCEPT ![c] = [ZeroClient EXCEPT !.fd = f]]
     /\ fd_map' = [fd_map EXCEPT ![f] = c]
     /\ sigCount' = sigCount + 1
     /\ UNCHANGED <<room, sigRedis, registry, orphans, leftover, nameless>>

IsClient(c) == c # NoClient

\* The clients in the list that starts at c; one that runs in a cycle is cut
\* after SigPool + 1 of them.
ListOf(cl, c) ==
  LET nth[n \in 1..SigPool + 1] ==
        IF n = 1 THEN c
        ELSE IF IsClient(nth[n - 1]) THEN cl[nth[n - 1]].room_next ELSE NoClient
  IN SelectSeq(nth, IsClient)

Elements(q) == {q[i] : i \in DOMAIN q}

\* The walk with pp: the pointer that holds c, the room's or a client's, gets
\* c's successor.  A client that is not in the list changes nothing.  c's own
\* room_next is dead until c is linked again.
Unlinked(t, r, c) ==
  LET members == Elements(ListOf(t.client, t.room[r].clients))
      next == t.client[c].room_next
  IN IF c \notin members THEN t
     ELSE [client |-> [m \in Clients |-> IF m \in members /\ t.client[m].room_next = c
                                         THEN [t.client[m] EXCEPT !.room_next = next]
                                         ELSE IF m = c THEN [t.client[c] EXCEPT !.room_next = NoClient]
                                         ELSE t.client[m]],
           room |-> [t.room EXCEPT ![r].clients = IF @ = c THEN next ELSE @,
                                   ![r].client_count = @ - 1]]

\* Fault: a client that changes rooms stays in the list of the old one.
LeftRoom_Fault(t, c) == t

\* What both room_join and client_free do with the room the client is in.
LeftRoom(t, c) == IF t.client[c].room_id = NoRoom THEN t ELSE Unlinked(t, t.client[c].room_id, c)

Table == [client |-> client, room |-> room]

room_create(t, r) == [t EXCEPT !.room[r] = [exists |-> TRUE, clients |-> NoClient, client_count |-> 0]]

\* Links c in front of room r.
Entered(t, r, c) ==
  [client |-> [t.client EXCEPT ![c].room_id = r, ![c].room_next = t.room[r].clients],
   room |-> [t.room EXCEPT ![r].clients = c, ![r].client_count = @ + 1]]

\* MSG_JOIN_ROOM; calloc for a room that is not there yet may fail, after the
\* client has left its old room.
room_join(c, r) ==
  LET left == LeftRoom(Table, c)
      made == IF room[r].exists THEN left ELSE room_create(left, r)
      in == Entered(made, r, c)
  IN /\ client[c].authenticated
     /\ \/ /\ client' = in.client /\ room' = in.room
           /\ orphans' = orphans \ {c}
           /\ redis_register_connection(client[c].fd, r)
        \/ /\ ~room[r].exists
           /\ client' = left.client /\ room' = left.room
           /\ orphans' = IF client[c].room_id = NoRoom THEN orphans ELSE orphans \cup {c}
           /\ UNCHANGED <<sigRedis, registry, leftover>>
     /\ nameless' = (r = NoRoom)
     /\ UNCHANGED <<freeClient, fd_map, sigCount>>

\* MSG_LEAVE_ROOM, which unregisters a client that is in no room as well.
LeaveRoom(c) ==
  LET left == LeftRoom(Table, c)
  IN /\ client[c].authenticated
     /\ client' = [left.client EXCEPT ![c].room_id = NoRoom]
     /\ room' = left.room
     /\ orphans' = orphans \ {c}
     /\ redis_unregister_connection(client[c].fd)
     /\ UNCHANGED <<freeClient, fd_map, sigCount, nameless>>

\* The slot goes back to the free list.  Its old contents are forgotten here:
\* nothing reads them before client_alloc clears the slot.
client_free(c) ==
  LET left == LeftRoom(Table, c)
  IN /\ client' = [left.client EXCEPT ![c] = [ZeroClient EXCEPT !.hash_next = freeClient]]
     /\ room' = left.room
     /\ freeClient' = c
     /\ fd_map' = [fd_map EXCEPT ![client[c].fd] = NoClient]
     /\ sigCount' = sigCount - 1
     /\ orphans' = orphans \ {c}
     /\ UNCHANGED nameless

\* recv fails or the peer has closed.
Disconnect(c) ==
  /\ client_free(c)
  /\ IF client[c].room_id = NoRoom THEN UNCHANGED <<sigRedis, registry, leftover>>
     ELSE redis_unregister_connection(client[c].fd)

\* Fault: a reply that did not come counts as a valid token.
TokenAccepted_Fault(t, answered) == answered => t \in live

\* redis_verify_token of the signaling server with Redis: no reply, no entry.
TokenAccepted(t, answered) == answered /\ t \in live

\* MSG_AUTH with a token that verifies.  Without Redis any token does.
Authenticate(c, t) ==
  /\ \/ sigRedis = "null" /\ UNCHANGED sigRedis
     \/ \E answered \in BOOLEAN :
          /\ sigRedis \in {"ok", "failed"}
          /\ answered => sigRedis = "ok"
          /\ TokenAccepted(t, answered)
          /\ sigRedis' = IF answered THEN "ok" ELSE "failed"
  /\ client' = [client EXCEPT ![c].authenticated = TRUE, ![c].auth_token = t]
  /\ UNCHANGED <<freeClient, fd_map, room, sigCount, registry, orphans, leftover, nameless>>

\* MSG_AUTH with one that does not: the client is freed, also one that was
\* authenticated and in a room before.  The reply to EXISTS may be what failed,
\* and so may be the HDEL that follows.
Reject(c, t) ==
  /\ client_free(c)
  /\ \/ sigRedis = "ok" /\ ~TokenAccepted(t, TRUE)
        /\ IF client[c].room_id = NoRoom THEN UNCHANGED <<sigRedis, registry, leftover>>
           ELSE redis_unregister_connection(client[c].fd)
     \/ sigRedis # "null" /\ ~TokenAccepted(t, FALSE)
        /\ sigRedis' = "failed" /\ UNCHANGED <<registry, leftover>>

Offered == known \cup {Bogus}   \* the tokens a client may present

Connected == {fd_map[f] : f \in SigFds} \ {NoClient}

\* The process dies: its memory goes, the registry in Redis stays.
SigCrash ==
  /\ client' = FreeList
  /\ freeClient' = 1
  /\ fd_map' = [f \in SigFds |-> NoClient]
  /\ room' = NoRooms
  /\ sigCount' = 0
  /\ sigRedis' \in {"ok", "null"}
  /\ orphans' = {}
  /\ leftover' = {f \in SigFds : registry[f] # NoRoom}
  /\ UNCHANGED <<registry, nameless>>

\* A join of the room with the empty name links the client into a list while
\* room_id still reads as "in no room".  A second join then links it into two,
\* or into a cycle the walks do not leave: nothing is explored after it.
SignalingNext ==
  /\ ~nameless
  /\ \/ \E f \in SigFds : client_alloc(f)
     \/ \E c \in Connected :
          \/ \E r \in Rooms \cup {NoRoom} : room_join(c, r)
          \/ LeaveRoom(c)
          \/ Disconnect(c)
          \/ \E t \in Offered : Authenticate(c, t) \/ Reject(c, t)
     \/ SigCrash

MembersOf(r) == ListOf(client, room[r].clients)

(* The rooms are sound whatever the order of joins, failed joins, leaves,   *)
(* failed re-authentications, disconnects and reuse of slots: a room's list *)
(* holds connected, authenticated clients whose room_id names it, each of   *)
(* them once, and client_count of them.  Conversely a connected client that *)
(* names a room is in its list, unless a join failed for want of memory     *)
(* after it was taken out.  Offers are broadcast along these lists.         *)
RoomsSound ==
  ~nameless =>
    /\ \A r \in Rooms :
         LET m == MembersOf(r)
         IN /\ Len(m) = room[r].client_count
            /\ Cardinality(Elements(m)) = Len(m)
            /\ \A c \in Elements(m) :
                 c \in Connected /\ client[c].room_id = r /\ client[c].authenticated
    /\ \A c \in Connected \ orphans :
         client[c].room_id # NoRoom => c \in Elements(MembersOf(client[c].room_id))
    /\ sigCount = Cardinality(Connected)

(* The registry in Redis mirrors the rooms: as long as no command of this   *)
(* process has failed, sig:connections has for each descriptor the room its *)
(* client is in, and any other entry was left by a process that died.       *)
RegistryExact ==
  (sigRedis = "ok" /\ ~nameless) =>
    \A f \in SigFds :
      IF fd_map[f] # NoClient /\ client[fd_map[f]].room_id # NoRoom
      THEN registry[f] = client[fd_map[f]].room_id
      ELSE registry[f] # NoRoom => f \in leftover
=============================================================================
