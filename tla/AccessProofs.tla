---------------------------- MODULE AccessProofs ----------------------------
(* Admission at the signaling server rests on the token service: for any    *)
(* number of service instances, tokens, clients and rooms, a client that is *)
(* authenticated against Redis holds a token the service produced.  The     *)
(* invariant adds to the one of AuthProofs that every key in Redis is a     *)
(* produced token, and says of every slot of the client pool, linked or     *)
(* free, what the property says of connected clients.                       *)
EXTENDS Access, AuthProofs

Links == Clients \cup {NoClient}

\* x is a client slot whose token, if it was checked, was produced.
Slot(x, checked, tokens) ==
  /\ x = [fd |-> x.fd, room_id |-> x.room_id, authenticated |-> x.authenticated,
          auth_token |-> x.auth_token, room_next |-> x.room_next, hash_next |-> x.hash_next]
  /\ x.hash_next \in Links
  /\ checked /\ x.authenticated => x.auth_token \in tokens

Slots(cl, checked, tokens) ==
  /\ cl = [c \in Clients |-> cl[c]]
  /\ \A c \in Clients : Slot(cl[c], checked, tokens)

Checked == sigRedis # "null"

SigInv ==
  /\ freeClient \in Links
  /\ fd_map \in [SigFds -> Links]
  /\ Slots(client, Checked, minted)

AccessInv == IInv /\ live \subseteq minted /\ SigInv

-----------------------------------------------------------------------------
\* The token service: only produced tokens get a key.
LEMMA LiveStep ==
  ASSUME IInv, live \subseteq minted, [AuthNext]_authVars
  PROVE  live' \subseteq minted' /\ minted \subseteq minted'
<1>1. CASE UNCHANGED authVars
  BY <1>1 DEF authVars
<1>2. CASE Expire
  BY <1>2 DEF Expire
<1>3. ASSUME NEW i \in AuthInstances,
             AuthAccept(i) \/ AuthClose(i) \/ Reply(i) \/ AuthRestart(i)
      PROVE  live' = live /\ minted' = minted
  BY <1>3 DEF AuthAccept, AuthClose, Reply, AuthRestart
<1>4. ASSUME NEW i \in AuthInstances, PostToken(i) \/ PostRefresh(i) \/ PostRegister(i)
      PROVE  live' = live /\ minted \subseteq minted'
  BY <1>4 DEF PostToken, PostRefresh, PostRegister, Serve
<1>5. ASSUME NEW i \in AuthInstances, RedisCommand(i)
      PROVE  live' \subseteq minted /\ minted' = minted
  <2> DEFINE c == todo[i][1]
  <2>1. todo[i] \in Seq(Commands) /\ todo[i] # <<>>
    BY <1>5 DEF RedisCommand, IInv, TypeInv
  <2>2. Head(todo[i]) = c /\ 1 \in 1..Len(todo[i])
    BY <2>1
  <2>3. Apply(c) \/ live' = live
    BY <1>5, <2>2 DEF RedisCommand
  <2>4. c.op = "SETEX" => c.token \in minted
    <3>1. c.op = "SETEX" => Serving(i) /\ c.token = answer[i]
      BY <2>2 DEF IInv, IssueInv
    <3> QED BY <3>1 DEF IInv, FreshInv
  <2>5. minted' = minted
    BY <1>5 DEF RedisCommand
  <2> QED BY <2>3, <2>4, <2>5 DEF Apply
<1> QED BY <1>1, <1>2, <1>3, <1>4, <1>5 DEF AuthNext

-----------------------------------------------------------------------------
\* Slots are replaced by slots, and more tokens do no harm.
LEMMA SlotReplaced ==
  ASSUME NEW cl, NEW checked, NEW tokens, Slots(cl, checked, tokens),
         NEW c, NEW x, Slot(x, checked, tokens), NEW d, d = [cl EXCEPT ![c] = x]
  PROVE  Slots(d, checked, tokens)
BY DEF Slots

LEMMA SlotsKept ==
  ASSUME NEW cl, NEW p, NEW q, NEW old, NEW new, Slots(cl, p, old), q => p, old \subseteq new
  PROVE  Slots(cl, q, new)
BY DEF Slots, Slot

\* A free slot is one, whatever it is linked to.
LEMMA FreeSlot ==
  ASSUME NEW n \in Links, NEW f, NEW checked, NEW tokens
  PROVE  /\ Slot([ZeroClient EXCEPT !.hash_next = n], checked, tokens)
         /\ Slot([ZeroClient EXCEPT !.fd = f], checked, tokens)
<1> DEFINE rec(a, b, c, d, e, g) ==
             [fd |-> a, room_id |-> b, authenticated |-> c, auth_token |-> d,
              room_next |-> e, hash_next |-> g]
<1>1. PICK no : no = FALSE
  OBVIOUS
<1>2. ZeroClient = rec(-1, NoRoom, no, NoToken, NoClient, NoClient) /\ ~no
  BY <1>1, Zenon DEF ZeroClient
<1>3. ASSUME NEW g, NEW m \in Links, NEW x, x = rec(g, NoRoom, no, NoToken, NoClient, m)
      PROVE  Slot(x, checked, tokens)
  BY <1>2, <1>3 DEF Slot
<1>4. /\ [ZeroClient EXCEPT !.hash_next = n] = rec(-1, NoRoom, no, NoToken, NoClient, n)
      /\ [ZeroClient EXCEPT !.fd = f] = rec(f, NoRoom, no, NoToken, NoClient, NoClient)
  BY <1>2
<1>5. NoClient \in Links
  BY DEF Links
<1> QED BY <1>3, <1>4, <1>5

LEMMA FreeListSlots ==
  ASSUME NEW checked, NEW tokens
  PROVE  Slots(FreeList, checked, tokens)
<1>1. ASSUME NEW c \in Clients
      PROVE  (IF c = SigPool THEN NoClient ELSE c + 1) \in Links
  BY SignalingAssumption DEF Links, Clients
<1>2. ASSUME NEW c \in Clients PROVE Slot(FreeList[c], checked, tokens)
  BY <1>1, FreeSlot DEF FreeList
<1> QED BY <1>2 DEF Slots, FreeList

\* Leaving a room changes links between clients only.
LEMMA LeftRoomSlots ==
  ASSUME NEW checked, NEW tokens, Slots(client, checked, tokens), NEW c
  PROVE  Slots(LeftRoom(Table, c).client, checked, tokens)
<1> DEFINE r == client[c].room_id
           next == client[c].room_next
           members == Elements(ListOf(client, room[r].clients))
           relinked == [m \in Clients |-> IF m \in members /\ client[m].room_next = c
                                          THEN [client[m] EXCEPT !.room_next = next]
                                          ELSE IF m = c THEN [client[c] EXCEPT !.room_next = NoClient]
                                          ELSE client[m]]
<1>1. Table.client = client /\ Table.room = room
  BY DEF Table
<1>2. LeftRoom(Table, c).client \in {client, relinked}
  <2>1. LeftRoom(Table, c) \in {Table, Unlinked(Table, r, c)}
    BY <1>1 DEF LeftRoom
  <2>2. Unlinked(Table, r, c).client \in {client, relinked}
    BY <1>1 DEF Unlinked
  <2> QED BY <1>1, <2>1, <2>2
<1>3. ASSUME NEW x, Slot(x, checked, tokens), NEW n
      PROVE  Slot([x EXCEPT !.room_next = n], checked, tokens)
  BY <1>3 DEF Slot
<1>4. Slots(relinked, checked, tokens)
  <2>1. ASSUME NEW m \in Clients PROVE Slot(relinked[m], checked, tokens)
    BY <1>3 DEF Slots
  <2> HIDE DEF members
  <2> QED BY <2>1 DEF Slots
<1> QED BY <1>2, <1>4

-----------------------------------------------------------------------------
\* What one Redis command leaves: with or without Redis stays as it was.
LEMMA RegistryKeeps ==
  ASSUME NEW f, NEW r, Registry(f, r)
  PROVE  Checked' => Checked
BY DEF Registry, Checked

LEMMA AllocStep ==
  ASSUME SigInv, NEW f \in SigFds, client_alloc(f), UNCHANGED minted
  PROVE  SigInv'
<1> DEFINE c == freeClient
<1>1. /\ c \in Clients
      /\ freeClient' = client[c].hash_next
      /\ client' = [client EXCEPT ![c] = [ZeroClient EXCEPT !.fd = f]]
      /\ fd_map' = [fd_map EXCEPT ![f] = c]
      /\ UNCHANGED sigRedis
  BY DEF client_alloc, SigInv, Links
<1>2. freeClient' \in Links
  BY <1>1 DEF SigInv, Slots, Slot
<1>3. fd_map' \in [SigFds -> Links]
  BY <1>1 DEF SigInv, Links
<1>4. Slots(client, Checked, minted) /\ NoClient \in Links
  BY DEF SigInv, Links
<1>5. Slot([ZeroClient EXCEPT !.fd = f], Checked, minted)
  BY <1>4, FreeSlot
<1>6. Slots(client', Checked, minted)
  BY <1>1, <1>4, <1>5, SlotReplaced
<1>7. Checked' = Checked
  BY <1>1 DEF Checked
<1> QED BY <1>2, <1>3, <1>6, <1>7 DEF SigInv

\* Joining a room, also in vain, and leaving one.
LEMMA RoomStep ==
  ASSUME SigInv, NEW c \in Clients, UNCHANGED minted,
         LeaveRoom(c) \/ \E r \in Rooms \cup {NoRoom} : room_join(c, r)
  PROVE  SigInv'
<1> DEFINE left == LeftRoom(Table, c)
<1>1. Slots(left.client, Checked, minted)
  BY LeftRoomSlots DEF SigInv
<1> HIDE DEF left
<1>2. ASSUME NEW r, NEW n, NEW cl,
             cl \in {[left.client EXCEPT ![c].room_id = r],
                     [left.client EXCEPT ![c].room_id = r, ![c].room_next = n]}
      PROVE  Slots(cl, Checked, minted)
  <2> DEFINE x == left.client[c]
  <2>1. Slot(x, Checked, minted)
    BY <1>1 DEF Slots
  <2>2. /\ Slot([x EXCEPT !.room_id = r], Checked, minted)
        /\ Slot([x EXCEPT !.room_id = r, !.room_next = n], Checked, minted)
    <3>1. ASSUME NEW y, Slot(y, Checked, minted), NEW v
          PROVE  /\ Slot([y EXCEPT !.room_id = v], Checked, minted)
                 /\ Slot([y EXCEPT !.room_next = v], Checked, minted)
      <4>1. Slot([y EXCEPT !.room_id = v], Checked, minted)
        BY <3>1 DEF Slot
      <4>2. Slot([y EXCEPT !.room_next = v], Checked, minted)
        BY <3>1 DEF Slot
      <4> QED BY <4>1, <4>2
    <3> HIDE DEF x
    <3>2. [x EXCEPT !.room_id = r, !.room_next = n] =
            [[x EXCEPT !.room_id = r] EXCEPT !.room_next = n]
      BY <2>1 DEF Slot
    <3> QED BY <2>1, <3>1, <3>2
  <2>3. cl \in {[left.client EXCEPT ![c] = [x EXCEPT !.room_id = r]],
                [left.client EXCEPT ![c] = [x EXCEPT !.room_id = r, !.room_next = n]]}
    BY <1>1, <1>2 DEF Slots
  <2> QED BY <1>1, <2>2, <2>3, SlotReplaced
<1>3. CASE LeaveRoom(c)
  <2>1. /\ client' = [left.client EXCEPT ![c].room_id = NoRoom]
        /\ UNCHANGED <<freeClient, fd_map>>
        /\ Registry(client[c].fd, NoRoom)
    BY <1>3 DEF LeaveRoom, redis_unregister_connection, left
  <2>2. Slots(client', Checked, minted)
    BY <1>2, <2>1
  <2>3. Checked' => Checked
    BY <2>1, RegistryKeeps
  <2>4. Slots(client', Checked', minted)
    BY <2>2, <2>3, SlotsKept
  <2> QED BY <2>1, <2>4 DEF SigInv
<1>4. ASSUME NEW r \in Rooms \cup {NoRoom}, room_join(c, r) PROVE SigInv'
  <2>1. UNCHANGED <<freeClient, fd_map>>
    BY <1>4 DEF room_join
  <2>2. \/ client' = left.client /\ UNCHANGED sigRedis
        \/ /\ \E n : client' = [left.client EXCEPT ![c].room_id = r, ![c].room_next = n]
           /\ Registry(client[c].fd, r)
    <3>1. LET made == IF room[r].exists THEN left ELSE room_create(left, r)
          IN \/ client' = Entered(made, r, c).client /\ Registry(client[c].fd, r)
             \/ client' = left.client /\ UNCHANGED sigRedis
      BY <1>4 DEF room_join, redis_register_connection, left
    <3>2. room_create(left, r).client = left.client
      BY DEF room_create
    <3> QED BY <3>1, <3>2 DEF Entered
  <2>3. Slots(client', Checked, minted)
    BY <1>1, <1>2, <2>2
  <2>4. Checked' => Checked
    BY <2>2, RegistryKeeps DEF Checked
  <2>5. Slots(client', Checked', minted)
    BY <2>3, <2>4, SlotsKept
  <2> QED BY <2>1, <2>5 DEF SigInv
<1> QED BY <1>3, <1>4

\* client_free, which Disconnect and Reject call.
LEMMA FreeStep ==
  ASSUME SigInv, NEW c \in Clients, client_free(c), Checked' => Checked, UNCHANGED minted
  PROVE  SigInv'
<1> DEFINE left == LeftRoom(Table, c)
           free == [ZeroClient EXCEPT !.hash_next = freeClient]
<1>1. Slots(left.client, Checked, minted)
  BY LeftRoomSlots DEF SigInv
<1>2. Slot(free, Checked, minted)
  BY FreeSlot DEF SigInv
<1> HIDE DEF left, free
<1>3. /\ client' = [left.client EXCEPT ![c] = free]
      /\ freeClient' = c
      /\ fd_map' = [fd_map EXCEPT ![client[c].fd] = NoClient]
  BY DEF client_free, left, free
<1>4. Slots(client', Checked, minted)
  BY <1>1, <1>2, <1>3, SlotReplaced
<1>5. Slots(client', Checked', minted)
  BY <1>4, SlotsKept
<1>6. freeClient' \in Links /\ fd_map' \in [SigFds -> Links]
  BY <1>3 DEF SigInv, Links
<1> QED BY <1>5, <1>6 DEF SigInv

\* The step that needs the token service: a checked token has a key.
LEMMA AuthenticateStep ==
  ASSUME SigInv, live \subseteq minted, NEW c \in Clients, NEW t, Authenticate(c, t),
         UNCHANGED minted
  PROVE  SigInv'
<1> DEFINE x == client[c]
           y == [x EXCEPT !.authenticated = TRUE, !.auth_token = t]
<1>1. UNCHANGED <<freeClient, fd_map>> /\ Slots(client, Checked, minted)
  BY DEF Authenticate, SigInv
<1>2. Checked' = Checked /\ (Checked => t \in minted)
  BY DEF Authenticate, Checked, TokenAccepted
<1>3. client' = [client EXCEPT ![c] = y]
  BY <1>1 DEF Authenticate, Slots
<1>4. Slot(y, Checked, minted)
  <2>1. Slot(x, Checked, minted)
    BY <1>1 DEF Slots
  <2>2. /\ y = [fd |-> y.fd, room_id |-> y.room_id, authenticated |-> y.authenticated,
                auth_token |-> y.auth_token, room_next |-> y.room_next, hash_next |-> y.hash_next]
        /\ y.auth_token = t /\ y.hash_next = x.hash_next
    <3>1. PICK yes : y = [x EXCEPT !.authenticated = yes, !.auth_token = t]
      OBVIOUS
    <3>2. PICK a, b, d, e, f, g :
            x = [fd |-> a, room_id |-> b, authenticated |-> d, auth_token |-> e,
                 room_next |-> f, hash_next |-> g]
      BY <2>1 DEF Slot
    <3> HIDE DEF x, y
    <3>3. y = [fd |-> a, room_id |-> b, authenticated |-> yes, auth_token |-> t,
               room_next |-> f, hash_next |-> g]
      BY <3>1, <3>2
    <3> QED BY <3>2, <3>3
  <2> HIDE DEF x, y
  <2> QED BY <1>2, <2>1, <2>2 DEF Slot
<1>5. Slots(client', Checked, minted)
  BY <1>1, <1>3, <1>4, SlotReplaced
<1> QED BY <1>1, <1>2, <1>5 DEF SigInv

LEMMA CrashStep ==
  ASSUME SigInv, SigCrash
  PROVE  SigInv'
<1>1. freeClient' \in Links /\ fd_map' \in [SigFds -> Links]
  BY SignalingAssumption DEF SigCrash, Links, Clients
<1>2. client' = FreeList
  BY DEF SigCrash
<1> QED BY <1>1, <1>2, FreeListSlots DEF SigInv

LEMMA SignalingStep ==
  ASSUME AccessInv, SignalingNext, UNCHANGED authVars
  PROVE  AccessInv'
<1>1. IInv /\ live \subseteq minted /\ SigInv /\ UNCHANGED <<live, minted>>
  BY DEF AccessInv, authVars
<1>2. IInv'
  BY <1>1, AuthStep
<1>3. Connected \subseteq Clients
  BY <1>1 DEF Connected, SigInv, Links
<1>4. ASSUME NEW c \in Clients, Disconnect(c) PROVE SigInv'
  <2>1. Checked' => Checked
    BY <1>4, RegistryKeeps DEF Disconnect, redis_unregister_connection, Checked
  <2> QED BY <1>1, <1>4, <2>1, FreeStep DEF Disconnect
<1>5. ASSUME NEW c \in Clients, NEW t, Reject(c, t) PROVE SigInv'
  <2>1. Checked' => Checked
    BY <1>5, RegistryKeeps DEF Reject, redis_unregister_connection, Checked
  <2> QED BY <1>1, <1>5, <2>1, FreeStep DEF Reject
<1>6. ASSUME NEW c \in Clients, LeaveRoom(c) \/ \E r \in Rooms \cup {NoRoom} : room_join(c, r)
      PROVE  SigInv'
  BY <1>1, <1>6, RoomStep
<1>7. ASSUME NEW c \in Clients, NEW t, Authenticate(c, t) PROVE SigInv'
  BY <1>1, <1>7, AuthenticateStep
<1>8. ASSUME NEW f \in SigFds, client_alloc(f) PROVE SigInv'
  BY <1>1, <1>8, AllocStep
<1>9. ASSUME SigCrash PROVE SigInv'
  BY <1>1, <1>9, CrashStep
<1>10. SigInv'
  BY <1>3, <1>4, <1>5, <1>6, <1>7, <1>8, <1>9 DEF SignalingNext
<1> QED BY <1>1, <1>2, <1>10 DEF AccessInv

LEMMA TokenServiceStep ==
  ASSUME AccessInv, [AuthNext]_authVars, UNCHANGED sigVars
  PROVE  AccessInv'
<1>1. IInv /\ live \subseteq minted /\ SigInv
  BY DEF AccessInv
<1>2. IInv'
  BY <1>1, AuthStep
<1>3. live' \subseteq minted' /\ minted \subseteq minted'
  BY <1>1, LiveStep
<1>4. UNCHANGED <<client, freeClient, fd_map, sigRedis>>
  BY DEF sigVars
<1>5. Slots(client, Checked, minted')
  BY <1>1, <1>3, SlotsKept DEF SigInv
<1>6. SigInv'
  BY <1>1, <1>4, <1>5 DEF SigInv, Checked
<1> QED BY <1>2, <1>3, <1>6 DEF AccessInv

(* Nobody is admitted with a token the service did not produce              *)
(* (redis_verify_token, MSG_AUTH), for any number of instances, tokens,     *)
(* clients and rooms, whichever commands fail and whichever process dies.   *)
THEOREM AdmittedWereIssuedHolds == AccessSpec => []AdmittedWereIssued
<1>1. AccessInit => AccessInv
  <2> SUFFICES ASSUME AccessInit PROVE AccessInv
    OBVIOUS
  <2>1. freeClient \in Links /\ fd_map \in [SigFds -> Links]
    BY SignalingAssumption DEF AccessInit, SignalingInit, Links, Clients
  <2>2. client = FreeList /\ live = {} /\ AuthInit
    BY DEF AccessInit, SignalingInit, AuthInit
  <2> QED BY <2>1, <2>2, FreeListSlots, InitHolds DEF AccessInv, SigInv
<1>2. ASSUME AccessInv, [AccessNext]_accessVars PROVE AccessInv'
  <2>1. CASE UNCHANGED accessVars
    <3>1. UNCHANGED authVars /\ UNCHANGED sigVars
      BY <2>1 DEF accessVars
    <3> QED BY <1>2, <3>1, TokenServiceStep
  <2> QED BY <1>2, <2>1, TokenServiceStep, SignalingStep DEF AccessNext
<1>3. AccessInv => AdmittedWereIssued
  <2> SUFFICES ASSUME AccessInv, Checked, NEW c \in Connected, client[c].authenticated
               PROVE  client[c].auth_token \in minted
    BY DEF AdmittedWereIssued, Checked
  <2>1. c \in Clients
    BY DEF AccessInv, SigInv, Connected, Links
  <2> QED BY <2>1 DEF AccessInv, SigInv, Slots, Slot
<1>4. AccessSpec => []AccessInv
  BY <1>1, <1>2, PTL DEF AccessSpec
<1> QED BY <1>3, <1>4, PTL
=============================================================================
