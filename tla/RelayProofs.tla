---------------------------- MODULE RelayProofs ----------------------------
(***************************************************************************)
(* Proofs about the relay, for every number of workers, slots, connection  *)
(* ids and sessions: the session count is the number of active slots, and  *)
(* no two active sessions have the same id, whatever the interleaving of   *)
(* creates, destroys, sweeps and forwards.                                 *)
(***************************************************************************)
EXTENDS Relay, FiniteSetTheorems, TLAPS

-----------------------------------------------------------------------------
(* The inductive invariant of the slots *)

CreatePCs  == {"add_ingress", "add_egress", "return"}
ForwardPCs == {"fwd_check", "fwd_account", "fwd_send", "fwd_stats"}
LockedPCs  == {"destroy", "purge", "purge_egress"}

\* Locals are set where they are used, and active sessions have endpoints.
LocalsSet ==
  /\ \A w \in Workers : pc[w] \in CreatePCs => loc[w].conn \in Conns /\ loc[w].peer \in Conns
  /\ \A w \in Workers : pc[w] \in ForwardPCs => loc[w].conn \in Conns /\ loc[w].route \in Routes
  /\ \A s \in Slots : sessions[s].active =>
       sessions[s].ingress \in Conns /\ sessions[s].egress \in Conns

\* The holder of session_lock is inside a critical section, and the slot it
\* tears down stays active until it has finished.
LockHeld ==
  /\ \A w \in Workers : pc[w] \in LockedPCs <=> session_lock = w
  /\ \A w \in Workers : pc[w] \in {"destroy", "purge_egress"} => sessions[loc[w].slot].active

\* Ids of active sessions were given out, each to one slot.
IdsIssued ==
  /\ \A s \in Slots : sessions[s].active => sessions[s].id \in 1 .. total_sessions
  /\ \A s, t \in Slots :
       (sessions[s].active /\ sessions[t].active /\ sessions[s].id = sessions[t].id) => s = t

SlotInv ==
  /\ TypeOK
  /\ LocalsSet
  /\ LockHeld
  /\ IdsIssued
  /\ session_count = Cardinality(ActiveSlots)

-----------------------------------------------------------------------------
(* Types of the values that actions store *)

\* Clock values are naturals.
LEMMA TimesFacts ==
  /\ 0 \in Times
  /\ \A t \in Times : t \in Nat
  /\ None \in [Times -> Nat]
BY RelayConstants DEF Times, None

\* The idle locals and the empty slot are well typed.
LEMMA NoLocType == NoLoc \in LocSet /\ EmptySession \in SessionSet
BY RelayConstants, TimesFacts
   DEF NoLoc, LocSet, EmptySession, SessionSet, Header, Host, HeaderSet, Slots, NoRoute

\* Setting the slot or the time of a thread's locals keeps them well typed.
LEMMA LocUpdateType ==
  ASSUME NEW l \in LocSet
  PROVE  /\ \A s \in Slots : [l EXCEPT !.slot = s] \in LocSet
         /\ \A n \in Times : [l EXCEPT !.now = n] \in LocSet
         /\ [l EXCEPT !.freed = TRUE] \in LocSet
BY DEF LocSet

\* A remainder is the number itself when it is below the modulus.
LEMMA SmallMod ==
  ASSUME NEW a \in Nat, NEW b \in Nat, a < b
  PROVE  a % b = a
OBVIOUS

\* session_id does not wrap as long as fewer than IdMod sessions were created.
LEMMA NextIdValue ==
  ASSUME total_sessions \in 0 .. MaxTotal, total_sessions < MaxTotal
  PROVE  NextId = total_sessions + 1 /\ NextId \in 1 .. MaxTotal
<1>1. total_sessions + 1 \in Nat /\ IdMod \in Nat /\ total_sessions + 1 < IdMod
  BY RelayConstants
<1>2. NextId = total_sessions + 1
  BY <1>1, SmallMod DEF NextId
<1> QED
  BY <1>2, RelayConstants

\* FreeRoute changes nothing but the freed flag, and nothing of w itself.
LEMMA FreeRouteFacts ==
  ASSUME NEW w \in Workers, NEW c, NEW l \in [Workers -> LocSet]
  PROVE  /\ FreeRoute(w, c, l) \in [Workers -> LocSet]
         /\ FreeRoute(w, c, l)[w] = l[w]
         /\ \A v \in Workers :
              /\ FreeRoute(w, c, l)[v].slot = l[v].slot
              /\ FreeRoute(w, c, l)[v].conn = l[v].conn
              /\ FreeRoute(w, c, l)[v].peer = l[v].peer
              /\ FreeRoute(w, c, l)[v].id = l[v].id
              /\ FreeRoute(w, c, l)[v].route = l[v].route
              /\ FreeRoute(w, c, l)[v].dst = l[v].dst
              /\ FreeRoute(w, c, l)[v].out = l[v].out
              /\ ~(v # w /\ HoldsRoute(v, c)) =>
                   FreeRoute(w, c, l)[v].freed = l[v].freed
<1>1. ASSUME NEW v \in Workers
      PROVE  /\ [l[v] EXCEPT !.freed = TRUE] \in LocSet
             /\ FreeRoute(w, c, l)[v] = IF v # w /\ HoldsRoute(v, c)
                                        THEN [l[v] EXCEPT !.freed = TRUE] ELSE l[v]
  BY LocUpdateType DEF FreeRoute
<1>2. FreeRoute(w, c, l) \in [Workers -> LocSet]
  BY <1>1 DEF FreeRoute
<1> QED
  BY <1>1, <1>2 DEF LocSet

\* Only finitely many slots are active.
LEMMA ActiveFinite == IsFiniteSet(ActiveSlots)
<1>1. IsFiniteSet(Slots)
  BY FS_Interval, RelayConstants DEF Slots
<1>2. ActiveSlots \subseteq Slots
  BY DEF ActiveSlots
<1> QED
  BY <1>1, <1>2, FS_Subset

\* Steps that leave alone which slots are active and their ids.
LEMMA SameSlots ==
  ASSUME SlotInv,
         \A s \in Slots : /\ sessions'[s].active = sessions[s].active
                          /\ sessions'[s].id = sessions[s].id,
         UNCHANGED <<session_count, total_sessions>>
  PROVE  IdsIssued' /\ (session_count = Cardinality(ActiveSlots))'
<1>1. ActiveSlots' = ActiveSlots
  BY DEF ActiveSlots
<1> QED
  BY <1>1 DEF SlotInv, IdsIssued

-----------------------------------------------------------------------------
(* SlotInv is preserved, action by action *)

\* rc_relay_create establishes the invariant.
LEMMA SlotInvInit == Init => SlotInv
<1> SUFFICES ASSUME Init PROVE SlotInv
  OBVIOUS
<1>1. TypeOK
  <2>1. sessions \in [Slots -> SessionSet] /\ loc \in [Workers -> LocSet]
    BY NoLocType DEF Init
  <2>2. recent \in [Slots -> [Times -> Nat]]
    BY TimesFacts DEF Init
  <2>3. pc \in [Workers -> PCs]
    BY DEF Init, PCs
  <2>4. /\ session_count \in Int /\ total_sessions \in 0 .. MaxTotal /\ clock \in Times
        /\ session_lock \in Workers \cup {Nobody}
    BY RelayConstants, TimesFacts DEF Init
  <2>6. raced \in BOOLEAN /\ degraded \in BOOLEAN
    BY DEF Init
  <2>5. routes \in [Conns -> Routes \cup {NoRoute}]
    BY DEF Init
  <2> QED
    BY <2>1, <2>2, <2>3, <2>4, <2>5, <2>6 DEF TypeOK
<1>2. LocalsSet /\ LockHeld /\ IdsIssued
  <2>1. \A s \in Slots : ~sessions[s].active
    BY DEF Init, EmptySession
  <2>2. \A w \in Workers : pc[w] = "idle" /\ session_lock # w
    BY RelayConstants DEF Init
  <2> QED
    BY <2>1, <2>2 DEF LocalsSet, LockHeld, IdsIssued, CreatePCs, ForwardPCs, LockedPCs
<1>3. session_count = Cardinality(ActiveSlots)
  <2>1. ActiveSlots = {}
    BY DEF Init, ActiveSlots, EmptySession
  <2> QED
    BY <2>1, FS_EmptySet DEF Init
<1> QED
  BY <1>1, <1>2, <1>3 DEF SlotInv

\* The locked part of rc_relay_session_create: a free slot gets a fresh id.
LEMMA SlotInvCreate ==
  ASSUME SlotInv, NEW w \in Workers, NEW p \in ConnPairs, CreateSession(w, p[1], p[2])
  PROVE  SlotInv'
<1> DEFINE i == p[1]
           e == p[2]
<1>0. /\ i \in Conns /\ e \in Conns
      /\ total_sessions \in 0 .. MaxTotal /\ total_sessions < MaxTotal
      /\ clock \in Times /\ session_count \in Int
      /\ sessions \in [Slots -> SessionSet] /\ loc \in [Workers -> LocSet]
      /\ pc \in [Workers -> PCs]
  BY RelayConstants DEF SlotInv, TypeOK, CreateSession
<1>1. NextId = total_sessions + 1 /\ NextId \in 1 .. MaxTotal
  BY <1>0, NextIdValue
<1> DEFINE new == [active |-> TRUE, id |-> NextId, ingress |-> i, egress |-> e,
                   bw |-> 0, window |-> clock, last |-> clock]
           nl(s) == [NoLoc EXCEPT !.slot = s, !.id = NextId, !.conn = i, !.peer = e]
<1>2. PICK s \in Slots :
        /\ ~sessions[s].active
        /\ sessions' = [sessions EXCEPT ![s] = new]
        /\ loc' = [loc EXCEPT ![w] = nl(s)]
        /\ recent' = [recent EXCEPT ![s] = None]
  BY DEF CreateSession, FirstFree
<1>3. /\ pc[w] = "idle" /\ session_lock = Nobody
      /\ total_sessions' = total_sessions + 1
      /\ session_count' = session_count + 1
      /\ pc' = [pc EXCEPT ![w] = "add_ingress"]
      /\ UNCHANGED <<routes, session_lock, clock, raced>>
      /\ degraded' \in BOOLEAN
  BY DEF CreateSession
<1>4. new \in SessionSet /\ nl(s) \in LocSet /\ nl(s).conn = i /\ nl(s).peer = e
  <2> HIDE DEF i, e
  <2>1. NextId \in 0 .. MaxTotal
    BY <1>1, RelayConstants
  <2>2. new \in SessionSet
    BY <1>0, <2>1, TimesFacts DEF SessionSet
  <2>3. nl(s) \in LocSet /\ nl(s).conn = i /\ nl(s).peer = e
    <3> HIDE DEF nl
    <3>1. nl(s) = [NoLoc EXCEPT !.slot = s, !.id = NextId, !.conn = i, !.peer = e]
      BY DEF nl
    <3> QED
      BY <3>1, <1>0, <2>1, NoLocType DEF LocSet
  <2> QED
    BY <2>2, <2>3
<1> HIDE DEF new, nl, i, e
<1>5. TypeOK'
  <2>1. recent' \in [Slots -> [Times -> Nat]]
    BY <1>2, TimesFacts DEF SlotInv, TypeOK
  <2> QED
    BY <1>0, <1>1, <1>2, <1>3, <1>4, <2>1, RelayConstants DEF SlotInv, TypeOK, PCs
<1>6. LocalsSet'
  BY <1>0, <1>2, <1>3, <1>4 DEF SlotInv, LocalsSet, CreatePCs, ForwardPCs, new
<1>7. LockHeld'
  BY <1>0, <1>2, <1>3, RelayConstants DEF SlotInv, LockHeld, LockedPCs, new
<1>8. IdsIssued'
  BY <1>0, <1>1, <1>2, <1>3 DEF SlotInv, IdsIssued, new
<1>9. (session_count = Cardinality(ActiveSlots))'
  <2>1. ActiveSlots' = ActiveSlots \cup {s} /\ s \notin ActiveSlots
    BY <1>0, <1>2 DEF ActiveSlots, new
  <2>2. IsFiniteSet(ActiveSlots)
    BY ActiveFinite
  <2> QED
    BY <2>1, <2>2, <1>3, FS_AddElement DEF SlotInv
<1> QED
  BY <1>5, <1>6, <1>7, <1>8, <1>9 DEF SlotInv

\* The end of destroy and of one purge: the slot is released.
LEMMA SlotInvRetire ==
  ASSUME SlotInv, NEW s \in Slots, sessions[s].active,
         sessions' = [sessions EXCEPT ![s].active = FALSE],
         session_count' = session_count - 1,
         UNCHANGED total_sessions
  PROVE  /\ sessions' \in [Slots -> SessionSet]
         /\ \A t \in Slots \ {s} : sessions'[t] = sessions[t]
         /\ ~sessions'[s].active
         /\ IdsIssued'
         /\ (session_count = Cardinality(ActiveSlots))'
         /\ session_count' \in Int
<1>0. sessions \in [Slots -> SessionSet] /\ session_count \in Int
  BY DEF SlotInv, TypeOK
<1>1. /\ sessions' \in [Slots -> SessionSet]
      /\ \A t \in Slots \ {s} : sessions'[t] = sessions[t]
      /\ ~sessions'[s].active
  BY <1>0 DEF SessionSet
<1>2. IdsIssued'
  <2>1. \A t \in Slots : sessions'[t].active =>
          sessions[t].active /\ sessions'[t].id = sessions[t].id
    BY <1>1
  <2> QED
    BY <2>1 DEF SlotInv, IdsIssued
<1>3. (session_count = Cardinality(ActiveSlots))'
  <2>1. ActiveSlots' = ActiveSlots \ {s} /\ s \in ActiveSlots
    BY <1>1 DEF ActiveSlots
  <2>2. IsFiniteSet(ActiveSlots)
    BY ActiveFinite
  <2> QED
    BY <2>1, <2>2, FS_RemoveElement DEF SlotInv
<1> QED
  BY <1>0, <1>1, <1>2, <1>3

\* What a step of worker w to q has to keep, other than creating a session.
LEMMA SlotInvStep ==
  ASSUME SlotInv, NEW w \in Workers, NEW q \in PCs,
         pc' = [pc EXCEPT ![w] = q],
         sessions' \in [Slots -> SessionSet],
         \A s \in Slots : sessions'[s].active =>
           /\ sessions[s].active
           /\ sessions'[s].ingress = sessions[s].ingress
           /\ sessions'[s].egress = sessions[s].egress,
         (\A s \in Slots : sessions[s].active => sessions'[s].active) \/ session_lock = w,
         IdsIssued', (session_count = Cardinality(ActiveSlots))', session_count' \in Int,
         UNCHANGED <<total_sessions, clock>>,
         routes' \in [Conns -> Routes \cup {NoRoute}],
         recent' \in [Slots -> [Times -> Nat]], raced' \in BOOLEAN, degraded' \in BOOLEAN,
         loc' \in [Workers -> LocSet],
         \A v \in Workers \ {w} : /\ loc'[v].slot = loc[v].slot
                                  /\ loc'[v].conn = loc[v].conn
                                  /\ loc'[v].peer = loc[v].peer
                                  /\ loc'[v].route = loc[v].route,
         q \in CreatePCs => loc'[w].conn \in Conns /\ loc'[w].peer \in Conns,
         q \in ForwardPCs => loc'[w].conn \in Conns /\ loc'[w].route \in Routes,
         q \in LockedPCs <=> session_lock' = w,
         \/ session_lock' = session_lock
         \/ session_lock = Nobody /\ session_lock' = w
         \/ session_lock = w /\ session_lock' = Nobody,
         q \in {"destroy", "purge_egress"} => sessions'[loc'[w].slot].active
  PROVE  SlotInv'
<1>0. /\ pc \in [Workers -> PCs] /\ pc' \in [Workers -> PCs]
      /\ pc'[w] = q /\ \A v \in Workers \ {w} : pc'[v] = pc[v]
      /\ loc \in [Workers -> LocSet]
  BY DEF SlotInv, TypeOK
<1>1. TypeOK'
  BY <1>0 DEF SlotInv, TypeOK
<1>2. LocalsSet'
  <2>1. \A v \in Workers :
          /\ pc'[v] \in CreatePCs => loc'[v].conn \in Conns /\ loc'[v].peer \in Conns
          /\ pc'[v] \in ForwardPCs => loc'[v].conn \in Conns /\ loc'[v].route \in Routes
    BY <1>0 DEF SlotInv, LocalsSet
  <2>2. \A s \in Slots : sessions'[s].active =>
          sessions'[s].ingress \in Conns /\ sessions'[s].egress \in Conns
    BY DEF SlotInv, LocalsSet
  <2> QED
    BY <2>1, <2>2 DEF LocalsSet, CreatePCs, ForwardPCs
<1>3. LockHeld'
  <2>1. \A v \in Workers \ {w} : session_lock' = v <=> session_lock = v
    BY RelayConstants
  <2>2. \A v \in Workers : pc'[v] \in LockedPCs <=> session_lock' = v
    BY <2>1, <1>0 DEF SlotInv, LockHeld
  <2>3. ASSUME NEW v \in Workers \ {w}, pc'[v] \in {"destroy", "purge_egress"}
        PROVE  sessions'[loc'[v].slot].active
    <3>1. pc[v] \in {"destroy", "purge_egress"} /\ session_lock = v
      BY <2>3, <1>0 DEF SlotInv, LockHeld, LockedPCs
    <3>2. sessions[loc[v].slot].active /\ loc[v].slot \in Slots
      BY <3>1, <1>0 DEF SlotInv, LockHeld, LocSet
    <3> QED
      BY <3>1, <3>2
  <2> QED
    BY <2>2, <2>3, <1>0 DEF LockHeld, LockedPCs
<1> QED
  BY <1>1, <1>2, <1>3 DEF SlotInv

\* Types and facts every action starts from.
LEMMA SlotInvTypes ==
  ASSUME SlotInv
  PROVE  /\ sessions \in [Slots -> SessionSet] /\ session_count \in Int
         /\ routes \in [Conns -> Routes \cup {NoRoute}]
         /\ clock \in Times /\ recent \in [Slots -> [Times -> Nat]]
         /\ raced \in BOOLEAN /\ degraded \in BOOLEAN
         /\ pc \in [Workers -> PCs] /\ loc \in [Workers -> LocSet]
         /\ \A w \in Workers : loc[w] \in LocSet /\ loc[w].slot \in Slots
         /\ \A w \in Workers : pc[w] \in LockedPCs <=> session_lock = w
         /\ \A w \in Workers : session_lock = Nobody => session_lock # w
BY RelayConstants DEF SlotInv, TypeOK, LockHeld, LocSet

\* route_add, failed or not, changes only the routing table.
LEMMA RouteAddFacts ==
  ASSUME routes \in [Conns -> Routes \cup {NoRoute}], degraded \in BOOLEAN,
         NEW c \in Conns, NEW s \in Slots, NEW b \in BOOLEAN, NEW d \in Conns,
         route_add(c, s, b, d)
  PROVE  /\ routes' \in [Conns -> Routes \cup {NoRoute}]
         /\ degraded' \in BOOLEAN
         /\ \A x \in Conns : routes'[x] = routes[x]
              \/ (x = c /\ routes'[x] = [slot |-> s, ingress |-> b, peer |-> d])
<1> DEFINE new == [slot |-> s, ingress |-> b, peer |-> d]
<1>1. new \in Routes
  BY DEF Routes
<1>2. degraded' \in BOOLEAN
  BY DEF route_add
<1>3. routes' = [routes EXCEPT ![c] = new] \/ routes' = routes
  BY DEF route_add
<1> HIDE DEF new
<1>4. /\ routes' \in [Conns -> Routes \cup {NoRoute}]
      /\ \A x \in Conns : routes'[x] = routes[x] \/ (x = c /\ routes'[x] = new)
  BY <1>1, <1>3
<1> QED
  BY <1>2, <1>4 DEF new

\* The two route_add calls after the unlock.
LEMMA SlotInvAddRoute ==
  ASSUME SlotInv, NEW w \in Workers, CreateAddIngress(w) \/ CreateAddEgress(w)
  PROVE  SlotInv'
<1>1. loc[w].conn \in Conns /\ loc[w].peer \in Conns /\ loc[w].slot \in Slots
  BY SlotInvTypes DEF SlotInv, LocalsSet, CreatePCs, CreateAddIngress, CreateAddEgress
<1>2. PICK q \in {"add_egress", "return"} : pc' = [pc EXCEPT ![w] = q]
  BY DEF CreateAddIngress, CreateAddEgress
<1>3. /\ UNCHANGED <<sessions, session_count, total_sessions, session_lock, clock, loc,
                     recent, raced>>
      /\ pc[w] \notin LockedPCs
  BY DEF CreateAddIngress, CreateAddEgress, LockedPCs
<1>4. routes' \in [Conns -> Routes \cup {NoRoute}] /\ degraded' \in BOOLEAN
  <2>1. CASE CreateAddIngress(w)
    <3>1. route_add(loc[w].conn, loc[w].slot, TRUE, loc[w].peer)
      BY <2>1 DEF CreateAddIngress
    <3> QED
      BY <3>1, <1>1, SlotInvTypes, RouteAddFacts
  <2>2. CASE CreateAddEgress(w)
    <3>1. route_add(loc[w].peer, loc[w].slot, FALSE, loc[w].conn)
      BY <2>2 DEF CreateAddEgress
    <3> QED
      BY <3>1, <1>1, SlotInvTypes, RouteAddFacts
  <2> QED
    BY <2>1, <2>2
<1>5. IdsIssued' /\ (session_count = Cardinality(ActiveSlots))'
  BY <1>3, SameSlots
<1>6. q \in PCs /\ q \notin LockedPCs /\ q \notin ForwardPCs
  BY DEF PCs, LockedPCs, ForwardPCs
<1> QED
  BY <1>1, <1>2, <1>3, <1>4, <1>5, <1>6, SlotInvTypes, SlotInvStep

\* The return of rc_relay_session_create.
LEMMA SlotInvReturn ==
  ASSUME SlotInv, NEW w \in Workers, CreateReturn(w)
  PROVE  SlotInv'
<1>1. /\ pc' = [pc EXCEPT ![w] = "idle"] /\ loc' = [loc EXCEPT ![w] = NoLoc]
      /\ UNCHANGED <<sessions, session_count, total_sessions, routes, session_lock, clock,
                     recent, raced, degraded>>
      /\ pc[w] \notin LockedPCs
  BY DEF CreateReturn, shared, history, LockedPCs
<1>2. IdsIssued' /\ (session_count = Cardinality(ActiveSlots))'
  BY <1>1, SameSlots
<1>3. "idle" \in PCs \ (LockedPCs \cup ForwardPCs \cup CreatePCs)
  BY DEF PCs, LockedPCs, ForwardPCs, CreatePCs
<1>4. loc' \in [Workers -> LocSet] /\ \A v \in Workers \ {w} : loc'[v] = loc[v]
  BY <1>1, NoLocType, SlotInvTypes
<1> QED
  BY <1>1, <1>2, <1>3, <1>4, SlotInvTypes, SlotInvStep

\* Removing the routes of a conn_id keeps the table well typed.
LEMMA RouteRemoveType ==
  ASSUME SlotInv, NEW c
  PROVE  [routes EXCEPT ![c] = NoRoute] \in [Conns -> Routes \cup {NoRoute}]
BY SlotInvTypes

\* Steps of teardown that remove the ingress routes.
LEMMA SlotInvFind ==
  ASSUME SlotInv, NEW w \in Workers,
         (\E id \in 1 .. total_sessions : DestroyFind(w, id)) \/ PurgeFind(w)
  PROVE  SlotInv'
<1>1. PICK s \in Slots, q \in {"destroy", "purge_egress"}, l \in [Workers -> LocSet] :
        /\ sessions[s].active
        /\ routes' = [routes EXCEPT ![sessions[s].ingress] = NoRoute]
        /\ loc' = FreeRoute(w, sessions[s].ingress, l)
        /\ l[w].slot = s /\ \A v \in Workers \ {w} : l[v] = loc[v]
        /\ pc' = [pc EXCEPT ![w] = q]
        /\ session_lock' = w
        /\ session_lock \in {Nobody, w}
  <2>1. CASE \E id \in 1 .. total_sessions : DestroyFind(w, id)
    <3>1. PICK s \in ActiveSlots :
            /\ routes' = [routes EXCEPT ![sessions[s].ingress] = NoRoute]
            /\ loc' = FreeRoute(w, sessions[s].ingress, [loc EXCEPT ![w].slot = s])
      BY <2>1 DEF DestroyFind
    <3>2. s \in Slots /\ sessions[s].active
      BY DEF ActiveSlots
    <3>3. /\ [loc EXCEPT ![w].slot = s] \in [Workers -> LocSet]
          /\ [loc EXCEPT ![w].slot = s][w].slot = s
          /\ \A v \in Workers \ {w} : [loc EXCEPT ![w].slot = s][v] = loc[v]
      <4>1. loc \in [Workers -> LocSet] /\ loc[w] \in LocSet
        BY SlotInvTypes
      <4>2. [loc[w] EXCEPT !.slot = s] \in LocSet /\ [loc[w] EXCEPT !.slot = s].slot = s
        BY <3>2, <4>1 DEF LocSet
      <4> QED
        BY <4>1, <4>2
    <3>4. /\ pc' = [pc EXCEPT ![w] = "destroy"]
          /\ session_lock' = w /\ session_lock = Nobody
      BY <2>1 DEF DestroyFind
    <3> QED
      BY <3>1, <3>2, <3>3, <3>4
  <2>2. CASE PurgeFind(w)
    <3>1. /\ sessions[loc[w].slot].active /\ loc[w].slot \in Slots
          /\ session_lock = w
      BY <2>2, SlotInvTypes DEF PurgeFind, Purgeable, LockedPCs
    <3>2. /\ routes' = [routes EXCEPT ![sessions[loc[w].slot].ingress] = NoRoute]
          /\ loc' = FreeRoute(w, sessions[loc[w].slot].ingress, loc)
          /\ pc' = [pc EXCEPT ![w] = "purge_egress"]
          /\ session_lock' = session_lock
      BY <2>2 DEF PurgeFind
    <3> QED
      BY <3>1, <3>2, SlotInvTypes
  <2> QED
    BY <2>1, <2>2
<1>2. /\ UNCHANGED <<sessions, session_count, total_sessions, clock, recent, degraded>>
      /\ raced' \in BOOLEAN
  BY DEF DestroyFind, PurgeFind
<1>3. IdsIssued' /\ (session_count = Cardinality(ActiveSlots))'
  BY <1>2, SameSlots
<1>4. q \in PCs /\ q \in LockedPCs /\ q \notin ForwardPCs /\ q \notin CreatePCs
  BY DEF PCs, LockedPCs, ForwardPCs, CreatePCs
<1>5. /\ loc' \in [Workers -> LocSet] /\ loc'[w].slot = s
      /\ \A v \in Workers \ {w} : /\ loc'[v].slot = loc[v].slot
                                  /\ loc'[v].conn = loc[v].conn
                                  /\ loc'[v].peer = loc[v].peer
                                  /\ loc'[v].route = loc[v].route
  BY <1>1, FreeRouteFacts
<1>6. routes' \in [Conns -> Routes \cup {NoRoute}]
  BY <1>1, RouteRemoveType
<1> QED
  BY <1>1, <1>2, <1>3, <1>4, <1>5, <1>6, SlotInvTypes, SlotInvStep

\* Where the purge loop goes after slot s.
LEMMA PurgeNextFacts ==
  ASSUME NEW w \in Workers, NEW s \in Slots, NEW l \in [Workers -> LocSet],
         PurgeNext(w, s, l), session_lock = w
  PROVE  \E q \in {"purge", "idle"} :
           /\ pc' = [pc EXCEPT ![w] = q]
           /\ session_lock' = IF q = "purge" THEN w ELSE Nobody
           /\ loc' \in [Workers -> LocSet]
           /\ \A v \in Workers \ {w} : loc'[v] = l[v]
<1>1. CASE s + 1 < MaxSessions
  <2>1. s + 1 \in Slots
    BY <1>1, RelayConstants DEF Slots
  <2>2. loc' = [l EXCEPT ![w].slot = s + 1] /\ pc' = [pc EXCEPT ![w] = "purge"]
        /\ session_lock' = session_lock
    BY <1>1 DEF PurgeNext
  <2>3. loc' \in [Workers -> LocSet] /\ \A v \in Workers \ {w} : loc'[v] = l[v]
    BY <2>1, <2>2, LocUpdateType
  <2> QED
    BY <2>2, <2>3
<1>2. CASE ~(s + 1 < MaxSessions)
  <2>1. loc' = [l EXCEPT ![w] = NoLoc] /\ pc' = [pc EXCEPT ![w] = "idle"]
        /\ session_lock' = Nobody
    BY <1>2 DEF PurgeNext
  <2>2. loc' \in [Workers -> LocSet] /\ \A v \in Workers \ {w} : loc'[v] = l[v]
    BY <2>1, NoLocType
  <2> QED
    BY <2>1, <2>2
<1> QED
  BY <1>1, <1>2

\* Steps of teardown that release a slot.
LEMMA SlotInvRelease ==
  ASSUME SlotInv, NEW w \in Workers, DestroyFinish(w) \/ PurgeFinish(w)
  PROVE  SlotInv'
<1> DEFINE s == loc[w].slot
<1>1. /\ s \in Slots /\ sessions[s].active /\ session_lock = w
      /\ RetireSlot(w, s)
  BY SlotInvTypes DEF SlotInv, LockHeld, LockedPCs, DestroyFinish, PurgeFinish
<1> HIDE DEF s
<1>2. PICK q \in {"idle", "purge"} :
        /\ pc' = [pc EXCEPT ![w] = q]
        /\ session_lock' = IF q = "purge" THEN w ELSE Nobody
        /\ loc' \in [Workers -> LocSet]
        /\ \A v \in Workers \ {w} : /\ loc'[v].slot = loc[v].slot
                                    /\ loc'[v].conn = loc[v].conn
                                    /\ loc'[v].peer = loc[v].peer
                                    /\ loc'[v].route = loc[v].route
  <2>1. CASE DestroyFinish(w)
    <3> DEFINE l == [loc EXCEPT ![w] = NoLoc]
    <3>1. /\ loc' = FreeRoute(w, sessions[s].egress, l)
          /\ pc' = [pc EXCEPT ![w] = "idle"] /\ session_lock' = Nobody
      BY <2>1 DEF DestroyFinish, s
    <3>2. /\ l \in [Workers -> LocSet]
          /\ \A v \in Workers \ {w} : l[v] = loc[v]
      BY NoLocType, SlotInvTypes
    <3> HIDE DEF l
    <3>3. /\ loc' \in [Workers -> LocSet]
          /\ \A v \in Workers \ {w} : /\ loc'[v].slot = loc[v].slot
                                      /\ loc'[v].conn = loc[v].conn
                                      /\ loc'[v].peer = loc[v].peer
                                      /\ loc'[v].route = loc[v].route
      BY <3>1, <3>2, FreeRouteFacts
    <3> QED
      BY <3>1, <3>3
  <2>2. CASE PurgeFinish(w)
    <3> DEFINE l == FreeRoute(w, sessions[s].egress, loc)
    <3>1. PurgeNext(w, s, l)
      BY <2>2 DEF PurgeFinish, s
    <3>2. /\ l \in [Workers -> LocSet]
          /\ \A v \in Workers : /\ l[v].slot = loc[v].slot
                                 /\ l[v].conn = loc[v].conn
                                 /\ l[v].peer = loc[v].peer
                                 /\ l[v].route = loc[v].route
      BY SlotInvTypes, FreeRouteFacts
    <3> HIDE DEF l
    <3>3. PICK q \in {"purge", "idle"} :
            /\ pc' = [pc EXCEPT ![w] = q]
            /\ session_lock' = IF q = "purge" THEN w ELSE Nobody
            /\ loc' \in [Workers -> LocSet]
            /\ \A v \in Workers \ {w} : loc'[v] = l[v]
      BY <3>1, <3>2, <1>1, PurgeNextFacts
    <3>4. \A v \in Workers \ {w} : /\ loc'[v].slot = loc[v].slot
                                   /\ loc'[v].conn = loc[v].conn
                                   /\ loc'[v].peer = loc[v].peer
                                   /\ loc'[v].route = loc[v].route
      BY <3>2, <3>3
    <3> QED
      BY <3>3, <3>4
  <2> QED
    BY <2>1, <2>2
<1>3. /\ sessions' = [sessions EXCEPT ![s].active = FALSE]
      /\ session_count' = session_count - 1
      /\ routes' = [routes EXCEPT ![sessions[s].egress] = NoRoute]
      /\ UNCHANGED <<total_sessions, clock, recent, degraded>>
      /\ raced' \in BOOLEAN
  BY <1>1 DEF RetireSlot
<1>4. /\ sessions' \in [Slots -> SessionSet]
      /\ \A t \in Slots \ {s} : sessions'[t] = sessions[t]
      /\ ~sessions'[s].active
      /\ IdsIssued' /\ (session_count = Cardinality(ActiveSlots))' /\ session_count' \in Int
  BY <1>1, <1>3, SlotInvRetire
<1>5. /\ q \in PCs /\ q \notin CreatePCs /\ q \notin ForwardPCs
      /\ q \in LockedPCs <=> session_lock' = w
      /\ q \notin {"destroy", "purge_egress"}
  BY <1>2, RelayConstants DEF PCs, CreatePCs, ForwardPCs, LockedPCs
<1>6. routes' \in [Conns -> Routes \cup {NoRoute}]
  BY <1>3, RouteRemoveType
<1> QED
  BY <1>1, <1>2, <1>3, <1>4, <1>5, <1>6, SlotInvTypes, SlotInvStep

\* Steps of the purge loop that release nothing.
LEMMA SlotInvPurge ==
  ASSUME SlotInv, NEW w \in Workers, PurgeStart(w) \/ PurgeLock(w) \/ PurgeKeep(w)
  PROVE  SlotInv'
<1>0. UNCHANGED <<sessions, session_count, total_sessions, routes, clock, recent, raced, degraded>>
  BY DEF PurgeStart, PurgeLock, PurgeKeep, shared, history
<1>1. IdsIssued' /\ (session_count = Cardinality(ActiveSlots))'
  BY <1>0, SameSlots
<1>2. PICK q \in {"purge_lock", "purge", "idle"} :
        /\ pc' = [pc EXCEPT ![w] = q]
        /\ loc' \in [Workers -> LocSet]
        /\ \A v \in Workers \ {w} : loc'[v] = loc[v]
        /\ q = "purge" <=> session_lock' = w
        /\ \/ session_lock' = session_lock
           \/ session_lock = Nobody /\ session_lock' = w
           \/ session_lock = w /\ session_lock' = Nobody
  <2>1. CASE PurgeStart(w)
    <3>1. /\ pc' = [pc EXCEPT ![w] = "purge_lock"] /\ session_lock' = session_lock
          /\ loc' = [loc EXCEPT ![w].now = clock] /\ pc[w] = "idle"
      BY <2>1 DEF PurgeStart, shared
    <3>2. session_lock # w
      BY <3>1, SlotInvTypes DEF LockedPCs
    <3>3. loc' \in [Workers -> LocSet] /\ \A v \in Workers \ {w} : loc'[v] = loc[v]
      BY <3>1, SlotInvTypes, LocUpdateType
    <3> QED
      BY <3>1, <3>2, <3>3
  <2>2. CASE PurgeLock(w)
    <3>1. /\ pc' = [pc EXCEPT ![w] = "purge"] /\ session_lock' = w /\ session_lock = Nobody
          /\ loc' = [loc EXCEPT ![w].slot = 0]
      BY <2>2 DEF PurgeLock
    <3>2. 0 \in Slots
      BY RelayConstants DEF Slots
    <3>3. loc' \in [Workers -> LocSet] /\ \A v \in Workers \ {w} : loc'[v] = loc[v]
      BY <3>1, <3>2, SlotInvTypes, LocUpdateType
    <3> QED
      BY <3>1, <3>3
  <2>3. CASE PurgeKeep(w)
    <3>1. session_lock = w /\ PurgeNext(w, loc[w].slot, loc)
      BY <2>3, SlotInvTypes DEF PurgeKeep, LockedPCs
    <3>2. PICK q \in {"purge", "idle"} :
            /\ pc' = [pc EXCEPT ![w] = q]
            /\ session_lock' = IF q = "purge" THEN w ELSE Nobody
            /\ loc' \in [Workers -> LocSet]
            /\ \A v \in Workers \ {w} : loc'[v] = loc[v]
      BY <3>1, SlotInvTypes, PurgeNextFacts
    <3> QED
      BY <3>1, <3>2, RelayConstants
  <2> QED
    BY <2>1, <2>2, <2>3
<1>3. /\ q \in PCs /\ q \notin CreatePCs /\ q \notin ForwardPCs
      /\ q \in LockedPCs <=> q = "purge"
      /\ q \notin {"destroy", "purge_egress"}
  BY DEF PCs, CreatePCs, ForwardPCs, LockedPCs
<1> QED
  BY <1>0, <1>1, <1>2, <1>3, SlotInvTypes, SlotInvStep

\* Steps of forwarding: they touch the accounting fields of one session only.
LEMMA SlotInvForward ==
  ASSUME SlotInv, NEW w \in Workers, NEW q \in {"idle"} \cup ForwardPCs,
         pc' = [pc EXCEPT ![w] = q],
         pc[w] \in {"idle"} \cup ForwardPCs,
         loc' = [loc EXCEPT ![w] = loc'[w]], loc'[w] \in LocSet,
         q \in ForwardPCs => loc'[w].conn \in Conns /\ loc'[w].route \in Routes,
         sessions' \in [Slots -> SessionSet],
         \A s \in Slots : /\ sessions'[s].active = sessions[s].active
                          /\ sessions'[s].id = sessions[s].id
                          /\ sessions'[s].ingress = sessions[s].ingress
                          /\ sessions'[s].egress = sessions[s].egress,
         UNCHANGED <<session_count, total_sessions, routes, session_lock, clock, raced, degraded>>,
         recent' \in [Slots -> [Times -> Nat]]
  PROVE  SlotInv'
<1>1. IdsIssued' /\ (session_count = Cardinality(ActiveSlots))'
  BY SameSlots
<1>2. loc' \in [Workers -> LocSet] /\ \A v \in Workers \ {w} : loc'[v] = loc[v]
  BY SlotInvTypes
<1>3. /\ q \in PCs /\ q \notin CreatePCs /\ q \notin LockedPCs
      /\ q \notin {"destroy", "purge_egress"} /\ pc[w] \notin LockedPCs
  BY DEF PCs, CreatePCs, ForwardPCs, LockedPCs
<1> QED
  BY <1>1, <1>2, <1>3, SlotInvTypes, SlotInvStep

\* route_lookup in rc_relay_forward.
LEMMA SlotInvLookup ==
  ASSUME SlotInv, NEW w \in Workers, NEW c \in Conns, ForwardLookup(w, c)
  PROVE  SlotInv'
<1> DEFINE l == [NoLoc EXCEPT !.conn = c, !.route = routes[c]]
<1>1. /\ pc' = [pc EXCEPT ![w] = "fwd_check"] /\ pc[w] = "idle"
      /\ loc' = [loc EXCEPT ![w] = l]
      /\ UNCHANGED <<sessions, session_count, total_sessions, routes, session_lock, clock,
                     recent, raced, degraded>>
  BY DEF ForwardLookup, shared, history
<1>2. routes[c] \in Routes
  BY SlotInvTypes DEF ForwardLookup
<1>3. l \in LocSet /\ l.conn = c /\ l.route = routes[c]
  BY <1>2, NoLocType DEF LocSet
<1> HIDE DEF l
<1>4. loc'[w] = l
  BY <1>1, SlotInvTypes
<1>5. "fwd_check" \in ForwardPCs
  BY DEF ForwardPCs
<1> QED
  BY <1>1, <1>2, <1>3, <1>4, <1>5, SlotInvTypes, SlotInvForward

\* The end of a forward that drops the packet or has sent it.
LEMMA ForwardDoneFacts ==
  ASSUME SlotInv, NEW w \in Workers, ForwardDone(w)
  PROVE  /\ pc' = [pc EXCEPT ![w] = "idle"] /\ loc' = [loc EXCEPT ![w] = loc'[w]]
         /\ loc'[w] = NoLoc /\ loc'[w] \in LocSet
         /\ "idle" \notin ForwardPCs
<1>1. pc' = [pc EXCEPT ![w] = "idle"] /\ loc' = [loc EXCEPT ![w] = NoLoc]
  BY DEF ForwardDone
<1>2. loc'[w] = NoLoc
  BY <1>1, SlotInvTypes
<1> QED
  BY <1>1, <1>2, NoLocType DEF ForwardPCs

\* A step after which the accounting fields of slot s have changed.
LEMMA AccountType ==
  ASSUME SlotInv, NEW s \in Slots, NEW y \in SessionSet,
         sessions' = [sessions EXCEPT ![s] = y],
         /\ y.active = sessions[s].active /\ y.id = sessions[s].id
         /\ y.ingress = sessions[s].ingress /\ y.egress = sessions[s].egress
  PROVE  /\ sessions' \in [Slots -> SessionSet]
         /\ \A x \in Slots : /\ sessions'[x].active = sessions[x].active
                             /\ sessions'[x].id = sessions[x].id
                             /\ sessions'[x].ingress = sessions[x].ingress
                             /\ sessions'[x].egress = sessions[x].egress
BY SlotInvTypes

\* Accounting changes neither the identity nor the activity of a session.
LEMMA SessionUpdates ==
  ASSUME NEW x \in SessionSet, NEW b \in Nat, NEW t \in Nat
  PROVE  /\ [x EXCEPT !.bw = b, !.window = t] \in SessionSet
         /\ [x EXCEPT !.bw = b, !.window = t].active = x.active
         /\ [x EXCEPT !.bw = b, !.window = t].id = x.id
         /\ [x EXCEPT !.bw = b, !.window = t].ingress = x.ingress
         /\ [x EXCEPT !.bw = b, !.window = t].egress = x.egress
         /\ [x EXCEPT !.last = t] \in SessionSet
         /\ [x EXCEPT !.last = t].active = x.active
         /\ [x EXCEPT !.last = t].id = x.id
         /\ [x EXCEPT !.last = t].ingress = x.ingress
         /\ [x EXCEPT !.last = t].egress = x.egress
BY DEF SessionSet

\* A forwarding step that ends the call.
LEMMA SlotInvDone ==
  ASSUME SlotInv, NEW w \in Workers, pc[w] \in ForwardPCs, ForwardDone(w),
         sessions' \in [Slots -> SessionSet],
         \A s \in Slots : /\ sessions'[s].active = sessions[s].active
                          /\ sessions'[s].id = sessions[s].id
                          /\ sessions'[s].ingress = sessions[s].ingress
                          /\ sessions'[s].egress = sessions[s].egress,
         UNCHANGED <<session_count, total_sessions, routes, session_lock, clock, history>>
  PROVE  SlotInv'
<1> DEFINE q == "idle"
<1>1. /\ pc' = [pc EXCEPT ![w] = q] /\ loc' = [loc EXCEPT ![w] = loc'[w]]
      /\ loc'[w] \in LocSet /\ q \notin ForwardPCs
  BY ForwardDoneFacts
<1>2. q \in {"idle"} \cup ForwardPCs
  OBVIOUS
<1>3. /\ UNCHANGED <<session_count, total_sessions, routes, session_lock, clock, raced, degraded>>
      /\ recent' \in [Slots -> [Times -> Nat]]
  BY SlotInvTypes DEF history
<1> HIDE DEF q
<1> QED
  BY <1>1, <1>2, <1>3, SlotInvForward

\* The end of rc_relay_forward.
LEMMA SlotInvStats ==
  ASSUME SlotInv, NEW w \in Workers, ForwardStats(w)
  PROVE  SlotInv'
<1> DEFINE s == loc[w].slot
           y == [sessions[s] EXCEPT !.last = clock]
<1>1. /\ pc[w] = "fwd_stats" /\ ForwardDone(w)
      /\ sessions' = [sessions EXCEPT ![s].last = clock]
      /\ UNCHANGED <<session_count, total_sessions, routes, session_lock, clock,
                     history>>
  BY DEF ForwardStats
<1>2. s \in Slots /\ sessions[s] \in SessionSet /\ sessions' = [sessions EXCEPT ![s] = y]
  BY <1>1, SlotInvTypes
<1>3. /\ y \in SessionSet /\ y.active = sessions[s].active /\ y.id = sessions[s].id
      /\ y.ingress = sessions[s].ingress /\ y.egress = sessions[s].egress
  BY <1>2, SlotInvTypes, SessionUpdates, TimesFacts
<1> HIDE DEF s, y
<1>4. "fwd_stats" \in ForwardPCs
  BY DEF ForwardPCs
<1>5. /\ sessions' \in [Slots -> SessionSet]
      /\ \A x \in Slots : /\ sessions'[x].active = sessions[x].active
                          /\ sessions'[x].id = sessions[x].id
                          /\ sessions'[x].ingress = sessions[x].ingress
                          /\ sessions'[x].egress = sessions[x].egress
  BY <1>2, <1>3, AccountType
<1> QED
  BY <1>1, <1>4, <1>5, SlotInvDone

\* A dereference yields a slot and a direction.
LEMMA DerefType ==
  ASSUME SlotInv, NEW w \in Workers, pc[w] \in ForwardPCs
  PROVE  \A r \in Deref(w) : r.slot \in Slots /\ r.ingress \in BOOLEAN
<1>1. loc[w].route \in Routes
  BY DEF SlotInv, LocalsSet
<1> QED
  BY <1>1 DEF Deref, Routes

\* The active and bandwidth checks of rc_relay_forward.
LEMMA SlotInvCheck ==
  ASSUME SlotInv, NEW w \in Workers, ForwardCheck(w)
  PROVE  SlotInv'
<1>0. pc[w] = "fwd_check" /\ "fwd_check" \in ForwardPCs /\ "fwd_account" \in ForwardPCs
  BY DEF ForwardCheck, ForwardPCs
<1>1. PICK r \in Deref(w) :
       LET sess  == sessions[r.slot]
           reset == Elapsed(clock, sess.window) >= BwInterval
           bw    == IF reset THEN 0 ELSE sess.bw
       IN  \/ /\ ~sess.active
              /\ ForwardDone(w)
              /\ UNCHANGED sessions
           \/ /\ sess.active
              /\ bw + 1 > BwLimit
              /\ sessions' = [sessions EXCEPT ![r.slot].bw = bw,
                    ![r.slot].window = IF reset THEN clock ELSE @]
              /\ ForwardDone(w)
           \/ /\ sess.active
              /\ bw + 1 <= BwLimit
              /\ loc' = [loc EXCEPT ![w].slot = r.slot, ![w].bw = bw + 1,
                                    ![w].reset = reset, ![w].now = clock]
              /\ pc' = [pc EXCEPT ![w] = "fwd_account"]
              /\ UNCHANGED sessions
  BY DEF ForwardCheck
<1> DEFINE sess  == sessions[r.slot]
           reset == Elapsed(clock, sess.window) >= BwInterval
           bw    == IF reset THEN 0 ELSE sess.bw
           win   == IF reset THEN clock ELSE sess.window
<1>2. /\ UNCHANGED <<session_count, total_sessions, routes, session_lock, clock, history>>
      /\ UNCHANGED <<session_count, total_sessions, routes, session_lock, clock,
                     recent, raced, degraded>>
      /\ recent' \in [Slots -> [Times -> Nat]]
  BY SlotInvTypes DEF ForwardCheck, history
<1>3. r.slot \in Slots /\ sess \in SessionSet
  BY <1>0, DerefType, SlotInvTypes
<1>4. bw \in Nat /\ bw + 1 \in Nat /\ win \in Nat
  <2>1. sess.bw \in Nat /\ sess.window \in Nat
    BY <1>3 DEF SessionSet
  <2> QED
    BY <2>1, SlotInvTypes, TimesFacts
<1>5. CASE ForwardDone(w) /\ UNCHANGED sessions
  BY <1>0, <1>2, <1>5, SlotInvTypes, SlotInvDone
<1>6. CASE /\ sessions' = [sessions EXCEPT ![r.slot].bw = bw,
                   ![r.slot].window = IF reset THEN clock ELSE @]
           /\ ForwardDone(w)
  <2> DEFINE y == [sess EXCEPT !.bw = bw, !.window = win]
  <2>1. sessions' = [sessions EXCEPT ![r.slot] = y]
    BY <1>3, <1>6, SlotInvTypes
  <2> HIDE DEF sess, bw, win
  <2>2. /\ y \in SessionSet /\ y.active = sess.active /\ y.id = sess.id
        /\ y.ingress = sess.ingress /\ y.egress = sess.egress
    BY <1>3, <1>4, SessionUpdates
  <2> USE DEF sess
  <2> HIDE DEF y
  <2>3. /\ sessions' \in [Slots -> SessionSet]
        /\ \A x \in Slots : /\ sessions'[x].active = sessions[x].active
                            /\ sessions'[x].id = sessions[x].id
                            /\ sessions'[x].ingress = sessions[x].ingress
                            /\ sessions'[x].egress = sessions[x].egress
    BY <2>1, <2>2, <1>3, AccountType
  <2> QED
    BY <1>0, <1>2, <1>6, <2>3, SlotInvDone
<1>7. CASE /\ loc' = [loc EXCEPT ![w].slot = r.slot, ![w].bw = bw + 1,
                                 ![w].reset = reset, ![w].now = clock]
           /\ pc' = [pc EXCEPT ![w] = "fwd_account"]
           /\ UNCHANGED sessions
  <2> DEFINE l == [loc[w] EXCEPT !.slot = r.slot, !.bw = bw + 1, !.reset = reset, !.now = clock]
  <2>0. reset \in BOOLEAN
    OBVIOUS
  <2>1. loc' = [loc EXCEPT ![w] = l] /\ loc'[w] = l
    BY <1>7, SlotInvTypes
  <2> HIDE DEF sess, bw, reset
  <2>2. l \in LocSet /\ l.conn = loc[w].conn /\ l.route = loc[w].route
    BY <1>3, <1>4, <2>0, SlotInvTypes DEF LocSet
  <2>3. loc[w].conn \in Conns /\ loc[w].route \in Routes
    BY <1>0 DEF SlotInv, LocalsSet
  <2> HIDE DEF l
  <2> QED
    BY <1>0, <1>2, <1>7, <2>1, <2>2, <2>3, SlotInvTypes, SlotInvForward
<1> QED
  BY <1>1, <1>5, <1>6, <1>7

\* The stores of bw_check.
LEMMA SlotInvAccount ==
  ASSUME SlotInv, NEW w \in Workers, ForwardAccount(w)
  PROVE  SlotInv'
<1> DEFINE s   == loc[w].slot
           bw  == loc[w].bw
           win == IF loc[w].reset THEN loc[w].now ELSE sessions[s].window
           y   == [sessions[s] EXCEPT !.bw = bw, !.window = win]
           q   == "fwd_send"
<1>1. /\ pc[w] = "fwd_account" /\ pc' = [pc EXCEPT ![w] = q] /\ loc' = loc
      /\ sessions' = [sessions EXCEPT ![s].bw = bw,
                        ![s].window = IF loc[w].reset THEN loc[w].now ELSE @]
      /\ recent' = [recent EXCEPT ![s][loc[w].now] = @ + 1]
      /\ UNCHANGED <<session_count, total_sessions, routes, session_lock, clock,
                     raced, degraded>>
  BY DEF ForwardAccount
<1>2. /\ s \in Slots /\ sessions[s] \in SessionSet /\ sessions' = [sessions EXCEPT ![s] = y]
      /\ loc[w] \in LocSet
  BY <1>1, SlotInvTypes
<1>3. bw \in Nat /\ win \in Nat /\ loc[w].now \in Times
  BY <1>2, TimesFacts DEF LocSet, SessionSet
<1>4. recent' \in [Slots -> [Times -> Nat]]
  BY <1>1, <1>2, <1>3, SlotInvTypes
<1>5. pc[w] \in ForwardPCs /\ q \in ForwardPCs
  BY <1>1 DEF ForwardPCs
<1>6. loc[w].conn \in Conns /\ loc[w].route \in Routes
  BY <1>5 DEF SlotInv, LocalsSet
<1> HIDE DEF s, bw, win, q
<1>7. /\ y \in SessionSet /\ y.active = sessions[s].active /\ y.id = sessions[s].id
      /\ y.ingress = sessions[s].ingress /\ y.egress = sessions[s].egress
  <2> DEFINE x == sessions[s]
  <2>1. x \in SessionSet /\ y = [x EXCEPT !.bw = bw, !.window = win]
    BY <1>2
  <2> HIDE DEF x, y
  <2>2. /\ y \in SessionSet /\ y.active = x.active /\ y.id = x.id
        /\ y.ingress = x.ingress /\ y.egress = x.egress
    BY <1>3, <2>1, SessionUpdates
  <2> QED
    BY <2>2 DEF x
<1> HIDE DEF y
<1>8. /\ sessions' \in [Slots -> SessionSet]
      /\ \A x \in Slots : /\ sessions'[x].active = sessions[x].active
                          /\ sessions'[x].id = sessions[x].id
                          /\ sessions'[x].ingress = sessions[x].ingress
                          /\ sessions'[x].egress = sessions[x].egress
  BY <1>2, <1>7, AccountType
<1>9. loc' = [loc EXCEPT ![w] = loc'[w]] /\ loc'[w] = loc[w]
  BY <1>1, SlotInvTypes
<1> QED
  BY <1>1, <1>2, <1>4, <1>5, <1>6, <1>8, <1>9, SlotInvForward

\* The header that forwarding sends is a header.
LEMMA RewriteType ==
  ASSUME NEW c \in Conns, NEW d \in Conns \cup {NoConn}
  PROVE  /\ Rewrite(c, d) \in HeaderSet
         /\ hdr_unpack(Rewrite(c, d)).conn_id = Host(d)
BY DEF Rewrite, hdr_pack, hdr_unpack, Swap, Header, Host, HeaderSet

\* The header rewrite and the send.
LEMMA SlotInvSend ==
  ASSUME SlotInv, NEW w \in Workers, ForwardSend(w)
  PROVE  SlotInv'
<1> DEFINE sess == sessions[loc[w].slot]
           n    == "fwd_stats"
<1>1. /\ pc[w] \in ForwardPCs /\ n \in ForwardPCs
      /\ UNCHANGED <<sessions, session_count, total_sessions, routes, session_lock, clock,
                     history>>
      /\ UNCHANGED <<recent, raced, degraded>>
  BY DEF ForwardSend, ForwardPCs, shared, history
<1>2. loc[w].conn \in Conns /\ loc[w].route \in Routes /\ loc[w] \in LocSet /\ sess \in SessionSet
  <2>1. loc[w].slot \in Slots
    BY SlotInvTypes
  <2> QED
    BY <1>1, <2>1, SlotInvTypes DEF SlotInv, LocalsSet
<1>3. CASE ForwardDone(w)
  BY <1>1, <1>3, SlotInvTypes, SlotInvDone
<1>4. ASSUME NEW r \in Deref(w), NEW q \in Deref(w),
             loc' = [loc EXCEPT ![w].dst = Opposite(sess, r.ingress),
                                ![w].out = Rewrite(loc[w].conn, Opposite(sess, q.ingress))],
             pc' = [pc EXCEPT ![w] = n]
      PROVE  SlotInv'
  <2> DEFINE to == Opposite(sess, r.ingress)
             c  == Opposite(sess, q.ingress)
             h  == Rewrite(loc[w].conn, c)
             l  == [loc[w] EXCEPT !.dst = to, !.out = h]
  <2>1. to \in Conns \cup {NoConn} /\ c \in Conns \cup {NoConn}
    BY <1>2 DEF Opposite, SessionSet
  <2>2. loc' = [loc EXCEPT ![w] = l] /\ loc'[w] = l
    BY <1>4, SlotInvTypes
  <2> HIDE DEF to, c, n
  <2>3. h \in HeaderSet
    BY <1>2, <2>1, RewriteType
  <2> HIDE DEF h
  <2>4. l \in LocSet /\ l.conn = loc[w].conn /\ l.route = loc[w].route
    BY <1>2, <2>1, <2>3 DEF LocSet
  <2> HIDE DEF l
  <2> QED
    BY <1>1, <1>2, <1>4, <2>2, <2>4, SlotInvTypes, SlotInvForward
<1> QED
  BY <1>3, <1>4 DEF ForwardSend

\* The clock advances.
LEMMA SlotInvTick ==
  ASSUME SlotInv, Tick
  PROVE  SlotInv'
<1>1. UNCHANGED <<sessions, session_count, total_sessions, routes, session_lock, pc, loc,
                  raced, degraded>>
  BY DEF Tick, shared
<1>2. clock' \in Times /\ recent' \in [Slots -> [Times -> Nat]]
  BY SlotInvTypes, RelayConstants DEF Tick, Times
<1>3. TypeOK'
  BY <1>1, <1>2 DEF SlotInv, TypeOK
<1>4. ActiveSlots' = ActiveSlots
  BY <1>1 DEF ActiveSlots
<1> QED
  BY <1>1, <1>3, <1>4 DEF SlotInv, LocalsSet, LockHeld, IdsIssued

\* Nothing changes.
LEMMA SlotInvStutter ==
  ASSUME SlotInv, UNCHANGED vars
  PROVE  SlotInv'
<1>1. UNCHANGED <<sessions, session_count, total_sessions, routes, session_lock, pc, loc,
                  clock, recent, raced, degraded>>
  BY DEF vars, shared, history
<1>2. ActiveSlots' = ActiveSlots
  BY <1>1 DEF ActiveSlots
<1> QED
  BY <1>1, <1>2 DEF SlotInv, TypeOK, LocalsSet, LockHeld, IdsIssued

\* Every step preserves the invariant.
LEMMA SlotInvNext == SlotInv /\ [Next]_vars => SlotInv'
<1> SUFFICES ASSUME SlotInv, [Next]_vars PROVE SlotInv'
  OBVIOUS
<1>1. ASSUME NEW w \in Workers, WorkerStep(w) PROVE SlotInv'
  BY <1>1, SlotInvCreate, SlotInvAddRoute, SlotInvReturn, SlotInvFind, SlotInvRelease
     DEF WorkerStep
<1>2. ASSUME NEW w \in Sweepers, SweeperStep(w) PROVE SlotInv'
  <2>1. w \in Workers
    BY RelayConstants
  <2> QED
    BY <1>2, <2>1, SlotInvFind, SlotInvRelease, SlotInvPurge DEF SweeperStep
<1>3. ASSUME NEW w \in Forwarders, ForwarderStep(w) PROVE SlotInv'
  <2>1. w \in Workers
    BY RelayConstants
  <2> QED
    BY <1>3, <2>1, SlotInvLookup, SlotInvCheck, SlotInvAccount, SlotInvSend, SlotInvStats
       DEF ForwarderStep
<1> QED
  BY <1>1, <1>2, <1>3, SlotInvTick, SlotInvStutter DEF Next

-----------------------------------------------------------------------------
(* Theorems about the slots *)

\* SlotInv is an invariant of the relay.
THEOREM SlotInvariance == Spec => []SlotInv
BY SlotInvInit, SlotInvNext, PTL DEF Spec

\* The type invariant.
THEOREM TypeCorrect == Spec => []TypeOK
<1>1. SlotInv => TypeOK
  BY DEF SlotInv
<1> QED
  BY <1>1, SlotInvariance, PTL

\* session_count, which session_create trusts before it scans for a free slot,
\* is the number of active slots whatever creates, destroys and purges
\* interleave, for every number of workers and slots.
THEOREM SessionCountExactHolds == Spec => []SessionCountExact
<1>1. SlotInv => SessionCountExact
  <2> SUFFICES ASSUME SlotInv PROVE SessionCountExact
    OBVIOUS
  <2>1. IsFiniteSet(Slots) /\ Cardinality(Slots) = MaxSessions
    BY FS_Interval, RelayConstants DEF Slots
  <2>2. ActiveSlots \in SUBSET Slots
    BY DEF ActiveSlots
  <2>3. Cardinality(ActiveSlots) <= MaxSessions
    BY <2>1, <2>2, FS_Subset
  <2> QED
    BY <2>3 DEF SlotInv, SessionCountExact
<1> QED
  BY <1>1, SlotInvariance, PTL

\* A session id that session_destroy or stream_stats is called with names at
\* most one active session, and none has id 0, as long as the 32-bit id has
\* not wrapped.
THEOREM UniqueIdsHolds == Spec => []UniqueIds
<1>1. SlotInv => UniqueIds
  BY DEF SlotInv, IdsIssued, UniqueIds, ActiveSlots
<1> QED
  BY <1>1, SlotInvariance, PTL

=============================================================================
