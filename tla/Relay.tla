------------------------------- MODULE Relay -------------------------------
(***************************************************************************)
(* The relay library (src/core/rc_relay.c): a fixed array of session       *)
(* slots, a routing table from connection ids to sessions, per-session     *)
(* bandwidth accounting and the forwarding path.  Several worker threads   *)
(* call the API.  session_lock protects the slots, route_lock the routing  *)
(* table; rc_relay_forward takes no session lock, and session_create adds  *)
(* its routes after it has released it.                                    *)
(*                                                                         *)
(* Grain of atomicity: every critical section of route_lock is one step    *)
(* (no other lock is taken inside it), a critical section of session_lock  *)
(* is one step up to each nested route_lock section, and code that runs    *)
(* with no lock is split where it reads shared data it later relies on.    *)
(*                                                                         *)
(* A conn_id's chain in the routing table is represented by its first      *)
(* route: lookups stop there and route_remove always drops the whole       *)
(* chain, so no operation sees the rest.  An endpoint's address is         *)
(* identified with its conn_id.                                            *)
(***************************************************************************)
EXTENDS Integers, FiniteSets, FiniteSetsExt

CONSTANTS
  Workers,        \* threads that call the relay API
  Forwarders,     \* the workers that run the receive loop (rc_relay_forward)
  Sweepers,       \* the workers that run the idle sweep (rc_relay_purge_idle)
  Nobody,         \* value of session_lock when it is free
  MaxSessions,    \* srv->max_sessions
  Conns,          \* connection ids
  NoConn,         \* no connection id
  RC_MAGIC,       \* the protocol magic
  ConnPairs,      \* the (ingress, egress) pairs callers ask for
  BwLimit,        \* RC_RELAY_BW_LIMIT_BPS, in packets
  BwInterval,     \* RC_RELAY_BW_INTERVAL_SEC, in clock ticks
  IdleTimeout,    \* the timeout_ms given to rc_relay_purge_idle
  TimeMod,        \* 2^64: the width of a millisecond timestamp
  IdMod,          \* 2^32: the width of session_id (total_sessions has 64 bits)
  MaxTotal,       \* bound: sessions ever created
  MaxClock        \* bound: clock ticks

Slots == 0 .. MaxSessions - 1

\* A route.  peer is history: the endpoint that packets of this route are for.
Routes == [slot : Slots, ingress : BOOLEAN, peer : Conns]
NoRoute == [slot |-> -1, ingress |-> FALSE, peer |-> NoConn]

ASSUME RelayConstants ==
  /\ Forwarders \subseteq Workers
  /\ Sweepers \subseteq Workers
  /\ Nobody \notin Workers
  /\ NoConn \notin Conns
  /\ MaxSessions \in Nat \ {0}
  /\ ConnPairs \subseteq Conns \X Conns
  /\ BwLimit \in Nat
  /\ BwInterval \in Nat \ {0}
  /\ IdleTimeout \in Nat
  /\ TimeMod \in Nat \ {0}
  /\ IdMod \in Nat \ {0}
  /\ MaxTotal \in Nat
  /\ MaxTotal < IdMod
  /\ MaxClock \in Nat
  /\ MaxClock < TimeMod

VARIABLES
  sessions,        \* srv->sessions
  session_count,   \* srv->session_count
  total_sessions,  \* srv->total_sessions
  routes,          \* srv->routes: first route of each conn_id, or NoRoute
  session_lock,    \* holder of srv->session_lock
  clock,           \* rc_time_ms()
  pc,              \* where each worker is
  loc,             \* each worker's local variables
  \* History, read by no action's guard:
  recent,          \* per slot and time, the packets admitted within an interval
  raced,           \* a slot or route was retired while another worker used it
  degraded         \* a conn_id was shared by two sessions, or route_add failed

Times == 0 .. MaxClock
None  == [t \in Times |-> 0]

shared  == <<sessions, session_count, total_sessions, routes, session_lock>>
history == <<recent, raced, degraded>>
vars    == <<shared, clock, pc, loc, history>>

PCs == {"idle", "add_ingress", "add_egress", "return",
        "destroy", "purge_lock", "purge", "purge_egress",
        "fwd_check", "fwd_account", "fwd_send", "fwd_stats"}

\* A header field as the bytes of a value read on a little-endian host.
Host(v) == [val |-> v, swapped |-> FALSE]

\* A packet header, of which the relay reads magic and conn_id.
Header(c) == [magic |-> Host(RC_MAGIC), conn_id |-> Host(c)]

NoLoc == [slot |-> 0, id |-> 0, conn |-> NoConn, peer |-> NoConn, now |-> 0,
          bw |-> 0, reset |-> FALSE, route |-> NoRoute, freed |-> FALSE,
          dst |-> NoConn, out |-> Header(NoConn)]

EmptySession ==
  [active |-> FALSE, id |-> 0, ingress |-> NoConn, egress |-> NoConn,
   bw |-> 0, window |-> 0, last |-> 0]

-----------------------------------------------------------------------------
(* Helpers *)

\* Unsigned 64-bit difference of two timestamps.
Elapsed(now, then) == (now - then) % TimeMod

\* Fault: the counter is incremented after it was read.
NextId_Fault == total_sessions % IdMod

\* ++total_sessions, cut to the 32 bits of session_id.
NextId == (total_sessions + 1) % IdMod

ActiveSlots == {s \in Slots : sessions[s].active}

\* Fault: the scan does not look at active.
FirstFree_Fault(s) == s \in Slots

\* The first free slot the scan of session_create finds.
FirstFree(s) ==
  /\ ~sessions[s].active
  /\ \A t \in Slots : t < s => sessions[t].active

\* w still relies on slot s: its create has not returned, or it forwards
\* through s and has dereferenced the route.
UsesSlot(w, s) ==
  /\ pc[w] \in {"add_ingress", "add_egress", "return",
                "fwd_account", "fwd_send", "fwd_stats"}
  /\ loc[w].slot = s

\* w holds a pointer to a route of conn_id c that it still dereferences.
HoldsRoute(w, c) ==
  /\ pc[w] \in {"fwd_check", "fwd_account", "fwd_send"}
  /\ loc[w].conn = c

\* Another worker than w relies on slot s or on a route of conn_id c.
Disturbs(w, s, c) == \E v \in Workers \ {w} : HoldsRoute(v, c) \/ UsesSlot(v, s)

\* A session uses conn_id c, or is about to.
InUse(c) ==
  \/ \E s \in ActiveSlots : c \in {sessions[s].ingress, sessions[s].egress}
  \/ \E w \in Workers : pc[w] \in {"add_ingress", "add_egress"}
                          /\ c \in {loc[w].conn, loc[w].peer}

-----------------------------------------------------------------------------
(* Route table *)

\* route_add: calloc may fail, and session_create ignores the result.
route_add(c, s, ingress, peer) ==
  \/ /\ routes' = [routes EXCEPT ![c] = [slot |-> s, ingress |-> ingress, peer |-> peer]]
     /\ UNCHANGED degraded
  \/ /\ degraded' = TRUE
     /\ UNCHANGED routes

\* route_remove: frees every route of c, also under a worker that holds one.
FreeRoute(w, c, l) ==
  [v \in Workers |-> IF v # w /\ HoldsRoute(v, c) THEN [l[v] EXCEPT !.freed = TRUE]
                                                  ELSE l[v]]

-----------------------------------------------------------------------------
(* Session creation and teardown *)

Init ==
  /\ sessions = [s \in Slots |-> EmptySession]
  /\ session_count = 0
  /\ total_sessions = 0
  /\ routes = [c \in Conns |-> NoRoute]
  /\ session_lock = Nobody
  /\ clock = 0
  /\ pc = [w \in Workers |-> "idle"]
  /\ loc = [w \in Workers |-> NoLoc]
  /\ recent = [s \in Slots |-> None]
  /\ raced = FALSE
  /\ degraded = FALSE

\* rc_relay_session_create up to the release of session_lock.  A full pool
\* returns 0 and changes nothing.
CreateSession(w, i, e) ==
  /\ pc[w] = "idle"
  /\ session_lock = Nobody
  /\ total_sessions < MaxTotal
  /\ session_count < MaxSessions
  /\ \E s \in Slots :
       /\ FirstFree(s)
       /\ sessions' = [sessions EXCEPT ![s] =
            [active |-> TRUE, id |-> NextId,
             ingress |-> i, egress |-> e,
             bw |-> 0, window |-> clock, last |-> clock]]
       /\ loc' = [loc EXCEPT ![w] =
            [NoLoc EXCEPT !.slot = s, !.id = NextId,
                          !.conn = i, !.peer = e]]
       /\ recent' = [recent EXCEPT ![s] = None]
  /\ total_sessions' = total_sessions + 1
  /\ session_count' = session_count + 1
  /\ degraded' = (degraded \/ i = e \/ InUse(i) \/ InUse(e))
  /\ pc' = [pc EXCEPT ![w] = "add_ingress"]
  /\ UNCHANGED <<routes, session_lock, clock, raced>>

CreateAddIngress(w) ==
  /\ pc[w] = "add_ingress"
  /\ route_add(loc[w].conn, loc[w].slot, TRUE, loc[w].peer)
  /\ pc' = [pc EXCEPT ![w] = "add_egress"]
  /\ UNCHANGED <<sessions, session_count, total_sessions, session_lock, clock, loc,
                 recent, raced>>

\* Fault: the egress route is entered with the direction of the ingress.
CreateAddEgress_Fault(w) ==
  /\ pc[w] = "add_egress"
  /\ route_add(loc[w].peer, loc[w].slot, TRUE, loc[w].conn)
  /\ pc' = [pc EXCEPT ![w] = "return"]
  /\ UNCHANGED <<sessions, session_count, total_sessions, session_lock, clock, loc,
                 recent, raced>>

CreateAddEgress(w) ==
  /\ pc[w] = "add_egress"
  /\ route_add(loc[w].peer, loc[w].slot, FALSE, loc[w].conn)
  /\ pc' = [pc EXCEPT ![w] = "return"]
  /\ UNCHANGED <<sessions, session_count, total_sessions, session_lock, clock, loc,
                 recent, raced>>

\* The value returned is sessions[loc[w].slot].id, read without the lock.
CreateReturn(w) ==
  /\ pc[w] = "return"
  /\ pc' = [pc EXCEPT ![w] = "idle"]
  /\ loc' = [loc EXCEPT ![w] = NoLoc]
  /\ UNCHANGED <<shared, clock, history>>

\* rc_relay_session_destroy up to the second route_remove, for an id that the
\* scan finds; for any other id nothing changes.
DestroyFind(w, id) ==
  /\ pc[w] = "idle"
  /\ session_lock = Nobody
  /\ \E s \in ActiveSlots :
       /\ sessions[s].id = id
       /\ \A t \in ActiveSlots : t < s => sessions[t].id # id
       /\ routes' = [routes EXCEPT ![sessions[s].ingress] = NoRoute]
       /\ loc' = FreeRoute(w, sessions[s].ingress, [loc EXCEPT ![w].slot = s])
       /\ raced' = (raced \/ Disturbs(w, s, sessions[s].ingress))
  /\ session_lock' = w
  /\ pc' = [pc EXCEPT ![w] = "destroy"]
  /\ UNCHANGED <<sessions, session_count, total_sessions, clock,
                 recent, degraded>>

\* Fault: the slot is released without removing the egress route.
RetireSlot_FaultRoute(w, s) ==
  /\ sessions' = [sessions EXCEPT ![s].active = FALSE]
  /\ session_count' = session_count - 1
  /\ raced' = (raced \/ Disturbs(w, s, sessions[s].egress))
  /\ UNCHANGED <<routes, total_sessions, clock, recent, degraded>>

\* Fault: the slot is released without counting it.
RetireSlot_FaultCount(w, s) ==
  /\ routes' = [routes EXCEPT ![sessions[s].egress] = NoRoute]
  /\ sessions' = [sessions EXCEPT ![s].active = FALSE]
  /\ raced' = (raced \/ Disturbs(w, s, sessions[s].egress))
  /\ UNCHANGED <<session_count, total_sessions, clock, recent, degraded>>

\* The second route_remove and the release of slot s, common to destroy and
\* purge.
RetireSlot(w, s) ==
  /\ routes' = [routes EXCEPT ![sessions[s].egress] = NoRoute]
  /\ sessions' = [sessions EXCEPT ![s].active = FALSE]
  /\ session_count' = session_count - 1
  /\ raced' = (raced \/ Disturbs(w, s, sessions[s].egress))
  /\ UNCHANGED <<total_sessions, clock, recent, degraded>>

DestroyFinish(w) ==
  /\ pc[w] = "destroy"
  /\ RetireSlot(w, loc[w].slot)
  /\ loc' = FreeRoute(w, sessions[loc[w].slot].egress, [loc EXCEPT ![w] = NoLoc])
  /\ session_lock' = Nobody
  /\ pc' = [pc EXCEPT ![w] = "idle"]

-----------------------------------------------------------------------------
(* rc_relay_purge_idle *)

\* now is read before session_lock is taken.
PurgeStart(w) ==
  /\ pc[w] = "idle"
  /\ loc' = [loc EXCEPT ![w].now = clock]
  /\ pc' = [pc EXCEPT ![w] = "purge_lock"]
  /\ UNCHANGED <<shared, clock, history>>

PurgeLock(w) ==
  /\ pc[w] = "purge_lock"
  /\ session_lock = Nobody
  /\ session_lock' = w
  /\ loc' = [loc EXCEPT ![w].slot = 0]
  /\ pc' = [pc EXCEPT ![w] = "purge"]
  /\ UNCHANGED <<sessions, session_count, total_sessions, routes, clock, history>>

Purgeable(w, s) ==
  /\ sessions[s].active
  /\ Elapsed(loc[w].now, sessions[s].last) > IdleTimeout

\* Leaving slot s of the loop: the next slot, or the end and the unlock.
PurgeNext(w, s, l) ==
  IF s + 1 < MaxSessions
  THEN /\ loc' = [l EXCEPT ![w].slot = s + 1]
       /\ pc' = [pc EXCEPT ![w] = "purge"]
       /\ UNCHANGED session_lock
  ELSE /\ loc' = [l EXCEPT ![w] = NoLoc]
       /\ pc' = [pc EXCEPT ![w] = "idle"]
       /\ session_lock' = Nobody

PurgeKeep(w) ==
  /\ pc[w] = "purge"
  /\ ~Purgeable(w, loc[w].slot)
  /\ PurgeNext(w, loc[w].slot, loc)
  /\ UNCHANGED <<sessions, session_count, total_sessions, routes, clock, history>>

PurgeFind(w) ==
  LET s == loc[w].slot IN
  /\ pc[w] = "purge"
  /\ Purgeable(w, s)
  /\ routes' = [routes EXCEPT ![sessions[s].ingress] = NoRoute]
  /\ loc' = FreeRoute(w, sessions[s].ingress, loc)
  /\ raced' = (raced \/ Disturbs(w, s, sessions[s].ingress))
  /\ pc' = [pc EXCEPT ![w] = "purge_egress"]
  /\ UNCHANGED <<sessions, session_count, total_sessions, session_lock, clock,
                 recent, degraded>>

PurgeFinish(w) ==
  /\ pc[w] = "purge_egress"
  /\ RetireSlot(w, loc[w].slot)
  /\ PurgeNext(w, loc[w].slot, FreeRoute(w, sessions[loc[w].slot].egress, loc))

-----------------------------------------------------------------------------
(* rc_relay_forward *)

\* route_lookup; a conn_id with no route returns -2 and changes nothing.
ForwardLookup(w, c) ==
  /\ pc[w] = "idle"
  /\ routes[c] # NoRoute
  /\ loc' = [loc EXCEPT ![w] = [NoLoc EXCEPT !.conn = c, !.route = routes[c]]]
  /\ pc' = [pc EXCEPT ![w] = "fwd_check"]
  /\ UNCHANGED <<shared, clock, history>>

\* What a dereference of the route pointer yields: the route, or anything once
\* the route has been freed.
Deref(w) ==
  IF loc[w].freed THEN [slot : Slots, ingress : BOOLEAN]
  ELSE {[slot |-> loc[w].route.slot, ingress |-> loc[w].route.ingress]}

ForwardDone(w) ==
  /\ pc' = [pc EXCEPT ![w] = "idle"]
  /\ loc' = [loc EXCEPT ![w] = NoLoc]

\* The check of sess->active, and bw_check up to its last assignment.
ForwardCheck(w) ==
  /\ pc[w] = "fwd_check"
  /\ \E r \in Deref(w) :
       LET sess  == sessions[r.slot]
           reset == Elapsed(clock, sess.window) >= BwInterval
           bw    == IF reset THEN 0 ELSE sess.bw
       IN  \/ /\ ~sess.active
              /\ ForwardDone(w)
              /\ UNCHANGED sessions
           \/ /\ sess.active
              /\ bw + 1 > BwLimit
              /\ sessions' = [sessions EXCEPT ![r.slot].bw = bw,
                    ![r.slot].window = IF reset THEN clock ELSE @]
              /\ ForwardDone(w)
           \/ /\ sess.active
              /\ bw + 1 <= BwLimit
              /\ loc' = [loc EXCEPT ![w].slot = r.slot, ![w].bw = bw + 1,
                                    ![w].reset = reset, ![w].now = clock]
              /\ pc' = [pc EXCEPT ![w] = "fwd_account"]
              /\ UNCHANGED sessions
  /\ UNCHANGED <<session_count, total_sessions, routes, session_lock, clock, history>>

\* Fault: the start of the new window is not stored.
ForwardAccount_Fault(w) ==
  LET s == loc[w].slot IN
  /\ pc[w] = "fwd_account"
  /\ sessions' = [sessions EXCEPT ![s].bw = loc[w].bw]
  /\ recent' = [recent EXCEPT ![s][loc[w].now] = @ + 1]
  /\ pc' = [pc EXCEPT ![w] = "fwd_send"]
  /\ UNCHANGED <<session_count, total_sessions, routes, session_lock, clock, loc,
                 raced, degraded>>

\* bw_check stores what it computed: the session is charged before the send.
ForwardAccount(w) ==
  LET s == loc[w].slot IN
  /\ pc[w] = "fwd_account"
  /\ sessions' = [sessions EXCEPT ![s].bw = loc[w].bw,
                    ![s].window = IF loc[w].reset THEN loc[w].now ELSE @]
  /\ recent' = [recent EXCEPT ![s][loc[w].now] = @ + 1]
  /\ pc' = [pc EXCEPT ![w] = "fwd_send"]
  /\ UNCHANGED <<session_count, total_sessions, routes, session_lock, clock, loc,
                 raced, degraded>>

\* htonl and ntohl reverse the bytes of a field.
Swap(f) == [f EXCEPT !.swapped = ~@]
hdr_pack(h) == [magic |-> Swap(h.magic), conn_id |-> Swap(h.conn_id)]
hdr_unpack(h) == [magic |-> Swap(h.magic), conn_id |-> Swap(h.conn_id)]

\* The copy of the packet is still in network order when its conn_id is
\* replaced by a host-order value and the whole header is packed again.
Rewrite(c, newc) == hdr_pack([hdr_pack(Header(c)) EXCEPT !.conn_id = Host(newc)])

\* Fault: the packet goes back to the endpoint it came from.
Opposite_Fault(sess, ingress) == IF ingress THEN sess.ingress ELSE sess.egress

\* The endpoint a packet is sent to, by the direction of its route.
Opposite(sess, ingress) == IF ingress THEN sess.egress ELSE sess.ingress

\* The direction is read twice, for the address and for the header; sendto may
\* fail.
ForwardSend(w) ==
  LET sess == sessions[loc[w].slot] IN
  /\ pc[w] = "fwd_send"
  /\ \/ \E r, q \in Deref(w) :
          /\ loc' = [loc EXCEPT ![w].dst = Opposite(sess, r.ingress),
                ![w].out = Rewrite(loc[w].conn, Opposite(sess, q.ingress))]
          /\ pc' = [pc EXCEPT ![w] = "fwd_stats"]
     \/ ForwardDone(w)
  /\ UNCHANGED <<shared, clock, history>>

\* Statistics; of these only last_activity_ms is read again.
ForwardStats(w) ==
  /\ pc[w] = "fwd_stats"
  /\ sessions' = [sessions EXCEPT ![loc[w].slot].last = clock]
  /\ ForwardDone(w)
  /\ UNCHANGED <<session_count, total_sessions, routes, session_lock, clock, history>>

-----------------------------------------------------------------------------

\* Time passes; admissions older than one interval leave the history.
Tick ==
  /\ clock < MaxClock
  /\ clock' = clock + 1
  /\ recent' = [s \in Slots |-> [t \in Times |->
       IF t > clock + 1 - BwInterval THEN recent[s][t] ELSE 0]]
  /\ UNCHANGED <<shared, pc, loc, raced, degraded>>

WorkerStep(w) ==
  \/ \E p \in ConnPairs : CreateSession(w, p[1], p[2])
  \/ CreateAddIngress(w)
  \/ CreateAddEgress(w)
  \/ CreateReturn(w)
  \/ \E id \in 1 .. total_sessions : DestroyFind(w, id)
  \/ DestroyFinish(w)

SweeperStep(w) ==
  \/ PurgeStart(w)
  \/ PurgeLock(w)
  \/ PurgeKeep(w)
  \/ PurgeFind(w)
  \/ PurgeFinish(w)

ForwarderStep(w) ==
  \/ \E c \in Conns : ForwardLookup(w, c)
  \/ ForwardCheck(w)
  \/ ForwardAccount(w)
  \/ ForwardSend(w)
  \/ ForwardStats(w)

Next ==
  \/ \E w \in Workers : WorkerStep(w)
  \/ \E w \in Sweepers : SweeperStep(w)
  \/ \E w \in Forwarders : ForwarderStep(w)
  \/ Tick

Spec == Init /\ [][Next]_vars

-----------------------------------------------------------------------------
(* Properties *)

SessionSet ==
  [active : BOOLEAN, id : 0 .. MaxTotal, ingress : Conns \cup {NoConn},
   egress : Conns \cup {NoConn}, bw : Nat, window : Nat, last : Nat]

HeaderSet ==
  [magic : [val : {RC_MAGIC}, swapped : BOOLEAN],
   conn_id : [val : Conns \cup {NoConn}, swapped : BOOLEAN]]

LocSet ==
  [slot : Slots, id : 0 .. MaxTotal, conn : Conns \cup {NoConn},
   peer : Conns \cup {NoConn}, now : Times, bw : Nat, reset : BOOLEAN,
   route : Routes \cup {NoRoute}, freed : BOOLEAN, dst : Conns \cup {NoConn},
   out : HeaderSet]

\* Types of the slots, the routing table, the counters and the workers' locals.
TypeOK ==
  /\ sessions \in [Slots -> SessionSet]
  /\ session_count \in Int
  /\ total_sessions \in 0 .. MaxTotal
  /\ routes \in [Conns -> Routes \cup {NoRoute}]
  /\ session_lock \in Workers \cup {Nobody}
  /\ clock \in Times
  /\ pc \in [Workers -> PCs]
  /\ loc \in [Workers -> LocSet]
  /\ recent \in [Slots -> [Times -> Nat]]
  /\ raced \in BOOLEAN
  /\ degraded \in BOOLEAN

\* session_count is the number of active slots and never exceeds max_sessions,
\* so the capacity test of session_create and the scan for a free slot agree,
\* however creates, destroys and purges interleave.
SessionCountExact ==
  /\ session_count = Cardinality(ActiveSlots)
  /\ session_count <= MaxSessions

\* Two active sessions never have the same session_id and none has id 0, so
\* destroy and stream_stats, which stop at the first match, find the right one.
UniqueIds ==
  /\ \A s \in ActiveSlots : sessions[s].id # 0
  /\ \A s, t \in ActiveSlots : sessions[s].id = sessions[t].id => s = t

\* As long as no session was retired under a worker that used it, every route
\* leads to an active session of which its conn_id is the matching endpoint.
RoutesOwned ==
  ~raced => \A c \in Conns : routes[c] # NoRoute =>
    LET sess == sessions[routes[c].slot] IN
    /\ sess.active
    /\ IF routes[c].ingress
       THEN sess.ingress = c /\ sess.egress = routes[c].peer
       ELSE sess.egress = c /\ sess.ingress = routes[c].peer

\* Session s is neither being created nor being torn down.
Settled(s) ==
  \A w \in Workers : loc[w].slot = s =>
    pc[w] \notin {"add_ingress", "add_egress", "destroy", "purge_egress"}

\* When conn_ids are not shared and route_add does not fail, both endpoints of
\* a settled active session are routed to it: no teardown of another session
\* takes its routes away.
Routable ==
  (~raced /\ ~degraded) => \A s \in ActiveSlots : Settled(s) =>
    /\ routes[sessions[s].ingress] = [slot |-> s, ingress |-> TRUE, peer |-> sessions[s].egress]
    /\ routes[sessions[s].egress] = [slot |-> s, ingress |-> FALSE, peer |-> sessions[s].ingress]

\* rc_relay_forward sends a packet to the endpoint opposite the one whose
\* conn_id it carried, and puts that endpoint's conn_id into the header, unless
\* the session was retired while the packet was on its way through the relay.
DeliveredToPeer ==
  \A w \in Workers : pc[w] = "fwd_stats" /\ ~raced =>
    /\ loc[w].dst = loc[w].route.peer
    /\ hdr_unpack(loc[w].out).conn_id = Host(loc[w].route.peer)

\* session_create returns the id of the session it created, although it reads
\* the slot after it released session_lock, unless the session was retired
\* before the create returned.
ReturnsOwnId ==
  \A w \in Workers : pc[w] = "return" /\ ~raced =>
    /\ sessions[loc[w].slot].active
    /\ sessions[loc[w].slot].id = loc[w].id

\* No interval of BwInterval admits more than twice the limit of a session:
\* what the tumbling window of bw_check guarantees with one receive loop.
BurstBound ==
  ~raced => \A s \in Slots :
    MapThenSumSet(LAMBDA t : recent[s][t], Times) <= 2 * BwLimit

\* rc_relay_purge_idle takes only sessions that have been idle for longer than
\* the timeout at the moment it decides.
PurgeOnlyIdle ==
  \A w \in Workers : pc[w] = "purge" /\ Purgeable(w, loc[w].slot) =>
    clock - sessions[loc[w].slot].last > IdleTimeout

\* The header of a packet the relay sends is one its receiver can unpack.
ForwardedHeaderUnpacks ==
  \A w \in Workers : pc[w] = "fwd_stats" =>
    hdr_unpack(loc[w].out).magic = Host(RC_MAGIC)

=============================================================================
