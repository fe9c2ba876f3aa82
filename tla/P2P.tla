-------------------------------- MODULE P2P --------------------------------
(* Two ends that punch towards each other (src/core/rc_p2p.c): gathering,   *)
(* the probes of rc_p2p_tick over a network that delays, loses and reorders *)
(* datagrams, the one-shot rc_p2p_probe and the fallback to the relay.      *)
(* When to fall back is the caller's decision; src/ contains no caller.     *)
EXTENDS Integers, Sequences

CONSTANTS
  RC_PUNCH_INTERVAL,      \* RC_PUNCH_INTERVAL_MS
  RC_PUNCH_MAX_ATTEMPTS,
  RC_MAX_CANDIDATES,
  RelayRoom,              \* whole headers that fit into the connection's send buffer
  MaxClock,               \* bound: the clock
  MaxExtras               \* bound: third parties' datagrams, and calls other than ticks

ASSUME PunchAssumption ==
  /\ RC_PUNCH_INTERVAL \in Nat \ {0}
  /\ RC_PUNCH_MAX_ATTEMPTS \in Nat
  /\ RC_MAX_CANDIDATES \in Nat

Ends == {"robot", "operator"}
OtherEnd(e) == CHOOSE f \in Ends : f # e

VARIABLES
  p2p,       \* rc_p2p_state_t of each end
  inbox,     \* datagrams in the receive queue of each punch socket
  air,       \* datagrams on their way
  clock,     \* rc_time_ms
  sockets,    \* UDP sockets each end has open
  relayed,   \* what rc_p2p_fallback_relay put into the send buffer
  offered,   \* history: a PING was queued while the end still had probes to send
  retired,   \* ends whose state was destroyed; each end punches once
  strayed,   \* history: a third party's datagram was queued
  extras

p2pVars == <<p2p, inbox, air, clock, sockets, relayed, offered, retired, strayed, extras>>

\* A PING leaves the punch socket of an end or a socket of rc_p2p_probe, which is
\* closed again when the call returns.  A third party's datagram is not a PING.
Datagram(from, to, type, n) == [from |-> from, to |-> to, type |-> type, n |-> n]
PunchSocket(e) == <<e, "punch">>
ProbeSocket(e) == <<e, "probe">>
Stranger == <<"stranger", "punch">>
NoAddr == <<"none", "none">>

NoState ==
  [exists |-> FALSE, stun_server |-> FALSE, stun_fd |-> FALSE, punch_fd |-> FALSE,
   candidates |-> 0, attempts |-> 0, last |-> 0, punch_success |-> FALSE,
   use_relay |-> FALSE, peer_addr |-> NoAddr]

P2PInit ==
  /\ p2p = [e \in Ends |-> NoState]
  /\ inbox = [e \in Ends |-> <<>>]
  /\ air = {}
  /\ clock = 0
  /\ sockets = [e \in Ends |-> 0]
  /\ relayed = [e \in Ends |-> <<>>]
  /\ offered = [e \in Ends |-> FALSE]
  /\ retired = [e \in Ends |-> FALSE]
  /\ strayed = FALSE
  /\ extras = 0

\* The host candidate is the punch socket; a socket that cannot be had leaves
\* punch_fd at -1 and the state without candidates.
gather_host_candidates(s, socket) ==
  [s EXCEPT !.punch_fd = socket,
            !.candidates = IF socket /\ @ < RC_MAX_CANDIDATES THEN @ + 1 ELSE @]

rc_p2p_create(e) ==
  /\ ~p2p[e].exists /\ ~retired[e]
  /\ \E socket \in BOOLEAN :
       /\ p2p' = [p2p EXCEPT ![e] =
                    gather_host_candidates([NoState EXCEPT !.exists = TRUE], socket)]
       /\ sockets' = [sockets EXCEPT ![e] = @ + (IF socket THEN 1 ELSE 0)]
  /\ inbox' = [inbox EXCEPT ![e] = <<>>]
  /\ UNCHANGED <<air, clock, relayed, offered, retired, strayed, extras>>

\* Only the sockets the state still names are closed.
rc_p2p_destroy(e) ==
  /\ p2p[e].exists
  /\ p2p' = [p2p EXCEPT ![e] = NoState]
  /\ sockets' = [sockets EXCEPT ![e] = @ - (IF p2p[e].stun_fd THEN 1 ELSE 0)
                                       - (IF p2p[e].punch_fd THEN 1 ELSE 0)]
  /\ inbox' = [inbox EXCEPT ![e] = <<>>]
  /\ retired' = [retired EXCEPT ![e] = TRUE]
  /\ UNCHANGED <<offered, air, clock, relayed, strayed, extras>>

\* The request goes to the server and its answer is never read: stun_fd is
\* overwritten by the next call, reflexive candidates are never added.
gather_srflx_candidates(e, socket) ==
  /\ p2p' = [p2p EXCEPT ![e].stun_server = TRUE, ![e].stun_fd = @ \/ socket]
  /\ sockets' = [sockets EXCEPT ![e] = @ + (IF socket THEN 1 ELSE 0)]

\* A host that does not parse leaves ss_len set, and the state otherwise as it was.
rc_p2p_set_stun(e) ==
  /\ p2p[e].exists
  /\ extras < MaxExtras
  /\ extras' = extras + 1
  /\ \/ \E socket \in BOOLEAN : gather_srflx_candidates(e, socket)
     \/ p2p' = [p2p EXCEPT ![e].stun_server = TRUE] /\ UNCHANGED sockets
  /\ UNCHANGED <<inbox, air, clock, relayed, offered, retired, strayed>>

Settled(s) == s.punch_success \/ s.use_relay
Exhausted(s) == s.attempts >= RC_PUNCH_MAX_ATTEMPTS
Due(s) == clock - s.last >= RC_PUNCH_INTERVAL

Sent(s) == [s EXCEPT !.attempts = @ + 1, !.last = clock]

\* Fault: only the answer to a PING counts.
OpensHole_Fault(d) == d.type = "PONG"

OpensHole(d) == d.type \in {"PING", "PONG"}

\* recvfrom and what follows it in rc_p2p_tick.
Punched(s, d) == IF OpensHole(d) THEN [s EXCEPT !.punch_success = TRUE, !.peer_addr = d.from] ELSE s

\* A tick sends one probe (a failed sendto is not counted) and then reads at
\* most one datagram.
ProbeTick(e) ==
  LET s == p2p[e]
  IN /\ s.exists /\ ~Settled(s) /\ ~Exhausted(s) /\ Due(s)
     /\ \E sent \in BOOLEAN :
          LET t == IF sent THEN Sent(s) ELSE s
          IN /\ sent => s.punch_fd
             /\ p2p' = [p2p EXCEPT ![e] =
                          IF inbox[e] # <<>> THEN Punched(t, Head(inbox[e])) ELSE t]
             /\ air' = IF sent THEN air \cup {Datagram(PunchSocket(e), OtherEnd(e), "PING", t.attempts)}
                               ELSE air
     /\ inbox' = [inbox EXCEPT ![e] = IF @ # <<>> THEN Tail(@) ELSE @]
     /\ UNCHANGED <<clock, sockets, relayed, offered, retired, strayed, extras>>

\* A PING from a socket of its own.  Nothing in src/ answers it, so the call
\* times out and returns 0.
rc_p2p_probe(e) ==
  /\ p2p[e].exists
  /\ extras < MaxExtras
  /\ extras' = extras + 1
  /\ air' = air \cup {Datagram(ProbeSocket(e), OtherEnd(e), "PING", extras)}
  /\ UNCHANGED <<p2p, inbox, clock, sockets, relayed, offered, retired, strayed>>

\* use_relay is set before the request is queued and stays set when the buffer
\* takes only a part of it.
rc_p2p_fallback_relay(e) ==
  /\ p2p[e].exists
  /\ extras < MaxExtras
  /\ extras' = extras + 1
  /\ p2p' = [p2p EXCEPT ![e].use_relay = TRUE]
  /\ \E written \in {"RELAY_REQ", "part", "nothing"} :
       /\ written = "RELAY_REQ" => Len(relayed[e]) < RelayRoom
       /\ relayed' = [relayed EXCEPT ![e] = IF written = "nothing" THEN @ ELSE Append(@, written)]
  /\ UNCHANGED <<inbox, air, clock, sockets, offered, retired, strayed>>

\* The network.
Arrive ==
  \E d \in air :
    /\ air' = air \ {d}
    /\ inbox' = IF p2p[d.to].punch_fd THEN [inbox EXCEPT ![d.to] = Append(@, d)] ELSE inbox
    /\ offered' = [offered EXCEPT ![d.to] = @ \/ (p2p[d.to].punch_fd /\ ~Exhausted(p2p[d.to]))]
    /\ UNCHANGED <<p2p, clock, sockets, relayed, retired, strayed, extras>>

Drop ==
  \E d \in air :
    /\ air' = air \ {d}
    /\ UNCHANGED <<offered, p2p, inbox, clock, sockets, relayed, retired, strayed, extras>>

StrayArrives ==
  \E e \in Ends :
    /\ extras < MaxExtras
    /\ p2p[e].punch_fd
    /\ extras' = extras + 1
    /\ strayed' = TRUE
    /\ inbox' = [inbox EXCEPT ![e] = Append(@, Datagram(Stranger, e, "DATA", extras))]
    /\ UNCHANGED <<offered, p2p, air, clock, sockets, relayed, retired>>

Clock ==
  /\ clock < MaxClock
  /\ clock' = clock + 1
  /\ UNCHANGED <<p2p, inbox, air, sockets, relayed, offered, retired, strayed, extras>>

P2PNext ==
  \/ \E e \in Ends :
       \/ rc_p2p_create(e)
       \/ rc_p2p_destroy(e)
       \/ rc_p2p_set_stun(e)
       \/ ProbeTick(e)
       \/ rc_p2p_probe(e)
       \/ rc_p2p_fallback_relay(e)
  \/ Arrive
  \/ Drop
  \/ StrayArrives
  \/ Clock

P2PSpec == P2PInit /\ [][P2PNext]_p2pVars

(* No probe is wasted: an end that used up its probes although a PING of    *)
(* the other end was in its socket while it still had one to send has       *)
(* succeeded.  rc_p2p_tick reads one datagram for each probe, so this needs *)
(* that nothing else was queued; and it says nothing of a PING that arrives *)
(* after the last probe, which no tick ever reads.                          *)
PunchMeets ==
  \A e \in Ends : (Exhausted(p2p[e]) /\ offered[e] /\ ~strayed) => p2p[e].punch_success
=============================================================================
