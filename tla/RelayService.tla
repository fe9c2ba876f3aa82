---------------------------- MODULE RelayService ----------------------------
(* The relay server process (src/relay/relay_server.c): the session pool   *)
(* with its hash chain and its LRU list, the data port, the control port    *)
(* that creates and destroys sessions, and the periodic cleanup.  One       *)
(* thread runs all of it, and it blocks in recv on a control connection it  *)
(* has accepted.                                                            *)
(*                                                                          *)
(* handle_control creates every session with two zero addresses whatever    *)
(* the message holds.  So all sessions hash to one bucket, the only one     *)
(* with a chain, session_find matches no sender, and last_activity_ms stays *)
(* the time of creation.                                                    *)
EXTENDS Integers, Sequences, FiniteSets

CONSTANTS
  RelaySlots,        \* MAX_SESSIONS
  SESSION_TIMEOUT,
  CLEANUP_INTERVAL,
  ClockWord,         \* 2^64, the range of now_ms
  Senders,           \* source addresses of datagrams
  RelayMaxClock,     \* bound: the clock
  RelayMaxIds        \* bound: sessions created

ASSUME RelayServiceAssumption ==
  /\ {RelaySlots, SESSION_TIMEOUT, CLEANUP_INTERVAL, RelayMaxClock} \subseteq Nat \ {0}
  /\ ClockWord > RelayMaxClock + SESSION_TIMEOUT
  /\ "zero" \notin Senders   \* recvfrom reports an address family

Pool == 1..RelaySlots
Nil == 0
ZeroAddr == "zero"

VARIABLES
  srv,           \* sessions, the chain of the zero address, the LRU list, the counters
  relayClock,    \* now_ms
  last_cleanup,
  control        \* what handle_control waits for: "none", "cmd" or "session_id"

relayVars == <<srv, relayClock, last_cleanup, control>>

\* What calloc leaves, and what memset makes of a slot.
ZeroSession ==
  [active |-> FALSE, session_id |-> 0, last_activity |-> 0,
   peer_a |-> ZeroAddr, peer_b |-> ZeroAddr,
   hash_next |-> Nil, lru_prev |-> Nil, lru_next |-> Nil]

RelayServiceInit ==
  /\ srv = [sessions |-> [s \in Pool |-> ZeroSession], chain |-> Nil, lru_head |-> Nil,
            lru_tail |-> Nil, session_count |-> 0, peak_sessions |-> 0, next_session_id |-> 1]
  /\ relayClock \in {0, SESSION_TIMEOUT}
  /\ last_cleanup = relayClock
  /\ control = "none"

\* Where p points is set to v; when p is NULL it is the head (the tail) instead.
SetNext(r, p, v) ==
  IF p = Nil THEN [r EXCEPT !.lru_head = v] ELSE [r EXCEPT !.sessions[p].lru_next = v]

SetPrev(r, p, v) ==
  IF p = Nil THEN [r EXCEPT !.lru_tail = v] ELSE [r EXCEPT !.sessions[p].lru_prev = v]

Linked(r, s) == r.sessions[s].lru_prev # Nil \/ r.sessions[s].lru_next # Nil \/ r.lru_head = s

\* Fault: the backward pointer and the tail are not repaired.
lru_unlink_Fault(r, s) == SetNext(r, r.sessions[s].lru_prev, r.sessions[s].lru_next)

lru_unlink(r, s) ==
  IF Linked(r, s)
  THEN SetPrev(SetNext(r, r.sessions[s].lru_prev, r.sessions[s].lru_next),
               r.sessions[s].lru_next, r.sessions[s].lru_prev)
  ELSE r

lru_touch(r, s) ==
  LET u == lru_unlink(r, s)
      v == [u EXCEPT !.sessions[s].lru_prev = Nil, !.sessions[s].lru_next = u.lru_head]
      x == IF u.lru_head # Nil THEN [v EXCEPT !.sessions[u.lru_head].lru_prev = s] ELSE v
  IN [x EXCEPT !.lru_head = s, !.lru_tail = IF @ = Nil THEN s ELSE @]

session_insert_hash(r, s) ==
  [r EXCEPT !.sessions[s].hash_next = r.chain, !.chain = s]

\* The predecessor in the chain, or Nil when the chain's head points at s.
hash_remove(r, s) ==
  LET before == {p \in Pool : r.sessions[p].hash_next = s}
      after == r.sessions[s].hash_next
      cut == IF r.chain = s THEN [r EXCEPT !.chain = after]
             ELSE [r EXCEPT !.sessions = [p \in Pool |->
                     IF p \in before THEN [r.sessions[p] EXCEPT !.hash_next = after]
                                     ELSE r.sessions[p]]]
  IN [cut EXCEPT !.sessions[s].hash_next = Nil]

FreeSlots(r) == {s \in Pool : ~r.sessions[s].active}

\* The first free slot, by a scan from the start.
session_create(r, a, b) ==
  LET s == CHOOSE f \in FreeSlots(r) : \A g \in FreeSlots(r) : f <= g
      filled == [r EXCEPT !.sessions[s] = [ZeroSession EXCEPT !.active = TRUE,
                                             !.session_id = r.next_session_id,
                                             !.peer_a = a, !.peer_b = b,
                                             !.last_activity = relayClock],
                          !.next_session_id = @ + 1]
      listed == lru_touch(session_insert_hash(filled, s), s)
      count == r.session_count + 1
  IN [listed EXCEPT !.session_count = count,
                    !.peak_sessions = IF count > @ THEN count ELSE @]

session_destroy(r, s) ==
  IF ~r.sessions[s].active THEN r
  ELSE LET u == lru_unlink(hash_remove([r EXCEPT !.sessions[s].active = FALSE], s), s)
       IN [u EXCEPT !.sessions[s].lru_prev = Nil, !.sessions[s].lru_next = Nil,
                    !.session_count = @ - 1]

\* The subtraction is unsigned: on a machine up for less than the timeout the
\* deadline lies in the far future.
Stale(s) ==
  s.active /\ s.last_activity < (relayClock - SESSION_TIMEOUT) % ClockWord

\* Fault: the predecessor is read after the session was destroyed.
before_in_lru_Fault(r, d, s) == d.sessions[s].lru_prev

\* cleanup_stale reads the predecessor of s before destroying it turns r into d.
before_in_lru(r, d, s) == r.sessions[s].lru_prev

RECURSIVE cleanup_from(_, _)
cleanup_from(r, s) ==
  IF s = Nil THEN r
  ELSE LET d == IF Stale(r.sessions[s]) THEN session_destroy(r, s) ELSE r
       IN cleanup_from(d, before_in_lru(r, d, s))

\* The end of an iteration of the main loop.
CleanupStale ==
  /\ control = "none"
  /\ relayClock - last_cleanup >= CLEANUP_INTERVAL
  /\ srv' = cleanup_from(srv, srv.lru_tail)
  /\ last_cleanup' = relayClock
  /\ UNCHANGED <<relayClock, control>>

addr_equal(a, b) == a = b

\* The first session of a chain, read from s on, that has addr as a peer.
RECURSIVE session_find(_, _, _)
session_find(r, s, addr) ==
  IF \/ s = Nil
     \/ r.sessions[s].active /\ (addr_equal(addr, r.sessions[s].peer_a) \/
                                addr_equal(addr, r.sessions[s].peer_b))
  THEN s
  ELSE session_find(r, r.sessions[s].hash_next, addr)

\* A datagram on the data port; its sender hashes to the bucket of the zero
\* address or to an empty one.
RelayData ==
  /\ control = "none"
  /\ \E from \in Senders, bucket \in {srv.chain, Nil} :
       LET s == session_find(srv, bucket, from)
       IN srv' = IF s = Nil THEN srv
                 ELSE lru_touch([srv EXCEPT !.sessions[s].last_activity = relayClock], s)
  /\ UNCHANGED <<relayClock, last_cleanup, control>>

\* A connection is accepted; the loop is in handle_control until it is answered.
AcceptControl ==
  /\ control = "none"
  /\ control' = "cmd"
  /\ UNCHANGED <<srv, relayClock, last_cleanup>>

ControlCreate ==
  /\ control = "cmd"
  /\ srv.next_session_id <= RelayMaxIds
  /\ srv' = IF FreeSlots(srv) = {} THEN srv ELSE session_create(srv, ZeroAddr, ZeroAddr)
  /\ control' = "none"
  /\ UNCHANGED <<relayClock, last_cleanup>>

ControlDestroyCmd ==
  /\ control = "cmd"
  /\ control' = "session_id"
  /\ UNCHANGED <<srv, relayClock, last_cleanup>>

ControlDestroy ==
  /\ control = "session_id"
  /\ \E id \in 1..RelayMaxIds :
       LET named == {s \in Pool : srv.sessions[s].active /\ srv.sessions[s].session_id = id}
       IN srv' = IF named = {} THEN srv
                 ELSE session_destroy(srv, CHOOSE s \in named : \A t \in named : s <= t)
  /\ control' = "none"
  /\ UNCHANGED <<relayClock, last_cleanup>>

\* The peer closes, resets or sends another command.
ControlCloses ==
  /\ control # "none"
  /\ control' = "none"
  /\ UNCHANGED <<srv, relayClock, last_cleanup>>

RelayTime ==
  /\ relayClock < RelayMaxClock
  /\ relayClock' = relayClock + 1
  /\ UNCHANGED <<srv, last_cleanup, control>>

RelayServiceNext ==
  \/ CleanupStale
  \/ RelayData
  \/ AcceptControl
  \/ ControlCreate
  \/ ControlDestroyCmd
  \/ ControlDestroy
  \/ ControlCloses
  \/ RelayTime

RelayServiceSpec == RelayServiceInit /\ [][RelayServiceNext]_relayVars

ActiveSessions == {s \in Pool : srv.sessions[s].active}

RECURSIVE ListFrom(_, _, _)
ListFrom(next(_), s, fuel) ==
  IF s = Nil \/ fuel = 0 THEN <<>> ELSE <<s>> \o ListFrom(next, next(s), fuel - 1)

RangeOf(q) == {q[i] : i \in DOMAIN q}

(* The three views the relay server keeps of its sessions agree after any   *)
(* creations, destructions and sweeps: the LRU list read from its head is   *)
(* the list read backwards from its tail, it holds every active session     *)
(* once and nothing else, the newest first; the hash chain holds the same   *)
(* sessions; session_count is their number.                                 *)
SessionTableSound ==
  LET forth == ListFrom(LAMBDA s : srv.sessions[s].lru_next, srv.lru_head, RelaySlots + 1)
      back == ListFrom(LAMBDA s : srv.sessions[s].lru_prev, srv.lru_tail, RelaySlots + 1)
      chain == ListFrom(LAMBDA s : srv.sessions[s].hash_next, srv.chain, RelaySlots + 1)
      n == Cardinality(ActiveSessions)
  IN /\ Len(forth) = n /\ RangeOf(forth) = ActiveSessions
     /\ Len(chain) = n /\ RangeOf(chain) = ActiveSessions
     /\ back = [i \in 1..n |-> forth[n + 1 - i]]
     /\ \A i, j \in 1..n : i < j => srv.sessions[forth[i]].session_id > srv.sessions[forth[j]].session_id
     /\ srv.session_count = n

(* A sweep of cleanup_stale is exact: once the machine has been up for      *)
(* SESSION_TIMEOUT it removes every session that was idle for longer and no *)
(* other, however the LRU list was cut up while it was walked.  Before that *)
(* the unsigned deadline wraps and the sweep removes every session.         *)
CleanupExact ==
  [][CleanupStale =>
       ActiveSessions' =
         IF relayClock < SESSION_TIMEOUT THEN {}
         ELSE {s \in ActiveSessions : relayClock - srv.sessions[s].last_activity <= SESSION_TIMEOUT}
    ]_relayVars
=============================================================================
