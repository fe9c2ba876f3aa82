------------------------------ MODULE ConnPool ------------------------------
(***************************************************************************)
(* The connection pool (rc_conn_* in src/core/rc_conn.c): connections in   *)
(* hash chains under striped locks, reference counts, the connection state *)
(* machine, and the close and release paths, called by several threads.    *)
(* rc_conn_purge_timeouts is not modelled.                                 *)
(*                                                                         *)
(* Grain of atomicity: a stripe lock's critical section is one step, save  *)
(* that of rc_conn_create, which shares pool->count with the sections of   *)
(* other stripes; the fetch_add and fetch_sub of refcnt are one step; code *)
(* that runs with no lock is split where another thread can see or change  *)
(* what it is doing.                                                       *)
(*                                                                         *)
(* A chain is linked through conn->user_data, the field in which           *)
(* rc_handshake.c keeps its context: HandshakeBegin and HandshakeEnd are   *)
(* the handshake calls, seen from the pool.                                *)
(***************************************************************************)
EXTENDS Integers, FiniteSets, FiniteSetsExt

CONSTANTS
  Threads,      \* threads that call the pool
  Nobody,       \* holder of a free lock
  Objs,         \* addresses calloc can return
  Null,         \* NULL
  Ctx,          \* a handshake context, in user_data
  Requests,     \* conn_ids asked for; 0 asks for a generated one
  Driven,       \* states callers ask rc_conn_set_state for
  NumBuckets,   \* RC_CONN_POOL_BUCKETS
  NumLocks,     \* RC_CONN_POOL_LOCKS
  MaxConn,      \* pool->max_conn
  MaxRefs,      \* bound: references a thread holds on one connection
  MaxContexts   \* bound: contexts ever stored

States == {"CLOSED", "CONNECTING", "HANDSHAKING", "ESTABLISHED", "CLOSING"}

ASSUME ConnPoolConstants ==
  /\ IsFiniteSet(Threads) /\ Threads # {}
  /\ IsFiniteSet(Objs)
  /\ Nobody \notin Threads
  /\ Null \notin Objs /\ Ctx \notin Objs /\ Null # Ctx
  /\ Requests \subseteq Nat
  /\ Driven \subseteq States
  /\ NumBuckets \in Nat \ {0}
  /\ NumLocks \in Nat \ {0}
  /\ MaxConn \in Nat
  /\ MaxRefs \in Nat
  /\ MaxContexts \in Nat

Buckets == 0 .. NumBuckets - 1
Stripes == 0 .. NumLocks - 1

VARIABLES
  conn,      \* the connections, by address
  buckets,   \* pool->buckets
  count,     \* pool->count
  locks,     \* pool->locks: the holders
  next_id,   \* the counter of generated ids
  pc, loc,   \* each thread's place, and locals: the connection, a copy of count
  alive,     \* the pool has not been destroyed
  \* History; guards read holds, because callers use what they hold, and the
  \* bound on contexts:
  holds,     \* holds[t][o]: references to o that t has and has not released
  revived,   \* a lookup returned a connection whose last reference was gone
  contended, \* two threads closed or released a connection at the same time
  torn,      \* a connection was torn down while a thread held a reference
  contexts,  \* contexts that were stored into user_data, over a chain's link
  lost       \* increments of count that were overwritten by another stripe

history == <<holds, revived, torn, contended, contexts, lost>>
vars == <<conn, buckets, count, locks, next_id, pc, loc, alive, history>>

\* A connection.  used: allocated; linked: inserted; closes: close(fd) calls.
Blank == [used |-> FALSE, linked |-> FALSE, id |-> 0, state |-> "CLOSED", refcnt |-> 0,
          fd |-> FALSE, closes |-> 0, bufs |-> FALSE, user_data |-> Null, freed |-> FALSE]

NoLoc == [obj |-> Null, n |-> 0]

-----------------------------------------------------------------------------
(* Hashing and chains *)

\* The bucket of an id.  What matters of the MurmurHash finaliser is that ids are
\* spread over the buckets and that some share one.
conn_hash(id) == id % NumBuckets
bucket_lock_idx(b) == b % NumLocks
Stripe(id) == bucket_lock_idx(conn_hash(id))

\* What a walk of bucket b reaches after k links.
Walk(b) ==
  LET f[k \in 0 .. Cardinality(Objs)] ==
        IF k = 0 THEN buckets[b]
        ELSE IF f[k - 1] \in Objs THEN conn[f[k - 1]].user_data ELSE f[k - 1]
  IN  f

OnChain(b) == {Walk(b)[k] : k \in 0 .. Cardinality(Objs)} \cap Objs

\* o is the connection that a walk of the chain of id stops at.
Found(o, id) ==
  LET f == Walk(conn_hash(id)) IN
  \E k \in DOMAIN f : /\ f[k] = o
                      /\ conn[o].id = id
                      /\ \A j \in 0 .. k - 1 : conn[f[j]].id # id

\* Threads that are closing o or tearing it down.
Closers(o) ==
  {t \in Threads : loc[t].obj = o /\ pc[t] \notin {"idle", "link", "count"}}

\* A thread's next place; its locals end with the call.
Goto(t, next) ==
  /\ pc' = [pc EXCEPT ![t] = next]
  /\ loc' = IF next = "idle" THEN [loc EXCEPT ![t] = NoLoc] ELSE loc

Holders(o) == {t \in Threads : holds[t][o] > 0}

-----------------------------------------------------------------------------
(* rc_conn_create *)

Init ==
  /\ conn = [o \in Objs |-> Blank]
  /\ buckets = [b \in Buckets |-> Null]
  /\ count = 0
  /\ locks = [s \in Stripes |-> Nobody]
  /\ next_id = 1
  /\ pc = [t \in Threads |-> "idle"]
  /\ loc = [t \in Threads |-> NoLoc]
  /\ alive = TRUE
  /\ holds = [t \in Threads |-> [o \in Objs |-> 0]]
  /\ revived = FALSE
  /\ torn = FALSE
  /\ contended = FALSE
  /\ contexts = 0
  /\ lost = 0

\* Fault: the pool-full test is off by one.
HasRoom_Fault == count <= MaxConn

HasRoom == count < MaxConn

\* The unlocked capacity test, the allocation and the initialisation.  A full
\* pool or a failed allocation returns NULL and changes nothing.
CreateAlloc(t, req) ==
  /\ pc[t] = "idle" /\ alive
  /\ HasRoom
  /\ \E o \in Objs :
       /\ ~conn[o].used
       /\ conn' = [conn EXCEPT ![o] =
            [Blank EXCEPT !.used = TRUE, !.id = IF req = 0 THEN next_id ELSE req,
                          !.refcnt = 1, !.fd = TRUE, !.bufs = TRUE]]
       /\ loc' = [loc EXCEPT ![t].obj = o]
       /\ holds' = [holds EXCEPT ![t][o] = 1]
  /\ next_id' = IF req = 0 THEN next_id + 1 ELSE next_id
  /\ pc' = [pc EXCEPT ![t] = "link"]
  /\ UNCHANGED <<buckets, count, locks, alive, revived, torn, contended,
                 contexts, lost>>

\* Fault: the new connection does not point to the rest of the chain.
CreateLink_Fault(t) ==
  LET o == loc[t].obj
      b == conn_hash(conn[o].id) IN
  /\ pc[t] = "link"
  /\ locks[bucket_lock_idx(b)] = Nobody
  /\ locks' = [locks EXCEPT ![bucket_lock_idx(b)] = t]
  /\ conn' = [conn EXCEPT ![o].linked = TRUE]
  /\ buckets' = [buckets EXCEPT ![b] = o]
  /\ loc' = [loc EXCEPT ![t].n = count]
  /\ pc' = [pc EXCEPT ![t] = "count"]
  /\ UNCHANGED <<count, next_id, alive, history>>

\* Insertion under the stripe lock, up to the load of pool->count.
CreateLink(t) ==
  LET o == loc[t].obj
      b == conn_hash(conn[o].id) IN
  /\ pc[t] = "link"
  /\ locks[bucket_lock_idx(b)] = Nobody
  /\ locks' = [locks EXCEPT ![bucket_lock_idx(b)] = t]
  /\ conn' = [conn EXCEPT ![o].user_data = buckets[b], ![o].linked = TRUE]
  /\ buckets' = [buckets EXCEPT ![b] = o]
  /\ loc' = [loc EXCEPT ![t].n = count]
  /\ pc' = [pc EXCEPT ![t] = "count"]
  /\ UNCHANGED <<count, next_id, alive, history>>

\* The store to pool->count, the unlock and the return.
CreateCount(t) ==
  /\ pc[t] = "count"
  /\ count' = loc[t].n + 1
  /\ lost' = lost + count - loc[t].n
  /\ locks' = [locks EXCEPT ![Stripe(conn[loc[t].obj].id)] = Nobody]
  /\ Goto(t, "idle")
  /\ UNCHANGED <<conn, buckets, next_id, alive, holds, revived, torn, contended,
                 contexts>>

-----------------------------------------------------------------------------
(* rc_conn_lookup, rc_conn_release *)

\* Fault: a lookup takes no reference.
Lookup_Fault(t, o) ==
  LET id == conn[o].id IN
  /\ pc[t] = "idle" /\ alive
  /\ locks[Stripe(id)] = Nobody
  /\ Found(o, id)
  /\ holds[t][o] < MaxRefs
  /\ holds' = [holds EXCEPT ![t][o] = @ + 1]
  /\ revived' = (revived \/ conn[o].refcnt = 0)
  /\ UNCHANGED <<conn, buckets, count, locks, next_id, pc, loc, alive, torn, contended,
                 contexts, lost>>

\* An id that no connection of its chain has returns NULL and changes nothing.
Lookup(t, o) ==
  LET id == conn[o].id IN
  /\ pc[t] = "idle" /\ alive
  /\ locks[Stripe(id)] = Nobody
  /\ Found(o, id)
  /\ holds[t][o] < MaxRefs
  /\ conn' = [conn EXCEPT ![o].refcnt = @ + 1]
  /\ holds' = [holds EXCEPT ![t][o] = @ + 1]
  /\ revived' = (revived \/ conn[o].refcnt = 0)
  /\ UNCHANGED <<buckets, count, locks, next_id, pc, loc, alive, torn, contended,
                 contexts, lost>>

\* Fault: the value after the decrement is compared with 1.
LastRef_Fault(o) == conn[o].refcnt - 1 = 1

\* fetch_sub returned 1.
LastRef(o) == conn[o].refcnt = 1

Release(t, o) ==
  /\ pc[t] = "idle"
  /\ holds[t][o] > 0
  /\ conn' = [conn EXCEPT ![o].refcnt = @ - 1]
  /\ holds' = [holds EXCEPT ![t][o] = @ - 1]
  /\ IF LastRef(o)
     THEN /\ pc' = [pc EXCEPT ![t] = "release_fd"]
          /\ loc' = [loc EXCEPT ![t].obj = o]
     ELSE UNCHANGED <<pc, loc>>
  /\ contended' = (contended \/ Closers(o) # {})
  /\ UNCHANGED <<buckets, count, locks, next_id, alive, revived, torn, contexts, lost>>

\* Fault: the descriptor is not marked as closed.
FdClear_Fault(t, next) ==
  /\ Goto(t, next)
  /\ UNCHANGED <<conn, buckets, count, locks, next_id, alive, history>>

\* conn->fd = -1
FdClear(t, next) ==
  /\ conn' = [conn EXCEPT ![loc[t].obj].fd = FALSE]
  /\ Goto(t, next)
  /\ UNCHANGED <<buckets, count, locks, next_id, alive, history>>

\* if (conn->fd >= 0) close(conn->fd), on the way to clear or else to next
FdClose(t, clear, next) ==
  LET o == loc[t].obj IN
  /\ IF conn[o].fd
     THEN conn' = [conn EXCEPT ![o].closes = @ + 1] /\ Goto(t, clear)
     ELSE UNCHANGED conn /\ Goto(t, next)
  /\ UNCHANGED <<buckets, count, locks, next_id, alive, history>>

ReleaseFd(t) == pc[t] = "release_fd" /\ FdClose(t, "release_bufs", "release_bufs")

\* The end of a last release: the connection stays in its chain.
ReleaseBufs(t) ==
  LET o == loc[t].obj IN
  /\ pc[t] = "release_bufs"
  /\ conn' = [conn EXCEPT ![o].fd = FALSE, ![o].bufs = FALSE, ![o].state = "CLOSED"]
  /\ torn' = (torn \/ Holders(o) # {})
  /\ Goto(t, "idle")
  /\ UNCHANGED <<buckets, count, locks, next_id, alive, holds, revived, contended,
                 contexts, lost>>

-----------------------------------------------------------------------------
(* rc_conn_set_state, rc_conn_close *)

Valid(old, new) ==
  CASE old = "CLOSED"      -> new = "CONNECTING"
    [] old = "CONNECTING"  -> new \in {"HANDSHAKING", "CLOSED"}
    [] old = "HANDSHAKING" -> new \in {"ESTABLISHED", "CLOSED"}
    [] old = "ESTABLISHED" -> new \in {"CLOSING", "CLOSED"}
    [] old = "CLOSING"     -> new = "CLOSED"

\* The critical section of state_mtx; an invalid transition changes nothing.
After(old, new) == IF Valid(old, new) THEN new ELSE old
set_state(o, new) == conn' = [conn EXCEPT ![o].state = After(@, new)]

\* A caller that holds a reference drives the state machine.
SetState(t, o, new) ==
  /\ pc[t] = "idle"
  /\ holds[t][o] > 0
  /\ Valid(conn[o].state, new)
  /\ set_state(o, new)
  /\ UNCHANGED <<buckets, count, locks, next_id, pc, loc, alive, history>>

CloseClosing(t, o) ==
  /\ pc[t] = "idle"
  /\ holds[t][o] > 0
  /\ set_state(o, "CLOSING")
  /\ loc' = [loc EXCEPT ![t].obj = o]
  /\ pc' = [pc EXCEPT ![t] = "close_closed"]
  /\ contended' = (contended \/ Closers(o) \ {t} # {})
  /\ UNCHANGED <<buckets, count, locks, next_id, alive, holds, revived, torn,
                 contexts, lost>>

CloseClosed(t) ==
  /\ pc[t] = "close_closed"
  /\ set_state(loc[t].obj, "CLOSED")
  /\ Goto(t, "close_fd")
  /\ UNCHANGED <<buckets, count, locks, next_id, alive, history>>

CloseFd(t) == pc[t] = "close_fd" /\ FdClose(t, "close_clear", "idle")
CloseClear(t) == pc[t] = "close_clear" /\ FdClear(t, "idle")

-----------------------------------------------------------------------------
(* user_data, and the end of the pool *)

\* rc_handshake_send_client_hello and process_client_hello queue a message and
\* keep their context in conn->user_data; only the client changes the state.  A
\* connection whose buffers are gone has no room for the message: the call
\* fails and changes nothing.
HandshakeBegin(t, o, client) ==
  /\ pc[t] = "idle"
  /\ holds[t][o] > 0
  /\ conn[o].bufs
  /\ contexts < MaxContexts
  /\ conn' = [conn EXCEPT ![o].user_data = Ctx,
                          ![o].state = IF client THEN After(@, "HANDSHAKING") ELSE @]
  /\ contexts' = contexts + 1
  /\ UNCHANGED <<buckets, count, locks, next_id, pc, loc, alive, holds, revived, torn,
                 contended, lost>>

\* The end of a handshake: process_server_hello queues the Finish message, frees
\* the context and stores NULL.
HandshakeEnd(t, o) ==
  /\ pc[t] = "idle"
  /\ holds[t][o] > 0
  /\ conn[o].bufs
  /\ conn[o].user_data = Ctx
  /\ conn' = [conn EXCEPT ![o].user_data = Null, ![o].state = After(@, "ESTABLISHED")]
  /\ UNCHANGED <<buckets, count, locks, next_id, pc, loc, alive, history>>

\* Fault: only the first connection of each chain is freed.
Freeable_Fault == {buckets[b] : b \in Buckets} \cap Objs

Freeable == UNION {OnChain(b) : b \in Buckets}

\* rc_conn_pool_destroy, once no thread uses the pool: every connection the
\* chains lead to is closed and freed.
PoolDestroy ==
  /\ alive
  /\ \A t \in Threads : pc[t] = "idle" /\ \A o \in Objs : holds[t][o] = 0
  /\ conn' = [o \in Objs |->
       IF o \in Freeable
       THEN [conn[o] EXCEPT !.closes = IF conn[o].fd THEN @ + 1 ELSE @, !.fd = FALSE,
                            !.bufs = FALSE, !.freed = TRUE]
       ELSE conn[o]]
  /\ buckets' = [b \in Buckets |-> Null]
  /\ count' = 0
  /\ alive' = FALSE
  /\ UNCHANGED <<locks, next_id, pc, loc, history>>

-----------------------------------------------------------------------------

ThreadStep(t) ==
  \/ \E req \in Requests : CreateAlloc(t, req)
  \/ CreateLink(t)
  \/ CreateCount(t)
  \/ \E o \in Objs : Lookup(t, o)
  \/ \E o \in Objs : Release(t, o)
  \/ ReleaseFd(t)
  \/ ReleaseBufs(t)
  \/ \E o \in Objs, new \in Driven : SetState(t, o, new)
  \/ \E o \in Objs : CloseClosing(t, o)
  \/ CloseClosed(t)
  \/ CloseFd(t)
  \/ CloseClear(t)
  \/ \E o \in Objs, client \in BOOLEAN : HandshakeBegin(t, o, client)
  \/ \E o \in Objs : HandshakeEnd(t, o)

Next ==
  \/ \E t \in Threads : ThreadStep(t)
  \/ PoolDestroy

Spec == Init /\ [][Next]_vars

-----------------------------------------------------------------------------
(* Properties *)

\* As long as nobody stores into user_data, the chain of every bucket ends,
\* visits no connection twice and holds exactly the connections that were
\* inserted for it, so a lookup finds every connection of the pool.
ChainsSound ==
  (alive /\ contexts = 0) => \A b \in Buckets :
    /\ Walk(b)[Cardinality(Objs)] = Null
    /\ OnChain(b) = {o \in Objs : conn[o].linked /\ conn_hash(conn[o].id) = b}

\* refcnt is the number of references that were handed out and not released.
RefsExact ==
  \A o \in Objs : conn[o].refcnt = MapThenSumSet(LAMBDA t : holds[t][o], Threads)

\* rc_conn_release frees the buffers of a connection under a thread that holds
\* a reference only if that thread looked it up after the last reference was
\* gone.
TornOnlyIfRevived == torn => revived

\* A connection without references that no thread is still tearing down has
\* given up its descriptor and its buffers and is CLOSED.
ReleasedIsRetired ==
  \A o \in Objs : conn[o].used /\ conn[o].refcnt = 0 /\ Closers(o) = {} =>
    ~conn[o].fd /\ ~conn[o].bufs /\ conn[o].state = "CLOSED"

\* A descriptor is closed at most once, unless two threads close or release the
\* connection at the same time.
ClosedOnce == \A o \in Objs : conn[o].closes > 1 => contended

\* The capacity test takes no lock, so creates that pass it together overshoot
\* max_conn: by at most one per further thread and by the increments of count
\* that were lost between stripes.
Overshoot ==
  Cardinality({o \in Objs : conn[o].used}) <= MaxConn + lost + Cardinality(Threads) - 1

\* rc_conn_pool_destroy frees every connection that was ever created, if
\* user_data was not used.
DestroyFreesAll ==
  (~alive /\ contexts = 0) => \A o \in Objs : conn[o].used => conn[o].freed

\* Buffers are never freed while a thread holds a reference.
NotTorn == ~torn

\* Handshakes or not, the chain of a bucket leads to every connection that was
\* inserted into it.
ChainsComplete ==
  alive => \A o \in Objs : conn[o].linked => o \in OnChain(conn_hash(conn[o].id))

=============================================================================
