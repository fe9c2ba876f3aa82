------------------------------- MODULE IoLoop -------------------------------
(* The I/O half of the event loop (src/core/rc_epoll.c): the watcher pool,  *)
(* what epoll knows of it, the batch of events of one epoll_wait, and       *)
(* rc_loop_stop from another thread.  Callbacks add and delete watchers     *)
(* while the rest of their batch is still to be delivered.  The timers of   *)
(* the loop are in TimerWheel.                                              *)
EXTENDS Integers, Sequences, FiniteSets

CONSTANTS
  IoPoolSize,  \* io_pool_size
  Fds          \* descriptors the callers use

ASSUME IoAssumption == IoPoolSize \in Nat \ {0} /\ IsFiniteSet(Fds)

Watchers == 1..IoPoolSize
NoWatcher == 0
NoFd == -1

VARIABLES
  io,       \* the pool: fd, active and next of each watcher
  ioFree,   \* io_watchers, the head of the free list
  epoll,    \* the kernel's table: the watcher each descriptor is registered with
  batch,    \* events still to be delivered: the watcher and what triggered it
  reused,   \* watchers taken from the free list since the batch was filled
  running,  \* loop->running
  wakeup,   \* the eventfd is readable
  loopAt,   \* where the loop's thread is
  stopAt,   \* where the thread calling rc_loop_stop is
  event     \* the event whose callback runs: [watcher, fd]

ioVars == <<io, ioFree, epoll, batch, reused, running, wakeup, loopAt, stopAt, event>>
ioPool == <<io, ioFree, epoll, reused>>

NoEvent == [watcher |-> NoWatcher, fd |-> NoFd]

IoInit ==
  /\ io = [w \in Watchers |->
             [fd |-> 0, active |-> FALSE,
              next |-> IF w = IoPoolSize THEN NoWatcher ELSE w + 1]]
  /\ ioFree = 1
  /\ epoll = [f \in Fds |-> NoWatcher]
  /\ batch = <<>>
  /\ reused = {}
  /\ running = FALSE
  /\ wakeup = FALSE
  /\ loopAt = "new"
  /\ stopAt = "idle"
  /\ event = NoEvent

\* The loop's owner calls before it runs the loop, its callbacks afterwards.
MayUseIo == loopAt \in {"new", "callback"}

\* Fault: a refused watcher does not go back to the free list.
rc_io_add_Fault(f) ==
  LET w == ioFree
  IN /\ MayUseIo
     /\ ioFree # NoWatcher
     /\ io' = [io EXCEPT ![w] = [fd |-> f, active |-> TRUE, next |-> NoWatcher]]
     /\ ioFree' = io[w].next
     /\ epoll' = IF epoll[f] = NoWatcher THEN [epoll EXCEPT ![f] = w] ELSE epoll
     /\ reused' = reused \cup {w}
     /\ UNCHANGED <<batch, running, wakeup, loopAt, stopAt, event>>

(* A descriptor that epoll already knows is refused: the watcher goes back  *)
(* to the free list, with its active flag still set.                        *)
rc_io_add(f) ==
  LET w == ioFree
      filled == [fd |-> f, active |-> TRUE, next |-> NoWatcher]
  IN /\ MayUseIo
     /\ ioFree # NoWatcher
     /\ IF epoll[f] = NoWatcher
        THEN /\ io' = [io EXCEPT ![w] = filled]
             /\ ioFree' = io[w].next
             /\ epoll' = [epoll EXCEPT ![f] = w]
        ELSE /\ io' = [io EXCEPT ![w] = [filled EXCEPT !.next = io[w].next]]
             /\ UNCHANGED <<ioFree, epoll>>
     /\ reused' = reused \cup {w}
     /\ UNCHANGED <<batch, running, wakeup, loopAt, stopAt, event>>

\* The handles the callers hold are those rc_io_add returned and registered.
rc_io_del(f) ==
  LET w == epoll[f]
  IN /\ MayUseIo
     /\ w # NoWatcher
     /\ io[w].active
     /\ epoll' = [epoll EXCEPT ![f] = NoWatcher]
     /\ io' = [io EXCEPT ![w] = [fd |-> NoFd, active |-> FALSE, next |-> ioFree]]
     /\ ioFree' = w
     /\ UNCHANGED <<batch, reused, running, wakeup, loopAt, stopAt, event>>

(* rc_loop_run sets running whatever rc_loop_stop did before it.            *)
RunLoop ==
  /\ loopAt = "new"
  /\ running' = TRUE
  /\ loopAt' = "top"
  /\ UNCHANGED <<ioPool, batch, wakeup, stopAt, event>>

\* The condition of the loop; process_timers is in TimerWheel.
LoopTop ==
  /\ loopAt = "top"
  /\ loopAt' = IF running THEN "poll" ELSE "ended"
  /\ UNCHANGED <<ioPool, batch, running, wakeup, stopAt, event>>

Registered == {f \in Fds : epoll[f] # NoWatcher}

\* epoll_wait: some of the registered descriptors are ready, in some order.
EpollWait ==
  /\ loopAt = "poll"
  /\ \E ready \in SUBSET Registered :
     \E order \in [1..Cardinality(ready) -> ready] :
       /\ \A i, j \in DOMAIN order : i # j => order[i] # order[j]
       /\ batch' = (IF wakeup THEN <<NoEvent>> ELSE <<>>) \o
                   [i \in DOMAIN order |-> [watcher |-> epoll[order[i]], fd |-> order[i]]]
  /\ reused' = {}
  /\ loopAt' = "dispatch"
  /\ UNCHANGED <<io, ioFree, epoll, running, wakeup, stopAt, event>>

\* Fault: the active flag is not looked at.
Deliverable_Fault(e) == e.watcher # NoWatcher

\* An event is delivered when the watcher it points to is in use.
Deliverable(e) == e.watcher # NoWatcher /\ io[e.watcher].active

Dispatch ==
  /\ loopAt = "dispatch"
  /\ batch # <<>>
  /\ batch' = Tail(batch)
  /\ wakeup' = (wakeup /\ Head(batch) # NoEvent)
  /\ IF Deliverable(Head(batch))
     THEN event' = Head(batch) /\ loopAt' = "callback"
     ELSE UNCHANGED <<event, loopAt>>
  /\ UNCHANGED <<ioPool, running, stopAt>>

IoCallbackReturns ==
  /\ loopAt = "callback"
  /\ event' = NoEvent
  /\ loopAt' = "dispatch"
  /\ UNCHANGED <<ioPool, batch, running, wakeup, stopAt>>

BatchDone ==
  /\ loopAt = "dispatch"
  /\ batch = <<>>
  /\ loopAt' = "top"
  /\ UNCHANGED <<ioPool, batch, running, wakeup, stopAt, event>>

\* rc_loop_stop, called once, by any thread and at any time.
StopFlag ==
  /\ stopAt = "idle"
  /\ running' = FALSE
  /\ stopAt' = "flagged"
  /\ UNCHANGED <<ioPool, batch, wakeup, loopAt, event>>

StopWakeup ==
  /\ stopAt = "flagged"
  /\ wakeup' = TRUE
  /\ stopAt' = "done"
  /\ UNCHANGED <<ioPool, batch, running, loopAt, event>>

IoNext ==
  \/ \E f \in Fds : rc_io_add(f)
  \/ \E f \in Fds : rc_io_del(f)
  \/ RunLoop
  \/ LoopTop
  \/ EpollWait
  \/ Dispatch
  \/ IoCallbackReturns
  \/ BatchDone
  \/ StopFlag
  \/ StopWakeup

IoSpec == IoInit /\ [][IoNext]_ioVars

-----------------------------------------------------------------------------
\* The watchers on the free list.
FreeWatchers ==
  LET upto[n \in 0..IoPoolSize] ==
        IF n = 0 THEN {ioFree}
        ELSE upto[n - 1] \cup {io[w].next : w \in upto[n - 1] \ {NoWatcher}}
  IN upto[IoPoolSize] \ {NoWatcher}

(* No watcher is lost or shared (rc_io_add, its failure path, rc_io_del):   *)
(* each is either on the free list or registered with epoll, and then for   *)
(* its own descriptor and with its active flag set.                         *)
IoPoolSound ==
  /\ \A w \in Watchers :
       w \in FreeWatchers <=> \A f \in Fds : epoll[f] # w
  /\ \A f \in Registered : io[epoll[f]].fd = f /\ io[epoll[f]].active

(* A callback is told the descriptor that triggered the event               *)
(* (include/rc_epoll.h:62), unless its watcher was deleted and taken from   *)
(* the free list again by an earlier callback of the same batch: an event   *)
(* for a watcher that was only deleted is never delivered.                  *)
StaleOnlyAfterReuse ==
  [][loopAt = "dispatch" /\ loopAt' = "callback" =>
       \/ io[event'.watcher].fd = event'.fd
       \/ event'.watcher \in reused]_ioVars
=============================================================================
