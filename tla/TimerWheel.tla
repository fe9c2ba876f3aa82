----------------------------- MODULE TimerWheel -----------------------------
(* The hierarchical timer wheel of the event loop (src/core/rc_epoll.c),    *)
(* pointer by pointer: slot lists linked through next and prev, the free    *)
(* list through next.  The loop's thread alternates between process_timers  *)
(* (phases "scan" to "move") and the I/O callbacks ("outside"), and both    *)
(* kinds of callback call rc_timer_add, rc_timer_cancel and rc_timer_rearm. *)
EXTENDS Integers, FiniteSets

CONSTANTS
  TimerCount,      \* timer_pool_size
  SLOTS,           \* RC_TIMER_SLOTS
  LEVELS,          \* RC_TIMER_LEVELS
  Word,            \* 2^64: unsigned differences wrap here
  Delays,          \* delays the callers use outside a timer callback
  CallbackDelays,  \* delays they use inside one
  Intervals,       \* repeat intervals, 0 for one-shot
  Starts,          \* rc_time_ms() when the loop is created
  MaxNow           \* bound: the clock stops here

Timers == 1..TimerCount
NULL == 0

VARIABLES
  w,        \* [timer: the pool, wheel: the list heads, free: timer_free]
  ticks,    \* wheel_ticks
  current,  \* current_ms
  now,      \* process_timers' copy of the clock
  phase,    \* where the loop's thread is
  next_t,   \* the saved rest of the list being walked
  level,    \* lvl of the cascade
  firing,   \* the timer whose callback is running
  due,      \* the callers' view: when each timer they hold is to fire
  long      \* the timers last armed for a turn of level 0 or more

vars == <<w, ticks, current, now, phase, next_t, level, firing, due, long>>
loop == <<ticks, current, now, phase, next_t, level, firing>>
view == <<due, long>>

Unarmed == -1

(* wheel[LEVELS][SLOTS] is one block of memory: an index past the end of a  *)
(* level is a slot of the next one.                                         *)
Cells == 0..(LEVELS * SLOTS - 1)

Pow(l) == SLOTS ^ l

(***************************************************************************)
(* timer_slot: the cell for an expiry, from the current time.              *)
(***************************************************************************)
timer_slot(expiry) ==
  LET delta == (expiry - current) % Word
      fits == {l \in 0..(LEVELS - 2) : delta < Pow(l + 1)}
      lvl == IF fits = {} THEN LEVELS - 1
             ELSE CHOOSE l \in fits : \A m \in fits : l <= m
  IN (lvl * SLOTS) + ((expiry \div Pow(lvl)) % SLOTS)

\* timer_insert: at the head of the list of its cell.
timer_insert_at(s, t, cell) ==
  LET head == s.wheel[cell]
      linked == [s.timer EXCEPT ![t].prev = NULL, ![t].next = head,
                                ![t].active = TRUE]
  IN [s EXCEPT !.timer = IF head = NULL THEN linked
                         ELSE [linked EXCEPT ![head].prev = t],
               !.wheel[cell] = t]

timer_insert(s, t) == timer_insert_at(s, t, timer_slot(s.timer[t].expiry))

\* Fault: the removed timer's successor keeps its prev link.
timer_remove_Fault(s, t) ==
  LET p == s.timer[t].prev
      n == s.timer[t].next
      a == IF p # NULL
           THEN [s EXCEPT !.timer[p].next = n]
           ELSE [s EXCEPT !.wheel[timer_slot(s.timer[t].expiry)] = n]
  IN IF ~s.timer[t].active THEN s
     ELSE [a EXCEPT !.timer[t].next = NULL, !.timer[t].prev = NULL,
                    !.timer[t].active = FALSE]

(* timer_remove: a head is cut off from the cell its expiry has NOW.        *)
timer_remove(s, t) ==
  LET p == s.timer[t].prev
      n == s.timer[t].next
      a == IF p # NULL
           THEN [s EXCEPT !.timer[p].next = n]
           ELSE [s EXCEPT !.wheel[timer_slot(s.timer[t].expiry)] = n]
      b == IF n # NULL THEN [a EXCEPT !.timer[n].prev = p] ELSE a
  IN IF ~s.timer[t].active THEN s
     ELSE [b EXCEPT !.timer[t].next = NULL, !.timer[t].prev = NULL,
                    !.timer[t].active = FALSE]

(* The timer goes to the head of the free list.  Its expiry and interval    *)
(* stay in memory until rc_timer_add overwrites them; nothing reads them    *)
(* before that, so the model forgets them here.                             *)
give_back(s, t) ==
  [s EXCEPT !.timer[t] = [@ EXCEPT !.next = s.free, !.expiry = 0, !.interval = 0],
            !.free = t]

\* rc_loop_create: an empty wheel, all timers on the free list.
Init ==
  /\ w = [timer |-> [t \in Timers |->
             [expiry |-> 0, interval |-> 0, active |-> FALSE, prev |-> NULL,
              next |-> IF t = TimerCount THEN NULL ELSE t + 1]],
          wheel |-> [c \in Cells |-> NULL],
          free |-> 1]
  /\ ticks = [l \in 1..(LEVELS - 1) |-> 0]
  /\ current \in Starts
  /\ now = current
  /\ phase = "outside"
  /\ next_t = NULL
  /\ level = 0
  /\ firing = NULL
  /\ due = [t \in Timers |-> Unarmed]
  /\ long = {}

(***************************************************************************)
(* Calls of the users, from an I/O callback or from a timer callback.      *)
(* They cancel and rearm only timers that have not fired, were not         *)
(* cancelled and were armed for less than one turn of level 0 (for others  *)
(* timer_remove looks in the wrong cell), and inside a timer callback they *)
(* leave alone the timers of the same tick: process_timers holds pointers  *)
(* to those.                                                               *)
(***************************************************************************)
InCallback == phase = "callback"
MayCall == phase \in {"outside", "callback"}
Delay == IF InCallback THEN CallbackDelays ELSE Delays
Mine(t) ==
  /\ due[t] # Unarmed
  /\ t \notin long
  /\ InCallback => due[t] > current

\* The callers' view after t is armed for d milliseconds from now.
Armed(t, d) ==
  /\ due' = [due EXCEPT ![t] = current + d]
  /\ long' = IF d >= SLOTS THEN long \cup {t} ELSE long \ {t}

Disarmed(t) ==
  /\ due' = [due EXCEPT ![t] = Unarmed]
  /\ UNCHANGED long

rc_timer_add ==
  /\ MayCall
  /\ w.free # NULL
  /\ \E d \in Delay, i \in Intervals :
       LET t == w.free
           fresh == [expiry |-> current + d, interval |-> i, active |-> FALSE,
                     next |-> NULL, prev |-> NULL]
       IN /\ w' = timer_insert([w EXCEPT !.free = w.timer[t].next,
                                         !.timer[t] = fresh], t)
          /\ Armed(t, d)
  /\ UNCHANGED loop

rc_timer_cancel(t) ==
  /\ MayCall
  /\ Mine(t)
  /\ w' = give_back(timer_remove(w, t), t)
  /\ Disarmed(t)
  /\ UNCHANGED loop

rc_timer_rearm(t) ==
  /\ MayCall
  /\ Mine(t)
  /\ \E d \in Delay :
       /\ w' = timer_insert([timer_remove(w, t) EXCEPT
                                !.timer[t].expiry = current + d], t)
       /\ Armed(t, d)
  /\ UNCHANGED loop

(***************************************************************************)
(* process_timers.                                                         *)
(***************************************************************************)
slot == current % SLOTS

\* Fault: the pass stops before the millisecond the clock shows.
Behind_Fault == current < now

\* The condition of the outer loop.
Behind == current <= now

\* The call reads the clock, which has moved on by any amount.
ProcessTimers ==
  /\ phase = "outside"
  /\ now' \in now..MaxNow
  /\ phase' = "scan"
  /\ UNCHANGED <<w, ticks, current, next_t, level, firing, view>>

\* The list of the current slot is detached as a whole.
DetachSlot ==
  /\ phase = "scan"
  /\ Behind
  /\ next_t' = w.wheel[slot]
  /\ w' = [w EXCEPT !.wheel[slot] = NULL]
  /\ phase' = "walk"
  /\ UNCHANGED <<ticks, current, now, level, firing, view>>

CaughtUp ==
  /\ phase = "scan"
  /\ ~Behind
  /\ phase' = "outside"
  /\ UNCHANGED <<w, ticks, current, now, next_t, level, firing, view>>

Unlink(s, t) == [s EXCEPT !.timer[t].next = NULL, !.timer[t].prev = NULL]

\* Fault: a timer is due only after its millisecond.
Expired_Fault(t) == current > w.timer[t].expiry

Expired(t) == current >= w.timer[t].expiry

(* The next timer of the list: its callback is called, or it is put back.   *)
WalkTimer ==
  /\ phase = "walk"
  /\ next_t # NULL
  /\ next_t' = w.timer[next_t].next
  /\ IF Expired(next_t)
     THEN /\ w' = [Unlink(w, next_t) EXCEPT !.timer[next_t].active = FALSE]
          /\ Disarmed(next_t)
          /\ firing' = next_t
          /\ phase' = "callback"
     ELSE /\ w' = timer_insert(Unlink(w, next_t), next_t)
          /\ UNCHANGED <<view, firing, phase>>
  /\ UNCHANGED <<ticks, current, now, level>>

\* The callback returns: a repeating timer is armed again, another is free.
rearm_or_free(t) ==
  LET i == w.timer[t].interval
  IN IF i > 0
     THEN /\ w' = timer_insert([w EXCEPT !.timer[t].expiry = current + i], t)
          /\ Armed(t, i)
     ELSE /\ w' = give_back(w, t)
          /\ UNCHANGED view

CallbackReturns ==
  /\ phase = "callback"
  /\ rearm_or_free(firing)
  /\ firing' = NULL
  /\ phase' = "walk"
  /\ UNCHANGED <<ticks, current, now, next_t, level>>

\* The end of a tick; after slot 0 the higher levels cascade.
EndTick ==
  /\ phase = "walk"
  /\ next_t = NULL
  /\ current' = current + 1
  /\ IF slot = 0 THEN phase' = "cascade" /\ level' = 1
                 ELSE phase' = "scan" /\ UNCHANGED level
  /\ UNCHANGED <<w, ticks, now, next_t, firing, view>>

(* wheel_ticks[lvl] is never reduced modulo SLOTS: past the last cell of    *)
(* the wheel the loop reads, and clears, the memory behind it.              *)
Cursor == level * SLOTS + ticks[level]

CascadeDetach ==
  /\ phase = "cascade"
  /\ ticks' = [ticks EXCEPT ![level] = @ + 1]
  /\ IF Cursor \in Cells
     THEN /\ next_t' = w.wheel[Cursor]
          /\ w' = [w EXCEPT !.wheel[Cursor] = NULL]
          /\ phase' = "move"
     ELSE /\ phase' = "overrun"
          /\ UNCHANGED <<w, next_t>>
  /\ UNCHANGED <<current, now, level, firing, view>>

CascadeMove ==
  /\ phase = "move"
  /\ next_t # NULL
  /\ next_t' = w.timer[next_t].next
  /\ w' = timer_insert(Unlink(w, next_t), next_t)
  /\ UNCHANGED <<ticks, current, now, phase, level, firing, view>>

\* The next level follows only when this one has wrapped too.
CascadeEnd ==
  /\ phase = "move"
  /\ next_t = NULL
  /\ IF ticks[level] % SLOTS = 0 /\ level < LEVELS - 1
     THEN phase' = "cascade" /\ level' = level + 1
     ELSE phase' = "scan" /\ level' = 0
  /\ UNCHANGED <<w, ticks, current, now, next_t, firing, view>>

LoopStep ==
  \/ DetachSlot
  \/ CaughtUp
  \/ WalkTimer
  \/ CallbackReturns
  \/ EndTick
  \/ CascadeDetach
  \/ CascadeMove
  \/ CascadeEnd

UserCall ==
  \/ rc_timer_add
  \/ \E t \in Timers : rc_timer_cancel(t)
  \/ \E t \in Timers : rc_timer_rearm(t)

Next == ProcessTimers \/ LoopStep \/ UserCall

Spec == Init /\ [][Next]_vars

\* The loop's thread keeps running and the callbacks return.
FairSpec == Spec /\ WF_vars(LoopStep)

-----------------------------------------------------------------------------
(***************************************************************************)
(* Properties.                                                             *)
(***************************************************************************)
\* The set of timers on the list that starts at h.
ListFrom(h) ==
  LET upto[n \in 0..TimerCount] ==
        IF n = 0 THEN {h} \ {NULL}
        ELSE upto[n - 1] \cup
               ({w.timer[t].next : t \in upto[n - 1]} \ {NULL})
  IN upto[TimerCount]

\* The lists do not share timers, and none of them runs in a circle.
Separate(heads) ==
  /\ \A h, k \in heads : h # k => ListFrom(h) \cap ListFrom(k) = {}
  /\ \A h \in heads : Cardinality({t \in ListFrom(h) : w.timer[t].next = NULL})
                        = (IF h = NULL THEN 0 ELSE 1)

(* The pool is never corrupted (timer_insert, timer_remove, the walk of     *)
(* process_timers and the free list): a timer is on the free list, on one   *)
(* list of the wheel, on the list being walked, or in its callback; prev    *)
(* links mirror next links; a timer that may be cancelled heads the list of *)
(* the cell in which timer_remove will look for it; and exactly the timers  *)
(* the callers wait for are armed.                                          *)
WheelSound ==
  LET inWheel == UNION {ListFrom(w.wheel[c]) : c \in Cells}
      heads == {w.wheel[c] : c \in Cells} \cup {w.free, next_t, firing}
      T(t) == w.timer[t]
  IN /\ Separate(heads)
     /\ \A c, d \in Cells : c # d /\ w.wheel[c] # NULL => w.wheel[c] # w.wheel[d]
     /\ UNION {ListFrom(h) : h \in heads} = Timers
     /\ \A t \in inWheel :
          /\ T(t).active
          /\ T(t).prev # NULL => T(T(t).prev).next = t
          /\ T(t).prev = NULL /\ t \notin long =>
               w.wheel[timer_slot(T(t).expiry)] = t
     /\ \A t \in Timers :
          due[t] # Unarmed <=> t \in inWheel \cup ListFrom(next_t)

(* Timers armed for less than one turn of level 0 keep the promise of the   *)
(* header (see TimerSet), whatever longer ones do meanwhile: they fire at   *)
(* their deadline on the loop's clock, once, and never after a cancel.      *)
Abstract == INSTANCE TimerSet WITH
  Nobody <- NULL,
  deadline <- [t \in Timers |-> IF t \in long THEN Unarmed ELSE due[t]],
  firing <- IF firing \in long THEN NULL ELSE firing,
  time <- current

ImplementsTimerSet == Abstract!TimerSetSpec

(* A pass of process_timers ends, whatever its callbacks add, and leaves no *)
(* timer below one turn of level 0 that was due by the clock it read.       *)
CatchesUp ==
  phase = "scan" ~>
    phase = "outside" /\ \A t \in Timers \ long : due[t] # Unarmed => due[t] > now
=============================================================================
