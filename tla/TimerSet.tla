------------------------------ MODULE TimerSet ------------------------------
(* What the timer half of the event loop promises its callers               *)
(* (include/rc_epoll.h:215-242): each armed timer has a deadline, the clock *)
(* (in milliseconds) never passes the deadline of an armed timer, and a     *)
(* timer's callback runs at its deadline, once for each arming and never    *)
(* after it has been cancelled.                                             *)
EXTENDS Integers

CONSTANTS Timers, Nobody

VARIABLES
  deadline,  \* per timer, when the caller expects it, or Unarmed
  firing,    \* the timer whose callback is running, or Nobody
  time

Unarmed == -1

Armed == {t \in Timers : deadline[t] # Unarmed}

TimerSetInit ==
  /\ deadline = [t \in Timers |-> Unarmed]
  /\ firing = Nobody
  /\ time \in Nat

\* Any deadline, for this timer only.
SetDeadline(t) ==
  /\ deadline'[t] \in Nat
  /\ deadline' = [deadline EXCEPT ![t] = deadline'[t]]

\* rc_timer_add and rc_timer_rearm.
Arm(t) ==
  /\ SetDeadline(t)
  /\ deadline'[t] >= time
  /\ UNCHANGED <<firing, time>>

\* rc_timer_cancel.
Cancel(t) ==
  /\ t \in Armed
  /\ deadline' = [deadline EXCEPT ![t] = Unarmed]
  /\ UNCHANGED <<firing, time>>

\* The callback is called at the deadline, with the timer no longer armed.
Fire(t) ==
  /\ firing = Nobody
  /\ deadline[t] = time
  /\ deadline' = [deadline EXCEPT ![t] = Unarmed]
  /\ firing' = t
  /\ UNCHANGED time

\* The callback returns; a repeating timer is armed again.
Return ==
  /\ firing # Nobody
  /\ \/ UNCHANGED deadline
     \/ SetDeadline(firing) /\ deadline'[firing] > time
  /\ firing' = Nobody
  /\ UNCHANGED time

\* Time passes only between callbacks and when nothing is due.
Advance ==
  /\ firing = Nobody
  /\ \A t \in Armed : deadline[t] > time
  /\ time' = time + 1
  /\ UNCHANGED <<deadline, firing>>

TimerSetNext ==
  \/ \E t \in Timers : Arm(t) \/ Cancel(t) \/ Fire(t)
  \/ Return
  \/ Advance

TimerSetSpec == TimerSetInit /\ [][TimerSetNext]_<<deadline, firing, time>>
=============================================================================
