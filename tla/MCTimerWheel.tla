---------------------------- MODULE MCTimerWheel ----------------------------
(* The timer wheel with all constants given in the configurations. *)
EXTENDS TimerWheel
=============================================================================
