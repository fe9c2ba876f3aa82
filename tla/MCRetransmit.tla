---------------------------- MODULE MCRetransmit ----------------------------
(* The retransmission queue with all constants given in the configurations. *)
EXTENDS Retransmit
=============================================================================
