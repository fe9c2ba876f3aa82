------------------------------- MODULE Cubic -------------------------------
(* CUBIC congestion control and RTT estimation of one connection            *)
(* (src/core/rc_congestion.c), with the integer widths and the fixed-point  *)
(* divisions of the code.  The constants of rc_congestion.h are parameters. *)
(* Counters the code only reports (total_acked, ack_count, cwnd_prior,      *)
(* recovery_episodes, pacing_rate) are left out.                            *)
EXTENDS Integers

CONSTANTS
  W32,        \* 2^32: uint32_t arithmetic wraps here
  MSS,        \* RC_CUBIC_MSS
  INIT_CWND,  \* RC_CUBIC_INIT_CWND
  MIN_CWND,   \* RC_CUBIC_MIN_CWND
  BETA_SCALE, BETA, C_SCALE, C, FC_SCALE, FC_BETA,
  INIT_RTO, MIN_RTO, MAX_RTO,
  AckSizes,   \* bytes one ACK covers
  Rtts,       \* measured round-trip times, 0 for none
  MaxEvents   \* bound: ACKs and losses

ASSUME CubicAssumption ==
  /\ {W32, MSS, BETA, BETA_SCALE, MIN_RTO, MAX_RTO} \subseteq Nat \ {0}
  /\ MIN_CWND \in 1..INIT_CWND /\ INIT_CWND \in 1..W32 - 1
  /\ INIT_RTO \in MIN_RTO..MAX_RTO
  /\ MIN_RTO <= MIN_CWND   \* the floor of the timeout is compared with MIN_CWND
  /\ AckSizes \subseteq 1..W32 - 1
  /\ \A r \in Rtts : r \in Nat /\ 8 * r < W32   \* the EWMA stays within 32 bits

VARIABLES
  cc,      \* state, cwnd, ssthresh, w_max, k and t_sec
  rtt,     \* srtt, rtt_var, min_rtt and rto
  wrapped, \* the window has overflowed
  events

cubicVars == <<cc, rtt, wrapped, events>>

Larger(a, b) == IF a > b THEN a ELSE b

\* C's division truncates towards zero.
Quot(a, b) == IF a >= 0 THEN a \div b ELSE -((-a) \div b)

(***************************************************************************)
(* icbrt: the largest power of two whose cube is at most x, then Newton    *)
(* steps until the cube is exact, at most 20.                              *)
(***************************************************************************)
NewtonSteps == 20

\* Fault: the step divides by the guess instead of by its square.
NewtonStep_Fault(x, g) == (2 * g + x \div g) \div 3

NewtonStep(x, g) == (2 * g + x \div (g * g)) \div 3

icbrt(x) ==
  LET pow[i \in 0..20] == IF 2 ^ (3 * (i + 1)) > x THEN 2 ^ i ELSE pow[i + 1]
      guess[i \in 0..NewtonSteps] ==
        IF i = 0 THEN pow[0]
        ELSE LET g == guess[i - 1]
             IN IF g * g * g = x THEN g ELSE NewtonStep(x, g)
  IN IF x = 0 THEN 0 ELSE guess[NewtonSteps]

\* K = cbrt(W_max * (1 - beta) / C), as the code scales it.
KArgument(w) == (w * BETA_SCALE * (BETA_SCALE - BETA)) \div C
KOf(w) == icbrt(KArgument(w))

\* cubic_eval: C * (t - K)^3 + W_max, at least the minimum.
cubic_eval(t, k, w) ==
  LET diff == t - k
      value == w + Quot(diff * diff * diff * C, C_SCALE * BETA_SCALE)
  IN Larger(value, MIN_CWND) % W32

\* The TCP-friendly target, all of it in 32 bits, then times the MSS.
w_tcp(t, w) ==
  ((((w * BETA) % W32) \div BETA_SCALE) +
   (((3 * (BETA_SCALE - BETA) * t) % W32) \div ((BETA_SCALE + BETA) * BETA_SCALE)))
  * MSS % W32

CubicInit ==
  /\ cc = [state |-> "SLOW_START", cwnd |-> INIT_CWND, ssthresh |-> W32 - 1,
           w_max |-> 0, k |-> 0, t |-> 0]
  /\ rtt = [srtt |-> 0, var |-> 0, min |-> W32 - 1, rto |-> INIT_RTO]
  /\ wrapped = FALSE
  /\ events = 0

\* The window grows by n bytes, and wraps.
Grown(n) == [cc EXCEPT !.cwnd = (@ + n) % W32]

(* Slow start ends when the window reaches ssthresh, which is 2^32 - 1      *)
(* until the first loss.                                                    *)
SlowStart(bytes) ==
  LET g == Grown(bytes)
  IN IF g.cwnd >= g.ssthresh
     THEN [g EXCEPT !.state = "CONGESTION_AVOIDANCE", !.w_max = g.cwnd,
                    !.t = 0, !.k = KOf(g.cwnd)]
     ELSE g

Increment(bytes) ==
  LET t == (cc.t + 1) % W32
      target == Larger(cubic_eval(t, cc.k, cc.w_max), w_tcp(t, cc.w_max))
      step == ((MSS * bytes) % W32) \div cc.cwnd
  IN Larger(1, IF cc.cwnd < target THEN step ELSE step \div 2)

Avoidance(bytes) == [Grown(Increment(bytes)) EXCEPT !.t = (@ + 1) % W32]

Deviation(r) == IF rtt.srtt > r THEN rtt.srtt - r ELSE r - rtt.srtt

(* rc_cubic_update_rtt; the floor is applied below RC_CUBIC_MIN_CWND, a     *)
(* number of bytes.                                                         *)
Clamp(rto) ==
  LET raised == IF rto < MIN_CWND THEN MIN_RTO ELSE rto
  IN IF raised > MAX_RTO THEN MAX_RTO ELSE raised

update_rtt(r) ==
  LET srtt == IF rtt.srtt = 0 THEN r ELSE (7 * rtt.srtt + r) \div 8
      var == IF rtt.srtt = 0 THEN r \div 2 ELSE (3 * rtt.var + Deviation(r)) \div 4
  IN IF r = 0 THEN rtt
     ELSE [srtt |-> srtt, var |-> var,
           min |-> IF r < rtt.min THEN r ELSE rtt.min,
           rto |-> Clamp(srtt + 4 * var)]

\* rc_cubic_on_ack.  Dividing by a window of 0 bytes ends the process.
OnAck(bytes, r) ==
  /\ events < MaxEvents
  /\ events' = events + 1
  /\ cc.state # "TRAP"
  /\ rtt' = update_rtt(r)
  /\ cc' = CASE cc.state = "SLOW_START" -> SlowStart(bytes)
             [] cc.state = "CONGESTION_AVOIDANCE" /\ cc.cwnd = 0 ->
                  [cc EXCEPT !.state = "TRAP"]
             [] cc.state = "CONGESTION_AVOIDANCE" /\ cc.cwnd # 0 -> Avoidance(bytes)
             [] cc.state = "FAST_RECOVERY" -> Grown(bytes)
  /\ wrapped' = (wrapped \/ cc'.cwnd < cc.cwnd)

\* Fault: the window is cut without regard to the minimum.
Decreased_Fault == (cc.cwnd * BETA) \div BETA_SCALE

\* Multiplicative decrease.
Decreased == Larger((cc.cwnd * BETA) \div BETA_SCALE, MIN_CWND)

\* rc_cubic_on_loss, with fast convergence of w_max.
OnLoss ==
  LET w == IF cc.w_max > 0 /\ cc.cwnd < cc.w_max
           THEN (cc.cwnd * (BETA_SCALE + FC_BETA)) \div (2 * FC_SCALE)
           ELSE cc.cwnd
  IN /\ events < MaxEvents
     /\ events' = events + 1
     /\ cc.state # "TRAP"
     /\ cc' = [state |-> "FAST_RECOVERY", cwnd |-> Decreased, ssthresh |-> Decreased,
               w_max |-> w, k |-> KOf(w), t |-> 0]
     /\ UNCHANGED <<rtt, wrapped>>

CubicNext ==
  \/ \E bytes \in AckSizes, r \in Rtts : OnAck(bytes, r)
  \/ OnLoss

CubicSpec == CubicInit /\ [][CubicNext]_cubicVars

-----------------------------------------------------------------------------
(* Window and timer keep their bounds under any mix of ACKs, losses and     *)
(* samples: unless its 32 bits have overflowed the window never falls below *)
(* one segment and congestion avoidance never divides by zero               *)
(* (rc_cubic_on_ack, rc_cubic_on_loss); the smoothed RTT is at least the    *)
(* smallest sample and the timeout in its range (rc_cubic_update_rtt).      *)
BoundsKept ==
  /\ ~wrapped => cc.cwnd >= MIN_CWND /\ cc.state # "TRAP"
  /\ rtt.srtt # 0 => rtt.srtt >= rtt.min
  /\ rtt.rto \in MIN_RTO..MAX_RTO

(* K is the cube root that belongs to the W_max in use, to within one       *)
(* (icbrt against its definition), after any mix of ACKs and losses.        *)
KIsCubeRoot ==
  LET x == KArgument(cc.w_max)
      k == cc.k
  IN /\ (k + 1) ^ 3 > x
     /\ k > 0 => (k - 1) ^ 3 <= x
=============================================================================
