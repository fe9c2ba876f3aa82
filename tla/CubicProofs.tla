---------------------------- MODULE CubicProofs ----------------------------
(* The bounds of the congestion window and of the retransmission timeout,   *)
(* for every choice of the constants of rc_congestion.h that meets          *)
(* CubicAssumption, every acknowledgement size and every RTT sample.        *)
EXTENDS Cubic, TLAPS

States == {"SLOW_START", "CONGESTION_AVOIDANCE", "FAST_RECOVERY", "TRAP"}

\* cc is a record of its six fields; the values of k, t, w_max and ssthresh do
\* not matter to the bounds.
TypeInv ==
  /\ cc = [state |-> cc.state, cwnd |-> cc.cwnd, ssthresh |-> cc.ssthresh,
           w_max |-> cc.w_max, k |-> cc.k, t |-> cc.t]
  /\ cc.state \in States
  /\ cc.cwnd \in Nat
  /\ rtt \in [srtt : Nat, var : Nat, min : Nat, rto : Nat]
  /\ wrapped \in BOOLEAN

\* The smoothed RTT starts at a sample, so min is a sample once srtt is set.
IInv == TypeInv /\ BoundsKept

LEMMA InitHolds == CubicInit => IInv
<1> SUFFICES ASSUME CubicInit PROVE IInv
  OBVIOUS
<1>1. W32 - 1 \in Nat /\ INIT_CWND \in Nat /\ INIT_CWND >= MIN_CWND /\ INIT_RTO \in Nat
      /\ INIT_RTO \in MIN_RTO..MAX_RTO
  BY CubicAssumption
<1>2. TypeInv
  BY <1>1 DEF CubicInit, TypeInv, States
<1>3. BoundsKept
  BY <1>1 DEF CubicInit, BoundsKept
<1> QED BY <1>2, <1>3 DEF IInv

\* rc_cubic_update_rtt keeps the estimate above the smallest sample and the
\* timeout in its range.
LEMMA SampleStep ==
  ASSUME IInv, NEW r \in Rtts, rtt' = update_rtt(r)
  PROVE  /\ rtt' \in [srtt : Nat, var : Nat, min : Nat, rto : Nat]
         /\ rtt'.srtt # 0 => rtt'.srtt >= rtt'.min
         /\ rtt'.rto \in MIN_RTO..MAX_RTO
<1>1. r \in Nat /\ MIN_RTO \in Nat /\ MAX_RTO \in Nat /\ MIN_CWND \in Nat /\ MIN_RTO <= MIN_CWND
      /\ MIN_RTO <= MAX_RTO
  BY CubicAssumption
<1>2. /\ rtt \in [srtt : Nat, var : Nat, min : Nat, rto : Nat]
      /\ rtt.srtt # 0 => rtt.srtt >= rtt.min
      /\ rtt.rto \in MIN_RTO..MAX_RTO
  BY DEF IInv, TypeInv, BoundsKept
<1>3. CASE r = 0
  BY <1>2, <1>3 DEF update_rtt
<1>4. CASE r # 0
  <2> DEFINE srtt == IF rtt.srtt = 0 THEN r ELSE (7 * rtt.srtt + r) \div 8
             var == IF rtt.srtt = 0 THEN r \div 2 ELSE (3 * rtt.var + Deviation(r)) \div 4
             min == IF r < rtt.min THEN r ELSE rtt.min
  <2>1. rtt' = [srtt |-> srtt, var |-> var, min |-> min, rto |-> Clamp(srtt + 4 * var)]
    BY <1>4 DEF update_rtt
  <2>2. Deviation(r) \in Nat
    BY <1>1, <1>2 DEF Deviation
  <2>3. srtt \in Nat /\ var \in Nat /\ min \in Nat
    BY <1>1, <1>2, <2>2
  <2>4. srtt >= min
    BY <1>1, <1>2
  <2> HIDE DEF srtt, var, min
  <2>5. Clamp(srtt + 4 * var) \in MIN_RTO..MAX_RTO
    BY <1>1, <2>3 DEF Clamp
  <2> QED BY <1>1, <2>1, <2>3, <2>4, <2>5
<1> QED BY <1>3, <1>4

\* Growing the window either keeps it above what it was or is an overflow.
LEMMA GrownStep ==
  ASSUME TypeInv, NEW n \in Nat
  PROVE  LET g == Grown(n)
         IN /\ g = [state |-> cc.state, cwnd |-> g.cwnd, ssthresh |-> cc.ssthresh,
                    w_max |-> cc.w_max, k |-> cc.k, t |-> cc.t]
            /\ g.cwnd \in Nat
<1>1. (cc.cwnd + n) % W32 \in Nat
  BY CubicAssumption DEF TypeInv
<1> QED BY <1>1 DEF Grown, TypeInv

\* What an acknowledgement does to the window.
LEMMA AckWindow ==
  ASSUME IInv, NEW bytes \in AckSizes, NEW r \in Rtts, OnAck(bytes, r)
  PROVE  /\ cc' = [state |-> cc'.state, cwnd |-> cc'.cwnd, ssthresh |-> cc'.ssthresh,
                   w_max |-> cc'.w_max, k |-> cc'.k, t |-> cc'.t]
         /\ cc'.state \in States
         /\ cc'.cwnd \in Nat
         /\ cc'.state = "TRAP" => cc.cwnd = 0
<1>1. TypeInv /\ bytes \in Nat /\ cc.state # "TRAP"
  BY CubicAssumption DEF IInv, OnAck
<1>2. CASE cc.state = "SLOW_START"
  <2> DEFINE g == Grown(bytes)
  <2>1. cc' = SlowStart(bytes)
    BY <1>2 DEF OnAck
  <2>2. /\ g = [state |-> cc.state, cwnd |-> g.cwnd, ssthresh |-> cc.ssthresh,
                w_max |-> cc.w_max, k |-> cc.k, t |-> cc.t]
        /\ g.cwnd \in Nat
    BY <1>1, GrownStep
  <2>3. cc' \in {g, [g EXCEPT !.state = "CONGESTION_AVOIDANCE", !.w_max = g.cwnd,
                              !.t = 0, !.k = KOf(g.cwnd)]}
    BY <2>1 DEF SlowStart
  <2> HIDE DEF g
  <2>4. CASE cc' = g
    BY <1>2, <2>2, <2>4 DEF States
  <2>5. CASE cc' = [g EXCEPT !.state = "CONGESTION_AVOIDANCE", !.w_max = g.cwnd,
                             !.t = 0, !.k = KOf(g.cwnd)]
    <3>1. PICK c \in Nat : g = [state |-> cc.state, cwnd |-> c, ssthresh |-> cc.ssthresh,
                                w_max |-> cc.w_max, k |-> cc.k, t |-> cc.t]
      BY <2>2
    <3>2. PICK root : cc' = [g EXCEPT !.state = "CONGESTION_AVOIDANCE", !.w_max = c,
                                      !.t = 0, !.k = root]
      BY <2>5, <3>1
    <3>3. cc' = [state |-> "CONGESTION_AVOIDANCE", cwnd |-> c, ssthresh |-> cc.ssthresh,
                 w_max |-> c, k |-> root, t |-> 0]
      BY <3>1, <3>2
    <3> QED BY <3>3 DEF States
  <2> QED BY <2>3, <2>4, <2>5
<1>3. CASE cc.state = "CONGESTION_AVOIDANCE" /\ cc.cwnd = 0
  <2>1. cc' = [cc EXCEPT !.state = "TRAP"]
    BY <1>3 DEF OnAck
  <2> QED BY <1>1, <1>3, <2>1 DEF TypeInv, States
<1>4. CASE cc.state = "CONGESTION_AVOIDANCE" /\ cc.cwnd # 0
  <2> DEFINE step == ((MSS * bytes) % W32) \div cc.cwnd
             g == Grown(Increment(bytes))
  <2>1. cc' = [g EXCEPT !.t = (@ + 1) % W32]
    BY <1>4 DEF OnAck, Avoidance
  <2>2. step \in Nat
    <3>1. (MSS * bytes) % W32 \in Nat
      BY <1>1, CubicAssumption
    <3> QED BY <1>1, <1>4, <3>1 DEF TypeInv
  <2>3. Increment(bytes) \in {Larger(1, step), Larger(1, step \div 2)}
    BY DEF Increment
  <2> HIDE DEF step
  <2>4. Increment(bytes) \in Nat
    BY <2>2, <2>3 DEF Larger
  <2>5. /\ g = [state |-> cc.state, cwnd |-> g.cwnd, ssthresh |-> cc.ssthresh,
                w_max |-> cc.w_max, k |-> cc.k, t |-> cc.t]
        /\ g.cwnd \in Nat
    BY <1>1, <2>4, GrownStep
  <2> HIDE DEF g
  <2> QED BY <1>4, <2>1, <2>5 DEF States
<1>5. CASE cc.state = "FAST_RECOVERY"
  <2>1. cc' = Grown(bytes)
    BY <1>5 DEF OnAck
  <2> QED BY <1>1, <1>5, <2>1, GrownStep DEF States
<1> QED BY <1>1, <1>2, <1>3, <1>4, <1>5 DEF TypeInv, States

LEMMA AckStep ==
  ASSUME IInv, NEW bytes \in AckSizes, NEW r \in Rtts, OnAck(bytes, r)
  PROVE  IInv'
<1>1. rtt' = update_rtt(r) /\ wrapped' = (wrapped \/ cc'.cwnd < cc.cwnd)
  BY DEF OnAck
<1>2. /\ rtt' \in [srtt : Nat, var : Nat, min : Nat, rto : Nat]
      /\ rtt'.srtt # 0 => rtt'.srtt >= rtt'.min
      /\ rtt'.rto \in MIN_RTO..MAX_RTO
  BY <1>1, SampleStep
<1>3. wrapped' \in BOOLEAN
  BY <1>1
<1>4. ASSUME ~wrapped' PROVE cc'.cwnd >= MIN_CWND /\ cc'.state # "TRAP"
  <2>1. ~wrapped /\ ~(cc'.cwnd < cc.cwnd)
    BY <1>1, <1>4
  <2>2. cc.cwnd >= MIN_CWND
    BY <2>1 DEF IInv, BoundsKept
  <2> QED BY <2>1, <2>2, AckWindow, CubicAssumption DEF IInv, TypeInv
<1> QED BY <1>2, <1>3, <1>4, AckWindow DEF IInv, TypeInv, BoundsKept

LEMMA LossStep ==
  ASSUME IInv, OnLoss
  PROVE  IInv'
<1>1. PICK w, k : cc' = [state |-> "FAST_RECOVERY", cwnd |-> Decreased, ssthresh |-> Decreased,
                         w_max |-> w, k |-> k, t |-> 0]
  BY DEF OnLoss
<1>2. UNCHANGED <<rtt, wrapped>>
  BY DEF OnLoss
<1>3. cc.cwnd * BETA \in Nat /\ BETA_SCALE \in Nat \ {0} /\ MIN_CWND \in Nat
  BY CubicAssumption DEF IInv, TypeInv
<1>4. (cc.cwnd * BETA) \div BETA_SCALE \in Nat
  BY <1>3
<1>5. Decreased \in Nat /\ Decreased >= MIN_CWND
  BY <1>3, <1>4 DEF Decreased, Larger
<1> QED BY <1>1, <1>2, <1>5 DEF IInv, TypeInv, BoundsKept, States

(* The window never falls below a segment and congestion avoidance never    *)
(* divides by zero unless 32 bits overflowed, and the timeout stays in its  *)
(* range (rc_cubic_on_ack, rc_cubic_on_loss, rc_cubic_update_rtt), for any  *)
(* number of ACKs and losses.                                               *)
THEOREM BoundsKeptHolds == CubicSpec => []BoundsKept
<1>1. ASSUME IInv, [CubicNext]_cubicVars PROVE IInv'
  <2>1. CASE UNCHANGED cubicVars
    BY <1>1, <2>1 DEF cubicVars, IInv, TypeInv, BoundsKept
  <2> QED BY <1>1, <2>1, AckStep, LossStep DEF CubicNext
<1>2. CubicSpec => []IInv
  BY <1>1, InitHolds, PTL DEF CubicSpec
<1>3. IInv => BoundsKept
  BY DEF IInv
<1> QED BY <1>2, <1>3, PTL
=============================================================================
