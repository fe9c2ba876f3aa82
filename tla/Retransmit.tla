----------------------------- MODULE Retransmit -----------------------------
(***************************************************************************)
(* The retransmission queue (src/core/rc_retransmit.c): a circular buffer  *)
(* of copies of sent packets, drained by cumulative ACKs, marked by SACK   *)
(* blocks and scanned for losses.  The sender that calls it, the network   *)
(* and the receiver are its environment: the network loses, duplicates and *)
(* reorders packets and ACKs, the receiver acknowledges what it has.       *)
(*                                                                         *)
(* head and tail are 32-bit counters used only modulo RC_RETX_QUEUE_MAX,   *)
(* which divides 2^32: they are represented by that remainder.  Of an      *)
(* entry's sent_ts_ms only the age matters, up to the largest RTO it is    *)
(* compared with.  No operation reads a slot outside the queue except for  *)
(* its pkt_data, so such a slot is NoEntry.  Of the stored SACK blocks     *)
(* only the left edges are read.                                           *)
(***************************************************************************)
EXTENDS Integers, FiniteSets

CONSTANTS
  QueueMax,      \* RC_RETX_QUEUE_MAX
  MaxRto,        \* RC_MAX_RTO_MS
  InitRtos,      \* values of conn->cubic.rto when a packet is sent
  DupThresh,     \* RC_DUP_ACK_THRESH
  MaxSack,       \* RC_MAX_SACK_BLOCKS
  MaxRetrans,    \* size of the array given to detect_loss
  MaxSeq,        \* bound: packets ever sent
  MaxAcks        \* bound: ACKs and SACKs in flight

ASSUME RetransmitConstants ==
  /\ QueueMax \in Nat \ {0}
  /\ MaxRto \in Nat \ {0}
  /\ InitRtos \subseteq 1 .. MaxRto
  /\ DupThresh \in Nat
  /\ MaxSack \in Nat
  /\ MaxRetrans \in Nat
  /\ MaxSeq \in Nat
  /\ MaxAcks \in Nat

Seqs == 1 .. MaxSeq
Slots == 0 .. QueueMax - 1

VARIABLES
  entries, head, tail, count,    \* the circular buffer
  dup_ack_count, dup_ack_seq,    \* duplicate ACKs
  sack_edges,                    \* left edges of sack_blocks
  next_seq,                      \* sender: next sequence number
  wire,                          \* network: packets in flight
  acks,                          \* network: ACKs and SACKs in flight
  received                       \* receiver: what has arrived

queue == <<entries, head, tail, count>>
retx  == <<queue, dup_ack_count, dup_ack_seq, sack_edges>>
vars  == <<retx, next_seq, wire, acks, received>>

Entry == [seq : Seqs, age : 0 .. MaxRto, rto : 1 .. MaxRto,
          acked : BOOLEAN, sacked : BOOLEAN, data : {TRUE}]
NoEntry == [seq |-> 0, age |-> 0, rto |-> 0,
            acked |-> FALSE, sacked |-> FALSE, data |-> FALSE]

-----------------------------------------------------------------------------
(* The queue *)

\* Slot i places after slot h.
At(h, i) == IF h + i < QueueMax THEN h + i ELSE h + i - QueueMax

\* The entries, oldest first.
Positions == 0 .. count - 1
E(i) == entries[At(head, i)]

\* The first k members of S, in the order of the queue.
FirstK(S, k) == {i \in S : Cardinality({j \in S : j < i}) < k}

\* Fault: a full queue is not noticed.
HasRoom_Fault == count <= QueueMax

\* rc_retx_enqueue refuses a packet when the queue is full.
HasRoom == count < QueueMax

\* rc_retransmit_record_sent for a reliable packet: rc_retx_enqueue with the
\* RTO of the connection.  The sender transmits what it could record; when the
\* queue is full or malloc fails nothing of the queue changes.
RecordSent(rto) ==
  /\ next_seq <= MaxSeq
  /\ HasRoom
  /\ entries' = [entries EXCEPT ![tail] =
       [seq |-> next_seq, age |-> 0, rto |-> rto,
        acked |-> FALSE, sacked |-> FALSE, data |-> TRUE]]
  /\ tail' = At(tail, 1)
  /\ count' = count + 1
  /\ next_seq' = next_seq + 1
  /\ wire' = wire \cup {next_seq}
  /\ UNCHANGED <<head, dup_ack_count, dup_ack_seq, sack_edges, acks, received>>

-----------------------------------------------------------------------------
(* Acknowledgements *)

\* What the receiver reports: the cumulative ACK and all it has.
Messages == [type : {"ack", "sack"}, cum : 0 .. MaxSeq, has : SUBSET Seqs]

\* n is the cumulative ACK of a receiver that has R.
IsCumAck(R, n) == 1 .. n \subseteq R /\ n + 1 \notin R

\* Left edges of the SACK blocks of m, as many as process_sack looks at.
LeftEdges(m) == FirstK({s \in m.has : s > m.cum + 1 /\ s - 1 \notin m.has}, MaxSack)

\* s is in one of these blocks.
InBlock(m, s) == \E l \in LeftEdges(m) : l <= s /\ l .. s \subseteq m.has

\* Position i is acknowledged once the scan of process_ack has run.
AckedBy(i, ack) == E(i).acked \/ E(i).seq <= ack

\* Fault: the drain takes at most one entry.
Drained_Fault(n, ack) == n = (IF count > 0 /\ AckedBy(0, ack) THEN 1 ELSE 0)

\* The drain removes the n oldest entries: all that precede the first one that
\* is not acknowledged.
Drained(n, ack) ==
  /\ n \in 0 .. count
  /\ \A i \in 0 .. n - 1 : AckedBy(i, ack)
  /\ n < count => ~AckedBy(n, ack)

\* A drained entry: pkt_data is freed and NULL.
Freed(e) == NoEntry

\* Duplicate-ACK tracking, after the drain left the queue with `left` entries.
\* The counter is only compared with DupThresh and stops there.
TrackDupAck(newly, left, ack) ==
  IF newly = {} /\ left > 0
  THEN /\ dup_ack_seq' = ack
       /\ dup_ack_count' = IF ack # dup_ack_seq THEN 1
                           ELSE IF dup_ack_count < DupThresh THEN dup_ack_count + 1
                           ELSE dup_ack_count
  ELSE /\ dup_ack_count' = 0
       /\ UNCHANGED dup_ack_seq

\* A message is delivered for the last time, or a copy of it stays in flight.
Consume(m) == acks' = acks \/ acks' = acks \ {m}

\* rc_retx_process_ack
ProcessAck(m) ==
  LET ack == m.cum IN
  /\ m.type = "ack"
  /\ \E n \in 0 .. count :
       /\ Drained(n, ack)
       /\ entries' = [k \in Slots |->
            IF \E i \in 0 .. n - 1 : k = At(head, i) THEN Freed(entries[k])
            ELSE IF \E i \in n .. count - 1 : k = At(head, i) /\ AckedBy(i, ack)
            THEN [entries[k] EXCEPT !.acked = TRUE]
            ELSE entries[k]]
       /\ head' = At(head, n)
       /\ count' = count - n
       /\ TrackDupAck({i \in Positions : ~E(i).acked /\ E(i).seq <= ack}, count - n, ack)
  /\ Consume(m)
  /\ UNCHANGED <<tail, sack_edges, next_seq, wire, received>>

\* Fault: a block is taken to include its right edge.
SackedBy_Fault(m, s) == InBlock(m, s) \/ InBlock(m, s - 1)

\* One of the blocks covers sequence number s.
SackedBy(m, s) == InBlock(m, s)

\* rc_retx_process_sack
ProcessSack(m) ==
  /\ m.type = "sack"
  /\ sack_edges' = LeftEdges(m)
  /\ entries' = [k \in Slots |->
       IF /\ \E i \in Positions : k = At(head, i)
          /\ ~entries[k].acked
          /\ SackedBy(m, entries[k].seq)
       THEN [entries[k] EXCEPT !.sacked = TRUE]
       ELSE entries[k]]
  /\ Consume(m)
  /\ UNCHANGED <<head, tail, count, dup_ack_count, dup_ack_seq, next_seq, wire, received>>

-----------------------------------------------------------------------------
(* Loss detection *)

Missing == {i \in Positions : ~E(i).acked /\ ~E(i).sacked}

\* Fast retransmit: one packet, the first missing beyond the duplicate ACK.
FastPass ==
  IF dup_ack_count >= DupThresh /\ MaxRetrans > 0
  THEN FirstK({i \in Missing : E(i).seq > dup_ack_seq}, 1)
  ELSE {}

\* SACK holes that are at least half an RTO old.
HolePass ==
  FirstK({i \in Missing : /\ \E l \in sack_edges : l > E(i).seq
                          /\ E(i).age >= E(i).rto \div 2},
         MaxRetrans - Cardinality(FastPass))

\* Fault: the scan starts after the oldest entry.
TimeoutPass_Fault ==
  FirstK({i \in Missing \ (FastPass \cup HolePass) : i > 0 /\ E(i).age >= E(i).rto},
         MaxRetrans - Cardinality(FastPass) - Cardinality(HolePass))

\* Packets older than their RTO that the other passes did not list.
TimeoutPass ==
  FirstK({i \in Missing \ (FastPass \cup HolePass) : E(i).age >= E(i).rto},
         MaxRetrans - Cardinality(FastPass) - Cardinality(HolePass))

\* Fault: the doubled RTO is not compared with the maximum.
Backoff_Fault(rto) == rto * 2

Backoff(rto) == IF rto < MaxRto \div 2 THEN rto * 2 ELSE MaxRto

\* rc_retx_detect_loss, and the caller that sends the listed packets again.
DetectLoss ==
  LET listed == FastPass \cup HolePass \cup TimeoutPass IN
  /\ entries' = [k \in Slots |->
       IF \E i \in TimeoutPass : k = At(head, i)
       THEN [entries[k] EXCEPT !.rto = Backoff(@), !.age = 0]
       ELSE entries[k]]
  /\ dup_ack_count' = IF dup_ack_count >= DupThresh THEN 0 ELSE dup_ack_count
  /\ wire' = wire \cup {E(i).seq : i \in listed}
  /\ UNCHANGED <<head, tail, count, dup_ack_seq, sack_edges, next_seq, acks, received>>

-----------------------------------------------------------------------------
(* Environment *)

\* Time passes.
Tick ==
  /\ \E k \in Slots : entries[k].data /\ entries[k].age < MaxRto
  /\ entries' = [k \in Slots |->
       IF entries[k].data /\ entries[k].age < MaxRto
       THEN [entries[k] EXCEPT !.age = @ + 1] ELSE entries[k]]
  /\ UNCHANGED <<head, tail, count, dup_ack_count, dup_ack_seq, sack_edges,
                 next_seq, wire, acks, received>>

\* A packet arrives, possibly leaving a duplicate in flight, and is
\* acknowledged.  Any ACK or SACK in flight may be lost by then.
Deliver(s) ==
  /\ s \in wire
  /\ received' = received \cup {s}
  /\ \E n \in 0 .. MaxSeq :
       /\ IsCumAck(received', n)
       /\ acks' \in SUBSET (acks \cup [type : {"ack", "sack"}, cum : {n}, has : {received'}])
  /\ Cardinality(acks') <= MaxAcks
  /\ wire' = wire \/ wire' = wire \ {s}
  /\ UNCHANGED <<retx, next_seq>>

Lose(s) ==
  /\ s \in wire
  /\ wire' = wire \ {s}
  /\ UNCHANGED <<retx, next_seq, acks, received>>

Init ==
  /\ entries = [k \in Slots |-> NoEntry]
  /\ head = 0
  /\ tail = 0
  /\ count = 0
  /\ dup_ack_count = 0
  /\ dup_ack_seq = 0
  /\ sack_edges = {}
  /\ next_seq = 1
  /\ wire = {}
  /\ acks = {}
  /\ received = {}

Next ==
  \/ \E rto \in InitRtos : RecordSent(rto)
  \/ \E m \in acks : ProcessAck(m)
  \/ \E m \in acks : ProcessSack(m)
  \/ DetectLoss
  \/ Tick
  \/ \E s \in wire : Deliver(s)
  \/ \E s \in wire : Lose(s)

Spec == Init /\ [][Next]_vars

\* Time passes, the sender polls detect_loss, and the network is fair: what is
\* sent again and again arrives.
Fairness ==
  /\ WF_vars(Tick)
  /\ WF_vars(DetectLoss)
  /\ \A s \in Seqs : SF_vars(Deliver(s) /\ \E m \in acks' : m.type = "ack" /\ m.has = received')
  /\ \A s \in Seqs : SF_vars(\E m \in acks : m.cum >= s /\ ProcessAck(m))

FairSpec == Spec /\ Fairness

-----------------------------------------------------------------------------
(* Properties *)

\* Types of the queue, the duplicate-ACK state, the network and the receiver.
TypeOK ==
  /\ entries \in [Slots -> Entry \cup {NoEntry}]
  /\ head \in Slots
  /\ tail \in Slots
  /\ count \in 0 .. QueueMax
  /\ dup_ack_count \in 0 .. DupThresh + 1
  /\ dup_ack_seq \in 0 .. MaxSeq
  /\ sack_edges \subseteq Seqs
  /\ next_seq \in 1 .. MaxSeq + 1
  /\ wire \subseteq Seqs
  /\ acks \subseteq Messages
  /\ received \subseteq Seqs

\* The circular buffer is consistent across wrap-around: tail is count places
\* after head, and exactly the slots between them own a packet copy, so an
\* enqueue never overwrites a queued packet, and destroy frees each copy once.
QueueShape ==
  /\ tail = At(head, count)
  /\ \A k \in Slots : entries[k].data <=> \E i \in Positions : k = At(head, i)

\* The queue holds the most recently sent packets, in order, with none missing.
QueueIsSuffix == \A i \in Positions : E(i).seq = next_seq - count + i

\* A packet leaves the queue, or is marked acknowledged or SACKed and so never
\* sent again, only if the receiver has it, however ACKs are lost, duplicated
\* or reordered.
NothingLost ==
  /\ \A s \in 1 .. next_seq - 1 - count : s \in received
  /\ \A i \in Positions : (E(i).acked \/ E(i).sacked) => E(i).seq \in received

\* process_ack drains everything it acknowledges: no acknowledged packet stays
\* behind in the queue and takes up room.
NoAckedBacklog == \A i \in Positions : ~E(i).acked

\* What a step may do to the RTO of a packet that stays queued.
BackoffStep ==
  \A k \in Slots : entries[k].data /\ entries'[k].seq = entries[k].seq =>
    /\ entries'[k].rto >= entries[k].rto
    /\ entries'[k].rto <= MaxRto
    /\ entries'[k].rto # entries[k].rto => entries'[k].age = 0

\* As long as a packet is queued its RTO only grows, never beyond the maximum,
\* and grows only when a timeout restarts its clock.
BackoffMonotone == [][BackoffStep]_vars

\* Every packet that was recorded eventually leaves the queue, although packets
\* and ACKs are lost and detect_loss lists only MaxRetrans packets at a time.
QueueDrains == \A s \in Seqs : (next_seq > s) ~> (\A k \in Slots : entries[k].seq # s)

=============================================================================
