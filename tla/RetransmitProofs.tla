-------------------------- MODULE RetransmitProofs --------------------------
(***************************************************************************)
(* Proofs about the retransmission queue, for every queue size, RTO range, *)
(* threshold and number of packets: the circular buffer stays consistent,  *)
(* it holds the packets sent last, and no packet leaves it, or is marked   *)
(* so that it is never sent again, before the receiver has it.             *)
(***************************************************************************)
EXTENDS Retransmit, TLAPS

-----------------------------------------------------------------------------
(* The inductive invariant *)

\* What is in flight is true: packets were sent, and ACKs report no more than
\* the receiver has.
EnvironmentHonest ==
  /\ wire \subseteq 1 .. next_seq - 1
  /\ received \subseteq 1 .. next_seq - 1
  /\ \A m \in acks : 1 .. m.cum \subseteq received /\ m.has \subseteq received
  /\ count <= next_seq - 1

IInv ==
  /\ TypeOK
  /\ QueueShape
  /\ QueueIsSuffix
  /\ NothingLost
  /\ NoAckedBacklog
  /\ EnvironmentHonest

-----------------------------------------------------------------------------
(* Circular indices *)

\* A place at most QueueMax slots after a slot is a slot.
LEMMA AtType ==
  ASSUME NEW h \in Slots, NEW i \in 0 .. QueueMax
  PROVE  At(h, i) \in Slots
BY RetransmitConstants DEF Slots, At

\* Going n places on and then i places is going n + i places on.
LEMMA AtAdd ==
  ASSUME NEW h \in Slots, NEW n \in 0 .. QueueMax, NEW i \in 0 .. QueueMax,
         n + i <= QueueMax
  PROVE  At(At(h, n), i) = At(h, n + i)
BY RetransmitConstants DEF Slots, At

\* Different places of the queue are different slots.
LEMMA AtInjective ==
  ASSUME NEW h \in Slots, NEW i \in 0 .. QueueMax - 1, NEW j \in 0 .. QueueMax - 1,
         At(h, i) = At(h, j)
  PROVE  i = j
BY RetransmitConstants DEF Slots, At

-----------------------------------------------------------------------------
(* Preservation, action by action *)

\* rc_retx_create establishes the invariant.
LEMMA InitIInv == Init => IInv
<1> SUFFICES ASSUME Init PROVE IInv
  OBVIOUS
<1> USE RetransmitConstants DEF Init, Slots, Positions, At
<1>1. TypeOK
  BY DEF TypeOK, NoEntry, Seqs
<1>2. QueueShape /\ QueueIsSuffix /\ NoAckedBacklog
  BY DEF QueueShape, QueueIsSuffix, NoAckedBacklog, NoEntry
<1>3. NothingLost /\ EnvironmentHonest
  BY DEF NothingLost, EnvironmentHonest
<1> QED
  BY <1>1, <1>2, <1>3 DEF IInv

\* rc_retx_record_sent appends a packet to the ring.
LEMMA RecordSentIInv ==
  ASSUME IInv, NEW rto \in InitRtos, RecordSent(rto)
  PROVE  IInv'
<1> USE RetransmitConstants
<1> DEFINE new == [seq |-> next_seq, age |-> 0, rto |-> rto,
                   acked |-> FALSE, sacked |-> FALSE, data |-> TRUE]
<1>0. /\ TypeOK /\ head \in Slots /\ tail \in Slots /\ count \in 0 .. QueueMax - 1
      /\ next_seq \in Seqs /\ tail = At(head, count)
      /\ entries \in [Slots -> Entry \cup {NoEntry}]
  BY DEF IInv, TypeOK, QueueShape, RecordSent, HasRoom, Seqs
<1>1. /\ entries' = [entries EXCEPT ![tail] = new]
      /\ tail' = At(tail, 1) /\ head' = head /\ count' = count + 1
      /\ next_seq' = next_seq + 1 /\ wire' = wire \cup {next_seq}
      /\ UNCHANGED <<dup_ack_count, dup_ack_seq, sack_edges, acks, received>>
  BY DEF RecordSent
<1>2. new \in Entry
  BY <1>0 DEF Entry
<1>3. tail' = At(head, count + 1) /\ tail' \in Slots
  BY <1>0, <1>1, AtAdd, AtType DEF Slots
<1>4. /\ \A i \in Positions : At(head, i) \in Slots /\ At(head, i) # tail
      /\ \A i \in Positions : entries'[At(head', i)] = E(i)
      /\ entries'[At(head', count)] = new
  BY <1>0, <1>1, AtType, AtInjective DEF Positions, E
<1>5. TypeOK'
  BY <1>0, <1>1, <1>2, <1>3 DEF TypeOK, Seqs
<1>6. QueueShape'
  <2>1. \A k \in Slots : entries'[k].data <=> (k = tail \/ entries[k].data)
    BY <1>0, <1>1 DEF NoEntry, Entry
  <2>2. \A k \in Slots : (\E i \in Positions' : k = At(head, i))
                         <=> (k = tail \/ \E i \in Positions : k = At(head, i))
    BY <1>0, <1>1 DEF Positions
  <2> QED
    BY <2>1, <2>2, <1>1, <1>3 DEF IInv, QueueShape
<1>7. QueueIsSuffix' /\ NoAckedBacklog'
  <2>1. \A i \in Positions' : i \in Positions \/ i = count
    BY <1>0, <1>1 DEF Positions
  <2>2. \A i \in Positions :
          /\ entries'[At(head', i)].seq = next_seq' - count' + i
          /\ ~entries'[At(head', i)].acked
    BY <1>0, <1>1, <1>4 DEF IInv, QueueIsSuffix, NoAckedBacklog, Positions, TypeOK
  <2>3. entries'[At(head', count)].seq = next_seq' - count' + count /\ ~entries'[At(head', count)].acked
    BY <1>0, <1>1, <1>4 DEF Seqs
  <2> QED
    BY <2>1, <2>2, <2>3 DEF QueueIsSuffix, NoAckedBacklog, E
<1>8. NothingLost'
  <2>1. \A i \in Positions' : i \in Positions \/ i = count
    BY <1>0, <1>1 DEF Positions
  <2>2. \A i \in Positions : 
          (entries'[At(head', i)].acked \/ entries'[At(head', i)].sacked)
            => entries'[At(head', i)].seq \in received'
    BY <1>1, <1>4 DEF IInv, NothingLost
  <2>3. ~entries'[At(head', count)].acked /\ ~entries'[At(head', count)].sacked
    BY <1>4
  <2>4. next_seq' - 1 - count' = next_seq - 1 - count
    BY <1>0, <1>1 DEF Seqs
  <2> QED
    BY <2>1, <2>2, <2>3, <2>4, <1>1 DEF IInv, NothingLost, E
<1>9. EnvironmentHonest'
  BY <1>0, <1>1 DEF IInv, EnvironmentHonest, Seqs
<1> QED
  BY <1>5, <1>6, <1>7, <1>8, <1>9 DEF IInv

\* rc_retx_process_ack marks, drains the head and counts duplicates.
LEMMA ProcessAckIInv ==
  ASSUME IInv, NEW m \in acks, ProcessAck(m)
  PROVE  IInv'
<1> USE RetransmitConstants
<1>0. /\ TypeOK /\ head \in Slots /\ tail \in Slots /\ count \in 0 .. QueueMax
      /\ next_seq \in 1 .. MaxSeq + 1 /\ tail = At(head, count)
      /\ entries \in [Slots -> Entry \cup {NoEntry}]
      /\ m.cum \in 0 .. MaxSeq /\ 1 .. m.cum \subseteq received
  BY DEF IInv, TypeOK, QueueShape, EnvironmentHonest, Messages
<1>1. PICK n \in 0 .. count :
        /\ Drained(n, m.cum)
        /\ entries' = [k \in Slots |->
             IF \E i \in 0 .. n - 1 : k = At(head, i) THEN Freed(entries[k])
             ELSE IF \E i \in n .. count - 1 : k = At(head, i) /\ AckedBy(i, m.cum)
             THEN [entries[k] EXCEPT !.acked = TRUE]
             ELSE entries[k]]
        /\ head' = At(head, n)
        /\ count' = count - n
        /\ TrackDupAck({i \in Positions : ~E(i).acked /\ E(i).seq <= m.cum}, count - n, m.cum)
  BY DEF ProcessAck
<1>2. acks' \subseteq acks /\ UNCHANGED <<tail, sack_edges, next_seq, wire, received>>
  BY DEF ProcessAck, Consume
\* Sequence numbers grow along the queue: what is not drained is not acknowledged.
<1>3. /\ \A i \in 0 .. count - 1 : E(i).seq = next_seq - count + i /\ ~E(i).acked
      /\ \A i \in 0 .. n - 1 : E(i).seq <= m.cum
      /\ \A i \in n .. count - 1 : ~AckedBy(i, m.cum)
  <2>1. \A i \in 0 .. count - 1 : E(i).seq = next_seq - count + i /\ ~E(i).acked
    BY DEF IInv, QueueIsSuffix, NoAckedBacklog, Positions
  <2>2. \A i \in 0 .. n - 1 : E(i).seq <= m.cum
    BY <1>0, <1>1, <2>1 DEF Drained, AckedBy
  <2>3. \A i \in n .. count - 1 : ~AckedBy(i, m.cum)
    BY <1>0, <1>1, <2>1 DEF Drained, AckedBy
  <2> QED
    BY <2>1, <2>2, <2>3
<1>4. entries' = [k \in Slots |->
        IF \E i \in 0 .. n - 1 : k = At(head, i) THEN NoEntry ELSE entries[k]]
  BY <1>1, <1>3 DEF Freed
<1>5. \A i \in 0 .. count' - 1 :
        /\ n + i \in Positions
        /\ At(head', i) = At(head, n + i)
        /\ entries'[At(head', i)] = E(n + i)
  <2> SUFFICES ASSUME NEW i \in 0 .. count' - 1
               PROVE  /\ n + i \in Positions
                      /\ At(head', i) = At(head, n + i)
                      /\ entries'[At(head', i)] = E(n + i)
    OBVIOUS
  <2>1. n + i \in 0 .. count - 1
    BY <1>0, <1>1
  <2>2. At(head', i) = At(head, n + i) /\ At(head, n + i) \in Slots
    BY <1>0, <1>1, <2>1, AtAdd, AtType
  <2>3. ~ \E j \in 0 .. n - 1 : At(head, n + i) = At(head, j)
    <3> SUFFICES ASSUME NEW j \in 0 .. n - 1, At(head, n + i) = At(head, j) PROVE FALSE
      OBVIOUS
    <3>1. n + i \in 0 .. QueueMax - 1 /\ j \in 0 .. QueueMax - 1
      BY <1>0, <1>1, <2>1
    <3>2. n + i = j
      BY <3>1, <1>0, AtInjective
    <3> QED
      BY <3>2, <1>0, <1>1
  <2> QED
    BY <2>1, <2>2, <2>3, <1>4 DEF E, Positions
<1>6. TypeOK'
  <2>1. entries' \in [Slots -> Entry \cup {NoEntry}]
    BY <1>0, <1>4
  <2>2. head' \in Slots /\ count' \in 0 .. QueueMax
    BY <1>0, <1>1, AtType
  <2>3. dup_ack_count' \in 0 .. DupThresh + 1 /\ dup_ack_seq' \in 0 .. MaxSeq
    BY <1>0, <1>1 DEF TrackDupAck, TypeOK
  <2> QED
    BY <2>1, <2>2, <2>3, <1>0, <1>2 DEF TypeOK
<1>7. QueueShape'
  <2>1. tail' = At(head', count')
    <3>1. At(head', count') = At(head, n + (count - n))
      BY <1>0, <1>1, AtAdd
    <3> QED
      BY <3>1, <1>0, <1>1, <1>2
  <2>2. ASSUME NEW k \in Slots, entries'[k].data
        PROVE  \E i \in Positions' : k = At(head', i)
    <3>1. entries[k].data /\ ~ \E i \in 0 .. n - 1 : k = At(head, i)
      BY <2>2, <1>4 DEF NoEntry
    <3>2. PICK j \in Positions : k = At(head, j)
      BY <3>1 DEF IInv, QueueShape
    <3>3. j - n \in 0 .. count' - 1 /\ n + (j - n) = j
      BY <3>1, <3>2, <1>0, <1>1 DEF Positions
    <3> QED
      BY <3>2, <3>3, <1>5 DEF Positions
  <2>3. ASSUME NEW k \in Slots, NEW i \in Positions', k = At(head', i)
        PROVE  entries'[k].data
    <3>1. i \in 0 .. count' - 1
      BY DEF Positions
    <3>2. n + i \in Positions /\ k = At(head, n + i) /\ entries'[k] = E(n + i)
      BY <3>1, <2>3, <1>5
    <3> QED
      BY <3>2 DEF IInv, QueueShape, E
  <2> QED
    BY <2>1, <2>2, <2>3 DEF QueueShape
<1>8. QueueIsSuffix' /\ NoAckedBacklog'
  <2> SUFFICES ASSUME NEW i \in 0 .. count' - 1
               PROVE  /\ entries'[At(head', i)].seq = next_seq' - count' + i
                      /\ ~entries'[At(head', i)].acked
    BY DEF QueueIsSuffix, NoAckedBacklog, Positions, E
  <2>1. n + i \in 0 .. count - 1 /\ entries'[At(head', i)] = E(n + i)
    BY <1>5 DEF Positions
  <2>2. E(n + i).seq = next_seq - count + (n + i) /\ ~E(n + i).acked
    BY <2>1, <1>3
  <2> QED
    BY <2>1, <2>2, <1>0, <1>1, <1>2
<1>9. NothingLost'
  <2>1. ASSUME NEW s \in 1 .. next_seq' - 1 - count'
        PROVE  s \in received'
    <3>1. CASE s \in 1 .. next_seq - 1 - count
      BY <3>1, <1>2 DEF IInv, NothingLost
    <3>2. CASE ~(s \in 1 .. next_seq - 1 - count)
      <4>1. s - (next_seq - count) \in 0 .. n - 1
        BY <3>2, <1>0, <1>1, <1>2
      <4>2. E(s - (next_seq - count)).seq = s
        BY <4>1, <1>0, <1>1, <1>3
      <4>3. s <= m.cum
        BY <4>1, <4>2, <1>3
      <4> QED
        BY <4>3, <1>0, <1>1, <1>2
    <3> QED
      BY <3>1, <3>2
  <2>2. ASSUME NEW i \in 0 .. count' - 1,
               entries'[At(head', i)].acked \/ entries'[At(head', i)].sacked
        PROVE  entries'[At(head', i)].seq \in received'
    BY <2>2, <1>2, <1>5 DEF IInv, NothingLost
  <2> QED
    BY <2>1, <2>2 DEF NothingLost, Positions, E
<1>10. EnvironmentHonest'
  BY <1>0, <1>1, <1>2 DEF IInv, EnvironmentHonest
<1> QED
  BY <1>6, <1>7, <1>8, <1>9, <1>10 DEF IInv

\* A step that changes neither which slots are queued nor the network.
LEMMA MarkIInv ==
  ASSUME IInv,
         entries' \in [Slots -> Entry \cup {NoEntry}],
         \A k \in Slots :
           /\ entries'[k].data = entries[k].data
           /\ entries'[k].seq = entries[k].seq
           /\ entries'[k].acked = entries[k].acked
           /\ entries'[k].sacked => entries[k].sacked \/ entries[k].seq \in received,
         UNCHANGED <<head, tail, count, next_seq, received>>,
         dup_ack_count' \in 0 .. DupThresh + 1, dup_ack_seq' \in 0 .. MaxSeq,
         sack_edges' \subseteq Seqs,
         acks' \subseteq acks,
         wire' \subseteq 1 .. next_seq - 1
  PROVE  IInv'
<1> USE RetransmitConstants
<1>0. head \in Slots /\ count \in 0 .. QueueMax /\ next_seq \in 1 .. MaxSeq + 1
  BY DEF IInv, TypeOK
<1>1. \A i \in Positions : At(head, i) \in Slots
  BY <1>0, AtType DEF Positions
<1>2. Positions' = Positions
  BY DEF Positions
<1>3. TypeOK'
  BY <1>0 DEF IInv, TypeOK, Seqs
<1>4. QueueShape'
  BY <1>2 DEF IInv, QueueShape
<1>5. QueueIsSuffix' /\ NoAckedBacklog'
  BY <1>1, <1>2 DEF IInv, QueueIsSuffix, NoAckedBacklog, E
<1>6. NothingLost'
  BY <1>1, <1>2 DEF IInv, NothingLost, E
<1>7. EnvironmentHonest'
  BY DEF IInv, EnvironmentHonest
<1> QED
  BY <1>3, <1>4, <1>5, <1>6, <1>7 DEF IInv

\* rc_retx_process_sack marks the packets of its blocks.
LEMMA ProcessSackIInv ==
  ASSUME IInv, NEW m \in acks, ProcessSack(m)
  PROVE  IInv'
<1>1. /\ m.has \subseteq received /\ m.has \subseteq Seqs
      /\ received \subseteq Seqs
  BY DEF IInv, TypeOK, EnvironmentHonest, Messages
<1>2. \A s \in Int : SackedBy(m, s) => s \in received
  BY <1>1 DEF SackedBy, InBlock, LeftEdges, FirstK, Seqs
<1>3. LeftEdges(m) \subseteq Seqs
  BY <1>1 DEF LeftEdges, FirstK
<1>4. /\ entries \in [Slots -> Entry \cup {NoEntry}]
      /\ entries' = [k \in Slots |->
           IF /\ \E i \in Positions : k = At(head, i)
              /\ ~entries[k].acked
              /\ SackedBy(m, entries[k].seq)
           THEN [entries[k] EXCEPT !.sacked = TRUE]
           ELSE entries[k]]
  BY DEF IInv, TypeOK, ProcessSack
<1>5. ASSUME NEW k \in Slots
      PROVE  /\ entries'[k] \in Entry \cup {NoEntry}
             /\ entries'[k].data = entries[k].data
             /\ entries'[k].seq = entries[k].seq
             /\ entries'[k].acked = entries[k].acked
             /\ entries'[k].sacked => entries[k].sacked \/ entries[k].seq \in received
  <2>1. CASE /\ \E i \in Positions : k = At(head, i)
             /\ ~entries[k].acked
             /\ SackedBy(m, entries[k].seq)
    <3>1. entries[k].data
      BY <2>1 DEF IInv, QueueShape
    <3>2. entries[k] \in Entry
      BY <3>1, <1>4 DEF NoEntry
    <3>3. entries'[k] = [entries[k] EXCEPT !.sacked = TRUE]
      BY <2>1, <1>4
    <3>4. entries[k].seq \in Seqs
      BY <3>2 DEF Entry
    <3>5. entries[k].seq \in received
      BY <2>1, <3>4, <1>2, RetransmitConstants DEF Seqs
    <3> QED
      BY <3>2, <3>3, <3>5 DEF Entry
  <2>2. CASE ~(/\ \E i \in Positions : k = At(head, i)
               /\ ~entries[k].acked
               /\ SackedBy(m, entries[k].seq))
    BY <2>2, <1>4
  <2> QED
    BY <2>1, <2>2
<1>6. entries' \in [Slots -> Entry \cup {NoEntry}]
  BY <1>4, <1>5
<1>7. /\ UNCHANGED <<head, tail, count, next_seq, received, dup_ack_count, dup_ack_seq, wire>>
      /\ sack_edges' = LeftEdges(m) /\ acks' \subseteq acks
  BY DEF ProcessSack, Consume
<1>8. /\ dup_ack_count \in 0 .. DupThresh + 1 /\ dup_ack_seq \in 0 .. MaxSeq
      /\ wire \subseteq 1 .. next_seq - 1
  BY DEF IInv, TypeOK, EnvironmentHonest
<1> QED
  BY <1>3, <1>5, <1>6, <1>7, <1>8, MarkIInv

\* A backed-off timeout stays within the cap.
LEMMA BackoffType ==
  ASSUME NEW rto \in 1 .. MaxRto
  PROVE  Backoff(rto) \in 1 .. MaxRto /\ Backoff(rto) >= rto
BY RetransmitConstants DEF Backoff

\* rc_retx_detect_loss changes timers and the list of packets to resend.
LEMMA DetectLossIInv ==
  ASSUME IInv, DetectLoss
  PROVE  IInv'
<1> USE RetransmitConstants
<1>0. /\ head \in Slots /\ count \in 0 .. QueueMax /\ next_seq \in 1 .. MaxSeq + 1
      /\ entries \in [Slots -> Entry \cup {NoEntry}]
      /\ dup_ack_count \in 0 .. DupThresh + 1 /\ dup_ack_seq \in 0 .. MaxSeq
      /\ sack_edges \subseteq Seqs /\ wire \subseteq 1 .. next_seq - 1
      /\ count <= next_seq - 1
  BY DEF IInv, TypeOK, EnvironmentHonest
<1>1. /\ FastPass \subseteq Positions /\ HolePass \subseteq Positions
      /\ TimeoutPass \subseteq Positions
  BY DEF FastPass, HolePass, TimeoutPass, FirstK, Missing
<1>2. /\ entries' = [k \in Slots |->
           IF \E i \in TimeoutPass : k = At(head, i)
           THEN [entries[k] EXCEPT !.rto = Backoff(entries[k].rto), !.age = 0]
           ELSE entries[k]]
      /\ dup_ack_count' \in 0 .. DupThresh + 1
      /\ UNCHANGED <<head, tail, count, dup_ack_seq, sack_edges, next_seq, acks, received>>
  <2>0. dup_ack_count' = IF dup_ack_count >= DupThresh THEN 0 ELSE dup_ack_count
    BY DEF DetectLoss
  <2>1. dup_ack_count' \in 0 .. DupThresh + 1
    BY <2>0, <1>0
  <2> QED
    BY <2>1 DEF DetectLoss
<1>3. wire' \subseteq 1 .. next_seq - 1
  <2>1. \A i \in Positions : E(i).seq \in 1 .. next_seq - 1
    BY <1>0 DEF IInv, QueueIsSuffix, Positions
  <2>2. wire' = wire \cup {E(i).seq : i \in FastPass \cup HolePass \cup TimeoutPass}
    BY DEF DetectLoss
  <2> QED
    BY <2>1, <2>2, <1>0, <1>1
<1>4. ASSUME NEW k \in Slots
      PROVE  /\ entries'[k] \in Entry \cup {NoEntry}
             /\ entries'[k].data = entries[k].data
             /\ entries'[k].seq = entries[k].seq
             /\ entries'[k].acked = entries[k].acked
             /\ entries'[k].sacked = entries[k].sacked
  <2>1. CASE \E i \in TimeoutPass : k = At(head, i)
    <3>1. entries[k].data
      BY <2>1, <1>1 DEF IInv, QueueShape
    <3>2. entries[k] \in Entry
      BY <3>1, <1>0 DEF NoEntry
    <3>3. entries'[k] = [entries[k] EXCEPT !.rto = Backoff(entries[k].rto), !.age = 0]
      BY <2>1, <1>2
    <3>4. entries[k].rto \in 1 .. MaxRto
      BY <3>2 DEF Entry
    <3>5. Backoff(entries[k].rto) \in 1 .. MaxRto /\ 0 \in 0 .. MaxRto
      BY <3>4, BackoffType
    <3>6. entries'[k] \in Entry
      BY <3>2, <3>3, <3>5 DEF Entry
    <3>7. /\ entries'[k].data = entries[k].data
          /\ entries'[k].seq = entries[k].seq
          /\ entries'[k].acked = entries[k].acked
          /\ entries'[k].sacked = entries[k].sacked
      BY <3>2, <3>3 DEF Entry
    <3> QED
      BY <3>6, <3>7
  <2>2. CASE ~ \E i \in TimeoutPass : k = At(head, i)
    BY <2>2, <1>0, <1>2
  <2> QED
    BY <2>1, <2>2
<1>5. entries' \in [Slots -> Entry \cup {NoEntry}]
  BY <1>2, <1>4
<1> QED
  BY <1>0, <1>2, <1>3, <1>4, <1>5, MarkIInv

\* The clock advances.
LEMMA TickIInv ==
  ASSUME IInv, Tick
  PROVE  IInv'
<1> USE RetransmitConstants
<1>0. /\ entries \in [Slots -> Entry \cup {NoEntry}]
      /\ dup_ack_count \in 0 .. DupThresh + 1 /\ dup_ack_seq \in 0 .. MaxSeq
      /\ sack_edges \subseteq Seqs /\ wire \subseteq 1 .. next_seq - 1
  BY DEF IInv, TypeOK, EnvironmentHonest
<1>1. /\ entries' = [k \in Slots |->
           IF entries[k].data /\ entries[k].age < MaxRto
           THEN [entries[k] EXCEPT !.age = entries[k].age + 1] ELSE entries[k]]
      /\ UNCHANGED <<head, tail, count, dup_ack_count, dup_ack_seq, sack_edges,
                     next_seq, wire, acks, received>>
  BY DEF Tick
<1>2. ASSUME NEW k \in Slots
      PROVE  /\ entries'[k] \in Entry \cup {NoEntry}
             /\ entries'[k].data = entries[k].data
             /\ entries'[k].seq = entries[k].seq
             /\ entries'[k].acked = entries[k].acked
             /\ entries'[k].sacked = entries[k].sacked
  <2>1. CASE entries[k].data /\ entries[k].age < MaxRto
    <3>1. entries[k] \in Entry
      BY <2>1, <1>0 DEF NoEntry
    <3>2. entries'[k] = [entries[k] EXCEPT !.age = entries[k].age + 1]
      BY <2>1, <1>1
    <3>0. entries[k].age \in 0 .. MaxRto
      BY <3>1 DEF Entry
    <3>3. entries[k].age + 1 \in 0 .. MaxRto
      BY <2>1, <3>0
    <3> QED
      BY <3>1, <3>2, <3>3 DEF Entry
  <2>2. CASE ~(entries[k].data /\ entries[k].age < MaxRto)
    BY <2>2, <1>0, <1>1
  <2> QED
    BY <2>1, <2>2
<1>3. entries' \in [Slots -> Entry \cup {NoEntry}]
  BY <1>1, <1>2
<1> QED
  BY <1>0, <1>1, <1>2, <1>3, MarkIInv

\* The network delivers or loses a packet.
LEMMA NetworkIInv ==
  ASSUME IInv, NEW s \in wire, Deliver(s) \/ Lose(s)
  PROVE  IInv'
<1> USE RetransmitConstants
<1>0. /\ UNCHANGED <<entries, head, tail, count, dup_ack_count, dup_ack_seq, sack_edges, next_seq>>
      /\ received \subseteq received' /\ received' \subseteq received \cup wire
      /\ wire' \subseteq wire
      /\ \A m \in acks' : \/ m \in acks
                          \/ /\ m \in Messages
                             /\ 1 .. m.cum \subseteq received'
                             /\ m.has \subseteq received'
  <2>1. /\ wire \subseteq Seqs /\ received \subseteq Seqs
    BY DEF IInv, TypeOK
  <2>2. CASE Lose(s)
    BY <2>2 DEF Lose, retx, queue
  <2>3. CASE Deliver(s)
    <3>1. PICK n \in 0 .. MaxSeq :
            /\ IsCumAck(received', n)
            /\ acks' \in SUBSET (acks \cup [type : {"ack", "sack"}, cum : {n}, has : {received'}])
      BY <2>3 DEF Deliver
    <3>2. received' \subseteq Seqs
      BY <2>1, <2>3 DEF Deliver
    <3>3. \A m \in [type : {"ack", "sack"}, cum : {n}, has : {received'}] :
            m \in Messages /\ m.cum = n /\ m.has = received'
      BY <3>2 DEF Messages
    <3>4. 1 .. n \subseteq received'
      BY <3>1 DEF IsCumAck
    <3>5. \A m \in acks' : \/ m \in acks
                           \/ /\ m \in Messages
                              /\ 1 .. m.cum \subseteq received'
                              /\ m.has \subseteq received'
      BY <3>1, <3>3, <3>4
    <3> QED
      BY <3>5, <2>3 DEF Deliver, retx, queue
  <2> QED
    BY <2>2, <2>3
<1>1. Positions' = Positions /\ \A i \in Positions : E(i)' = E(i)
  BY <1>0 DEF Positions, E
<1>2. TypeOK'
  BY <1>0 DEF IInv, TypeOK
<1>3. QueueShape' /\ QueueIsSuffix' /\ NoAckedBacklog'
  BY <1>0, <1>1 DEF IInv, QueueShape, QueueIsSuffix, NoAckedBacklog
<1>4. NothingLost'
  BY <1>0, <1>1 DEF IInv, NothingLost
<1>5. EnvironmentHonest'
  <2>1. \A m \in acks : 1 .. m.cum \subseteq received' /\ m.has \subseteq received'
    BY <1>0 DEF IInv, EnvironmentHonest
  <2> QED
    BY <2>1, <1>0 DEF IInv, EnvironmentHonest
<1> QED
  BY <1>2, <1>3, <1>4, <1>5 DEF IInv

-----------------------------------------------------------------------------
(* Theorems *)

\* Every step preserves the invariant.
LEMMA NextIInv == IInv /\ [Next]_vars => IInv'
<1> SUFFICES ASSUME IInv, [Next]_vars PROVE IInv'
  OBVIOUS
<1>1. ASSUME NEW rto \in InitRtos, RecordSent(rto) PROVE IInv'
  BY <1>1, RecordSentIInv
<1>2. ASSUME NEW m \in acks, ProcessAck(m) PROVE IInv'
  BY <1>2, ProcessAckIInv
<1>3. ASSUME NEW m \in acks, ProcessSack(m) PROVE IInv'
  BY <1>3, ProcessSackIInv
<1>4. CASE DetectLoss
  BY <1>4, DetectLossIInv
<1>5. CASE Tick
  BY <1>5, TickIInv
<1>6. ASSUME NEW s \in wire, Deliver(s) \/ Lose(s) PROVE IInv'
  BY <1>6, NetworkIInv
<1>7. CASE UNCHANGED vars
  <2>1. UNCHANGED <<entries, head, tail, count, dup_ack_count, dup_ack_seq, sack_edges,
                    next_seq, wire, acks, received>>
    BY <1>7 DEF vars, retx, queue
  <2> QED
    BY <2>1 DEF IInv, TypeOK, QueueShape, QueueIsSuffix, NothingLost, NoAckedBacklog,
                EnvironmentHonest, Positions, E
<1> QED
  BY <1>1, <1>2, <1>3, <1>4, <1>5, <1>6, <1>7 DEF Next

\* The inductive invariant holds in every reachable state.
THEOREM Invariance == Spec => []IInv
BY InitIInv, NextIInv, PTL DEF Spec

\* Type correctness of the retransmission state, for every value of the constants.
THEOREM TypeCorrect == Spec => []TypeOK
BY Invariance, PTL DEF IInv

\* The circular buffer of rc_retransmit.c is consistent across wrap-around:
\* exactly the queued slots own a packet copy.
THEOREM QueueShapeHolds == Spec => []QueueShape
BY Invariance, PTL DEF IInv

\* The queue holds the packets sent last, in order and without gaps.
THEOREM QueueIsSuffixHolds == Spec => []QueueIsSuffix
BY Invariance, PTL DEF IInv

\* No packet is given up before the receiver has it, whatever the network does.
THEOREM NothingLostHolds == Spec => []NothingLost
BY Invariance, PTL DEF IInv

\* process_ack leaves no acknowledged packet in the queue.
THEOREM NoAckedBacklogHolds == Spec => []NoAckedBacklog
BY Invariance, PTL DEF IInv

-----------------------------------------------------------------------------
(* Exponential backoff *)

\* No step lowers the RTO of a queued packet or raises it without a timeout.
LEMMA BackoffNext == IInv /\ [Next]_vars => [BackoffStep]_vars
<1> SUFFICES ASSUME IInv, Next PROVE BackoffStep
  OBVIOUS
<1> SUFFICES ASSUME NEW k \in Slots, entries[k].data, entries'[k].seq = entries[k].seq
             PROVE  /\ entries'[k].rto >= entries[k].rto
                    /\ entries'[k].rto <= MaxRto
                    /\ entries'[k].rto # entries[k].rto => entries'[k].age = 0
  BY DEF BackoffStep
<1> USE RetransmitConstants
<1>0. /\ entries \in [Slots -> Entry \cup {NoEntry}] /\ entries[k] \in Entry
      /\ entries[k].rto \in 1 .. MaxRto /\ entries[k].seq \in Seqs
  <2>1. entries \in [Slots -> Entry \cup {NoEntry}]
    BY DEF IInv, TypeOK
  <2>2. entries[k] # NoEntry
    BY DEF NoEntry
  <2>3. entries[k] \in Entry
    BY <2>1, <2>2
  <2> QED
    BY <2>1, <2>3 DEF Entry
<1>1. ASSUME entries'[k].rto = entries[k].rto
      PROVE  /\ entries'[k].rto >= entries[k].rto
             /\ entries'[k].rto <= MaxRto
             /\ entries'[k].rto # entries[k].rto => entries'[k].age = 0
  BY <1>0, <1>1
<1>2. ASSUME NEW rto \in InitRtos, RecordSent(rto) PROVE entries'[k].rto = entries[k].rto
  <2>1. k # tail
    <3>1. PICK i \in Positions : k = At(head, i)
      BY DEF IInv, QueueShape
    <3>2. /\ head \in Slots /\ count \in 0 .. QueueMax - 1 /\ tail = At(head, count)
          /\ i \in 0 .. QueueMax - 1 /\ i # count
      BY <1>2, <3>1 DEF IInv, TypeOK, QueueShape, RecordSent, HasRoom, Positions
    <3> QED
      BY <3>1, <3>2, AtInjective
  <2> QED
    BY <1>0, <1>2, <2>1 DEF RecordSent
<1>3. ASSUME NEW m \in acks, ProcessAck(m) PROVE entries'[k].rto = entries[k].rto
  <2>1. \/ entries'[k] = NoEntry
        \/ entries'[k] = [entries[k] EXCEPT !.acked = TRUE]
        \/ entries'[k] = entries[k]
    BY <1>3 DEF ProcessAck, Freed
  <2> QED
    BY <1>0, <2>1 DEF NoEntry, Entry, Seqs
<1>4. ASSUME NEW m \in acks, ProcessSack(m) PROVE entries'[k].rto = entries[k].rto
  <2>1. entries'[k] = [entries[k] EXCEPT !.sacked = TRUE] \/ entries'[k] = entries[k]
    BY <1>4 DEF ProcessSack
  <2> QED
    BY <1>0, <2>1 DEF Entry
<1>5. ASSUME DetectLoss
      PROVE  \/ entries'[k] = entries[k]
             \/ entries'[k].rto = Backoff(entries[k].rto) /\ entries'[k].age = 0
  <2>1. \/ entries'[k] = [entries[k] EXCEPT !.rto = Backoff(@), !.age = 0]
        \/ entries'[k] = entries[k]
    BY <1>5 DEF DetectLoss
  <2> QED
    BY <1>0, <2>1 DEF Entry
<1>6. ASSUME Tick PROVE entries'[k].rto = entries[k].rto
  <2>1. entries'[k] = [entries[k] EXCEPT !.age = @ + 1] \/ entries'[k] = entries[k]
    BY <1>6 DEF Tick
  <2> QED
    BY <1>0, <2>1 DEF Entry
<1>7. ASSUME NEW s \in wire, Deliver(s) \/ Lose(s) PROVE entries'[k].rto = entries[k].rto
  BY <1>7 DEF Deliver, Lose, retx, queue
<1>8. CASE DetectLoss
  BY <1>0, <1>1, <1>5, <1>8, BackoffType
<1> QED
  BY <1>1, <1>2, <1>3, <1>4, <1>6, <1>7, <1>8 DEF Next

\* The RTO of a queued packet only grows, up to RC_MAX_RTO_MS, and only when
\* detect_loss times the packet out.
THEOREM BackoffMonotoneHolds == Spec => BackoffMonotone
BY Invariance, BackoffNext, PTL DEF Spec, BackoffMonotone

=============================================================================
