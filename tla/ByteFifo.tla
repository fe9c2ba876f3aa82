------------------------------ MODULE ByteFifo ------------------------------
(***************************************************************************)
(* What rc_ringbuf_write and rc_ringbuf_read promise (include/rc_conn.h):  *)
(* a bounded queue of bytes with one producer and one consumer.  A call    *)
(* settles how many bytes it moves when it starts, from the room or the    *)
(* bytes there are at that moment, and moves them all at once.             *)
(***************************************************************************)
EXTENDS Integers, Sequences

CONSTANTS
  Capacity,   \* bytes the queue can hold
  Chunks,     \* what the producer may write in one call
  MaxRead,    \* most bytes the consumer asks for
  Idle        \* no call in progress

VARIABLES
  bytes,      \* the queue
  room,       \* its capacity: 0 once it has been destroyed
  writing,    \* the write in progress
  reading,    \* the read in progress
  got         \* what the last read returned

vars == <<bytes, room, writing, reading, got>>

Least(a, b) == IF a < b THEN a ELSE b

Init ==
  /\ bytes = <<>>
  /\ room = Capacity
  /\ writing = Idle
  /\ reading = Idle
  /\ got = <<>>

WriteCall(d) ==
  /\ writing = Idle
  /\ writing' = [data |-> d, n |-> Least(Len(d), room - Len(bytes))]
  /\ UNCHANGED <<bytes, room, reading, got>>

WriteReturn ==
  /\ writing # Idle
  /\ bytes' = bytes \o SubSeq(writing.data, 1, writing.n)
  /\ writing' = Idle
  /\ UNCHANGED <<room, reading, got>>

ReadCall(n) ==
  /\ reading = Idle
  /\ reading' = [n |-> Least(n, Len(bytes))]
  /\ UNCHANGED <<bytes, room, writing, got>>

ReadReturn ==
  /\ reading # Idle
  /\ got' = SubSeq(bytes, 1, reading.n)
  /\ bytes' = SubSeq(bytes, reading.n + 1, Len(bytes))
  /\ reading' = Idle
  /\ UNCHANGED <<room, writing>>

Destroy ==
  /\ writing = Idle
  /\ reading = Idle
  /\ bytes' = <<>>
  /\ room' = 0
  /\ UNCHANGED <<writing, reading, got>>

Next ==
  \/ \E d \in Chunks : WriteCall(d)
  \/ WriteReturn
  \/ \E n \in 0 .. MaxRead : ReadCall(n)
  \/ ReadReturn
  \/ Destroy

Spec == Init /\ [][Next]_vars

=============================================================================
