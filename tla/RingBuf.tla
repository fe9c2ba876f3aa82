------------------------------ MODULE RingBuf ------------------------------
(***************************************************************************)
(* The byte ring buffer of a connection (rc_ringbuf_* in                   *)
(* src/core/rc_conn.c): one producer thread and one consumer thread, no    *)
(* lock.  A call reads the other side's counter once, copies byte by byte  *)
(* in whatever order memcpy chooses, and publishes its own counter last.   *)
(* head and tail are unsigned counters that run freely modulo CtrMod.      *)
(*                                                                         *)
(* The stores of both sides are ordered by the release stores of head and  *)
(* tail.  The loads of the consumer are not: rc_ringbuf_read loads head    *)
(* with a plain load.  On x86-64 loads are performed in order and Spec is  *)
(* the program; on aarch64, the other released build, the consumer may     *)
(* load bytes of the buffer before it loads head: SpecUnorderedLoads.      *)
(***************************************************************************)
EXTENDS Integers, Sequences

CONSTANTS
  Size,       \* capacity: next_pow2 of what was asked for
  CtrMod,     \* 2^32: the width of head and tail
  Byte,       \* values of a byte
  ZeroByte,   \* what calloc fills the buffer with
  Chunks,     \* what the producer may write in one call
  MaxRead,    \* most bytes the consumer asks for
  Idle,       \* no call in progress
  Unloaded    \* no byte loaded ahead of its time

ASSUME RingBufConstants ==
  /\ Size \in Nat \ {0}
  /\ CtrMod \in Nat
  /\ CtrMod % Size = 0
  /\ CtrMod > Size
  /\ ZeroByte \in Byte
  /\ Chunks \subseteq Seq(Byte)
  /\ MaxRead \in Nat
  /\ Unloaded \notin Byte

VARIABLES
  buf, size, head, tail,   \* rc_ringbuf_t
  w,                       \* the producer: locals of rc_ringbuf_write, or Idle
  r,                       \* the consumer: locals of rc_ringbuf_read, or Idle
  got,                     \* what the last read copied out
  early                    \* bytes after tail that the consumer has loaded early

vars == <<buf, size, head, tail, w, r, got, early>>

Offsets == 0 .. Size - 1
NoneEarly == [i \in Offsets |-> Unloaded]

-----------------------------------------------------------------------------
(* Arithmetic of the counters *)

Least(a, b) == IF a < b THEN a ELSE b

available == (head - tail) % CtrMod

free_space == (size - (head - tail)) % CtrMod

\* Where byte i of a copy that starts at pos lies: in the first chunk, or in
\* the second one at the start of the buffer.
Place(pos, i) == LET first_chunk == size - pos IN
                 IF i < first_chunk THEN pos + i ELSE i - first_chunk

-----------------------------------------------------------------------------
(* rc_ringbuf_init, rc_ringbuf_destroy *)

Init ==
  /\ buf = [i \in Offsets |-> ZeroByte]
  /\ size = Size
  /\ head = 0
  /\ tail = 0
  /\ w = Idle
  /\ r = Idle
  /\ got = <<>>
  /\ early = NoneEarly

\* rc_conn_release destroys the buffers of a connection that nobody refers to.
Destroy ==
  /\ w = Idle
  /\ r = Idle
  /\ size' = 0
  /\ head' = 0
  /\ tail' = 0
  /\ UNCHANGED <<buf, w, r, got, early>>

-----------------------------------------------------------------------------
(* rc_ringbuf_write *)

\* With a destroyed buffer head & mask is 0.
Pos(ctr) == IF size = 0 THEN 0 ELSE ctr % size

WriteStart(d) ==
  /\ w = Idle
  /\ LET len == Least(Len(d), free_space) IN
       w' = [data |-> d, n |-> len, pos |-> Pos(head), left |-> 0 .. len - 1]
  /\ UNCHANGED <<buf, size, head, tail, r, got, early>>

WriteByte(i) ==
  /\ w # Idle
  /\ i \in w.left
  /\ buf' = [buf EXCEPT ![Place(w.pos, i)] = w.data[i + 1]]
  /\ w' = [w EXCEPT !.left = @ \ {i}]
  /\ UNCHANGED <<size, head, tail, r, got, early>>

\* Fault: head is stored before the copy is complete.
WriteDone_Fault ==
  /\ w # Idle
  /\ head' = (head + w.n) % CtrMod
  /\ w' = Idle
  /\ UNCHANGED <<buf, size, tail, r, got, early>>

WriteDone ==
  /\ w # Idle
  /\ w.left = {}
  /\ head' = (head + w.n) % CtrMod
  /\ w' = Idle
  /\ UNCHANGED <<buf, size, tail, r, got, early>>

-----------------------------------------------------------------------------
(* rc_ringbuf_read *)

ReadStart(n) ==
  /\ r = Idle
  /\ LET len == Least(n, available) IN
       r' = [n |-> len, pos |-> Pos(tail), left |-> 0 .. len - 1, dst |-> NoneEarly]
  /\ UNCHANGED <<buf, size, head, tail, w, got, early>>

\* Fault: the second chunk is taken from the place the first one starts at.
Loaded_Fault(i) == {IF i < size - r.pos THEN buf[r.pos + i] ELSE buf[r.pos]}

\* What a load of byte i can yield.
Loaded(i) == {buf[Place(r.pos, i)]} \cup ({early[i]} \ {Unloaded})

ReadByte(i) ==
  /\ r # Idle
  /\ i \in r.left
  /\ \E b \in Loaded(i) :
       r' = [r EXCEPT !.left = @ \ {i}, !.dst[i] = b]
  /\ UNCHANGED <<buf, size, head, tail, w, got, early>>

\* Fault: tail is stored before the copy is complete.
ReadDone_Fault ==
  /\ r # Idle
  /\ tail' = (tail + r.n) % CtrMod
  /\ r' = [r EXCEPT !.n = 0]
  /\ UNCHANGED <<buf, size, head, w, got, early>>

ReadDone ==
  /\ r # Idle
  /\ r.left = {}
  /\ tail' = (tail + r.n) % CtrMod
  /\ got' = [i \in 1 .. r.n |-> r.dst[i - 1]]
  /\ r' = Idle
  /\ early' = NoneEarly
  /\ UNCHANGED <<buf, size, head, w>>

\* A processor that does not order loads performs one of the copy's loads
\* before the load of head.
LoadEarly(i) ==
  /\ r = Idle
  /\ size > 0
  /\ early' = [early EXCEPT ![i] = buf[Place(Pos(tail), i)]]
  /\ UNCHANGED <<buf, size, head, tail, w, r, got>>

-----------------------------------------------------------------------------

Next ==
  \/ \E d \in Chunks : WriteStart(d)
  \/ \E i \in Offsets : WriteByte(i)
  \/ WriteDone
  \/ \E n \in 0 .. MaxRead : ReadStart(n)
  \/ \E i \in Offsets : ReadByte(i)
  \/ ReadDone
  \/ Destroy

Spec == Init /\ [][Next]_vars

SpecUnorderedLoads == Init /\ [][Next \/ \E i \in Offsets : LoadEarly(i)]_vars

-----------------------------------------------------------------------------
(* Properties *)

\* The producer never stores into a byte that the consumer has still to copy.
NoOverlap ==
  w # Idle /\ r # Idle =>
    \A i \in w.left, j \in r.left : Place(w.pos, i) # Place(r.pos, j)

\* When rc_ringbuf_read publishes tail, it has copied the bytes that lie
\* between tail and head, as they were published.
ReadsPublished ==
  r # Idle /\ r.left = {} => \A i \in 0 .. r.n - 1 : r.dst[i] = buf[Place(Pos(tail), i)]

\* The bytes between tail and head, oldest first.
Contents == [i \in 1 .. available |-> buf[Place(Pos(tail), i - 1)]]

Fifo == INSTANCE ByteFifo WITH
  Capacity <- Size,
  bytes    <- Contents,
  room     <- size,
  writing  <- IF w = Idle THEN Idle ELSE [data |-> w.data, n |-> w.n],
  reading  <- IF r = Idle THEN Idle ELSE [n |-> r.n]

\* The ring buffer is a bounded FIFO queue of bytes in which every call takes
\* effect at once: nothing is lost, duplicated, reordered or torn, however the
\* producer and the consumer interleave.
ImplementsFifo == Fifo!Spec

=============================================================================
