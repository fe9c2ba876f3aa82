---------------------------- MODULE IoLoopProofs ----------------------------
(* Which events reach a callback, for any number of watchers, descriptors   *)
(* and callbacks that add and delete watchers in the middle of a batch.     *)
(* StaleOnlyAfterReuse rests on epoll naming, for each descriptor, a        *)
(* watcher that holds that descriptor; adding a watcher keeps this because  *)
(* the free list holds no registered watcher and none of them twice.        *)
EXTENDS IoLoop, FiniteSetTheorems, SequenceTheorems, TLAPS

Slots == Watchers \cup {NoWatcher}

TypeInv ==
  /\ io = [w \in Watchers |-> io[w]]
  /\ \A w \in Watchers : io[w] = [fd |-> io[w].fd, active |-> io[w].active, next |-> io[w].next]
  /\ epoll \in [Fds -> Slots]

\* The n watchers in free, in this order, are the free list.
FreeList(n, free) ==
  /\ free \in [1..n -> Watchers]
  /\ \A j, k \in 1..n : free[j] = free[k] => j = k
  /\ ioFree = IF n = 0 THEN NoWatcher ELSE free[1]
  /\ \A k \in 1..n : io[free[k]].next = IF k = n THEN NoWatcher ELSE free[k + 1]
  /\ \A k \in 1..n, f \in Fds : epoll[f] # free[k]

FreeInv == \E n \in Nat : \E free : FreeList(n, free)

RegisteredInv == \A f \in Fds : epoll[f] # NoWatcher => io[epoll[f]].fd = f

\* An event still to be delivered points to a watcher that is not in use, was
\* taken since, or holds the descriptor of the event.
Sound(e) ==
  /\ e.watcher \in Slots
  /\ e.watcher # NoWatcher /\ io[e.watcher].active /\ e.watcher \notin reused
       => io[e.watcher].fd = e.fd

BatchInv ==
  /\ batch \in Seq([watcher : Slots, fd : Fds \cup {NoFd}])
  /\ \A k \in 1..Len(batch) : Sound(batch[k])

IInv == TypeInv /\ FreeInv /\ RegisteredInv /\ BatchInv

-----------------------------------------------------------------------------
LEMMA InitHolds == IoInit => IInv
<1> SUFFICES ASSUME IoInit PROVE IInv
  OBVIOUS
<1>1. TypeInv
  BY IoAssumption DEF IoInit, TypeInv, Slots
<1>2. FreeInv
  <2> DEFINE free == [k \in 1..IoPoolSize |-> k]
  <2>1. free \in [1..IoPoolSize -> Watchers]
    BY DEF Watchers
  <2>2. FreeList(IoPoolSize, free)
    BY <2>1, IoAssumption DEF IoInit, FreeList, Watchers, NoWatcher
  <2> QED BY <2>1, <2>2, IoAssumption DEF FreeInv
<1>3. RegisteredInv /\ BatchInv
  BY DEF IoInit, RegisteredInv, BatchInv
<1> QED BY <1>1, <1>2, <1>3 DEF IInv

\* The pool and the kernel's table did not change.
LEMMA PoolUnchanged ==
  ASSUME IInv, UNCHANGED <<io, ioFree, epoll>>, BatchInv'
  PROVE  IInv'
<1>1. TypeInv' /\ RegisteredInv'
  BY DEF IInv, TypeInv, RegisteredInv
<1>2. FreeInv'
  BY DEF IInv, FreeInv, FreeList
<1> QED BY <1>1, <1>2 DEF IInv

LEMMA NothingMoved ==
  ASSUME IInv, UNCHANGED <<io, ioFree, epoll, batch, reused>>
  PROVE  IInv'
<1>1. BatchInv'
  BY DEF IInv, BatchInv, Sound
<1> QED BY <1>1, PoolUnchanged

\* The watcher in front of the free list is nobody's.
LEMMA FirstFree ==
  ASSUME IInv, ioFree # NoWatcher
  PROVE  ioFree \in Watchers /\ \A f \in Fds : epoll[f] # ioFree
<1>1. PICK n \in Nat : \E free : FreeList(n, free)
  BY DEF IInv, FreeInv
<1>2. PICK free : FreeList(n, free)
  BY <1>1
<1>3. n # 0 /\ 1 \in 1..n /\ ioFree = free[1]
  BY <1>2 DEF FreeList
<1> QED BY <1>2, <1>3 DEF FreeList

\* Events stay sound when one watcher w changes that is then reused or inactive.
LEMMA EventsKept ==
  ASSUME IInv, NEW w \in Watchers, NEW x, io' = [io EXCEPT ![w] = x],
         UNCHANGED batch, reused \subseteq reused', w \in reused' \/ ~x.active
  PROVE  BatchInv'
<1>1. /\ io'[w] = x
      /\ \A v \in Watchers \ {w} : io'[v] = io[v]
  BY DEF IInv, TypeInv
<1>2. ASSUME NEW k \in 1..Len(batch) PROVE Sound(batch[k])'
  <2>1. Sound(batch[k]) /\ batch'[k] = batch[k] /\ Slots' = Slots
    BY DEF IInv, BatchInv, Slots, Watchers
  <2>2. CASE batch[k].watcher = w
    BY <1>1, <2>1, <2>2 DEF Sound
  <2>3. CASE batch[k].watcher # w
    <3>1. batch[k].watcher # NoWatcher => io'[batch[k].watcher] = io[batch[k].watcher]
      BY <1>1, <2>1, <2>3 DEF Sound, Slots
    <3> QED BY <2>1, <3>1 DEF Sound
  <2> QED BY <2>2, <2>3
<1> QED BY <1>2 DEF IInv, BatchInv

LEMMA AddStep ==
  ASSUME IInv, NEW f \in Fds, rc_io_add(f)
  PROVE  IInv'
<1> DEFINE w == ioFree
<1>1. /\ w \in Watchers /\ (\A g \in Fds : epoll[g] # w)
      /\ w \in reused' /\ reused \subseteq reused' /\ UNCHANGED batch
  BY FirstFree DEF rc_io_add
<1>2. PICK n \in Nat : \E free : FreeList(n, free)
  BY DEF IInv, FreeInv
<1>3. PICK free : FreeList(n, free)
  BY <1>2
<1>4. n # 0 /\ w = free[1] /\ 1 \in 1..n
  BY <1>1, <1>3 DEF FreeList, Watchers, NoWatcher
<1>5. CASE epoll[f] = NoWatcher
  <2> DEFINE x == [fd |-> f, active |-> TRUE, next |-> NoWatcher]
  <2>1. /\ io' = [io EXCEPT ![w] = x]
        /\ ioFree' = io[w].next
        /\ epoll' = [epoll EXCEPT ![f] = w]
    BY <1>5 DEF rc_io_add
  <2>2. /\ x.fd = f
        /\ x = [fd |-> x.fd, active |-> x.active, next |-> x.next]
    OBVIOUS
  <2> HIDE DEF x
  <2>3. io'[w] = x /\ \A v \in Watchers \ {w} : io'[v] = io[v]
    BY <1>1, <2>1 DEF IInv, TypeInv
  <2>4. epoll'[f] = w /\ \A g \in Fds \ {f} : epoll'[g] = epoll[g]
    BY <2>1 DEF IInv, TypeInv
  <2>5. TypeInv'
    BY <1>1, <2>1, <2>2, <2>3 DEF IInv, TypeInv, Slots
  <2>6. RegisteredInv'
    BY <1>1, <2>2, <2>3, <2>4 DEF IInv, TypeInv, RegisteredInv, Slots
  <2>7. BatchInv'
    BY <1>1, <2>1, EventsKept
  <2>8. FreeInv'
    <3> DEFINE rest == [k \in 1..(n - 1) |-> free[k + 1]]
    <3>1. /\ n - 1 \in Nat
          /\ \A k \in 1..(n - 1) : k \in 1..n /\ k + 1 \in 1..n /\ rest[k] = free[k + 1]
          /\ rest \in [1..(n - 1) -> Watchers]
      BY <1>3, <1>4 DEF FreeList
    <3>2. ASSUME NEW k \in 1..(n - 1) PROVE rest[k] # w
      BY <1>3, <1>4, <3>1 DEF FreeList
    <3>3. \A j, k \in 1..(n - 1) : rest[j] = rest[k] => j = k
      BY <1>3, <3>1 DEF FreeList
    <3>4. ioFree' = IF n - 1 = 0 THEN NoWatcher ELSE rest[1]
      BY <1>3, <1>4, <2>1, <3>1 DEF FreeList
    <3>5. ASSUME NEW k \in 1..(n - 1)
          PROVE  io'[rest[k]].next = IF k = n - 1 THEN NoWatcher ELSE rest[k + 1]
      <4>1. io'[rest[k]] = io[free[k + 1]]
        BY <2>3, <3>1, <3>2
      <4>2. io[free[k + 1]].next = IF k + 1 = n THEN NoWatcher ELSE free[(k + 1) + 1]
        BY <1>3, <3>1 DEF FreeList
      <4>3. k # n - 1 => k + 1 \in 1..(n - 1)
        OBVIOUS
      <4> QED BY <3>1, <4>1, <4>2, <4>3
    <3>6. ASSUME NEW k \in 1..(n - 1), NEW g \in Fds PROVE epoll'[g] # rest[k]
      BY <1>3, <2>4, <3>1, <3>2 DEF FreeList
    <3> HIDE DEF rest
    <3>7. FreeList(n - 1, rest)'
      BY <3>1, <3>3, <3>4, <3>5, <3>6 DEF FreeList, Watchers
    <3> QED BY <3>1, <3>7 DEF FreeInv
  <2> QED BY <2>5, <2>6, <2>7, <2>8 DEF IInv
<1>6. CASE epoll[f] # NoWatcher
  <2> DEFINE x == [fd |-> f, active |-> TRUE, next |-> io[w].next]
  <2>1. io' = [io EXCEPT ![w] = x] /\ UNCHANGED <<ioFree, epoll>>
    BY <1>6 DEF rc_io_add
  <2>2. x.next = io[w].next /\ x = [fd |-> x.fd, active |-> x.active, next |-> x.next]
    OBVIOUS
  <2> HIDE DEF x
  <2>3. io'[w] = x /\ \A v \in Watchers \ {w} : io'[v] = io[v]
    BY <1>1, <2>1 DEF IInv, TypeInv
  <2>4. TypeInv'
    BY <1>1, <2>1, <2>2, <2>3 DEF IInv, TypeInv
  <2>5. RegisteredInv'
    BY <1>1, <2>1, <2>3 DEF IInv, TypeInv, RegisteredInv, Slots
  <2>6. BatchInv'
    BY <1>1, <2>1, EventsKept
  <2>7. \A v \in Watchers : io'[v].next = io[v].next
    BY <2>2, <2>3
  <2>8. FreeList(n, free)'
    BY <1>3, <2>1, <2>7 DEF FreeList, Watchers
  <2> QED BY <2>4, <2>5, <2>6, <2>8 DEF IInv, FreeInv
<1> QED BY <1>5, <1>6

LEMMA DelStep ==
  ASSUME IInv, NEW f \in Fds, rc_io_del(f)
  PROVE  IInv'
<1>0. PICK w \in Watchers : w = epoll[f]
  BY DEF rc_io_del, IInv, TypeInv, Slots
<1> DEFINE x == [fd |-> NoFd, active |-> FALSE, next |-> ioFree]
<1>1. /\ w \in Watchers /\ w # NoWatcher /\ io[w].fd = f
      /\ epoll' = [epoll EXCEPT ![f] = NoWatcher]
      /\ io' = [io EXCEPT ![w] = x]
      /\ ioFree' = w
      /\ UNCHANGED <<batch, reused>>
  BY <1>0 DEF rc_io_del, IInv, RegisteredInv
<1>2. /\ ~x.active /\ x.next = ioFree
      /\ x = [fd |-> x.fd, active |-> x.active, next |-> x.next]
  OBVIOUS
<1>3. BatchInv'
  BY <1>1, <1>2, EventsKept
<1> HIDE DEF x
<1>4. io'[w] = x /\ \A v \in Watchers \ {w} : io'[v] = io[v]
  BY <1>1 DEF IInv, TypeInv
<1>5. epoll'[f] = NoWatcher /\ \A g \in Fds \ {f} : epoll'[g] = epoll[g] /\ epoll[g] # w
  BY <1>0, <1>1 DEF IInv, TypeInv, RegisteredInv
<1>6. TypeInv'
  BY <1>1, <1>2, <1>4 DEF IInv, TypeInv, Slots
<1>7. RegisteredInv'
  BY <1>4, <1>5 DEF IInv, TypeInv, RegisteredInv, Slots
<1>8. FreeInv'
  <2>1. PICK n \in Nat : \E free : FreeList(n, free)
    BY DEF IInv, FreeInv
  <2>2. PICK free : FreeList(n, free)
    BY <2>1
  <2> DEFINE longer == [k \in 1..(n + 1) |-> IF k = 1 THEN w ELSE free[k - 1]]
  <2>3. /\ n + 1 \in Nat /\ 1 \in 1..(n + 1) /\ longer[1] = w
        /\ \A k \in 1..(n + 1) : k # 1 => k - 1 \in 1..n /\ longer[k] = free[k - 1]
    OBVIOUS
  <2>4. longer \in [1..(n + 1) -> Watchers]
    BY <1>1, <2>2, <2>3 DEF FreeList
  <2>5. \A k \in 1..n : free[k] # w /\ free[k] \in Watchers
    BY <1>0, <2>2 DEF FreeList
  <2> HIDE DEF longer
  <2>6. \A j, k \in 1..(n + 1) : longer[j] = longer[k] => j = k
    BY <2>2, <2>3, <2>5 DEF FreeList
  <2>7. ASSUME NEW k \in 1..(n + 1)
        PROVE  io'[longer[k]].next = IF k = n + 1 THEN NoWatcher ELSE longer[k + 1]
    <3>1. CASE k = 1
      <4>1. io'[longer[k]].next = ioFree
        BY <1>2, <1>4, <2>3, <3>1
      <4>2. n # 0 => 2 \in 1..(n + 1) /\ longer[2] = free[1]
        BY <2>3
      <4> QED BY <2>2, <3>1, <4>1, <4>2 DEF FreeList
    <3>2. CASE k # 1
      <4>1. k - 1 \in 1..n /\ longer[k] = free[k - 1] /\ io'[longer[k]] = io[free[k - 1]]
        BY <1>4, <2>3, <2>5, <3>2
      <4>2. io[free[k - 1]].next = IF k - 1 = n THEN NoWatcher ELSE free[(k - 1) + 1]
        BY <2>2, <4>1 DEF FreeList
      <4>3. k # n + 1 => k + 1 \in 1..(n + 1) /\ k + 1 # 1 /\ (k + 1) - 1 = (k - 1) + 1
        OBVIOUS
      <4> QED BY <2>3, <4>1, <4>2, <4>3
    <3> QED BY <3>1, <3>2
  <2>8. ASSUME NEW k \in 1..(n + 1), NEW g \in Fds PROVE epoll'[g] # longer[k]
    <3>1. CASE g = f
      <4>1. longer[k] \in Watchers /\ NoWatcher \notin Watchers
        BY <2>4 DEF Watchers, NoWatcher
      <4> QED BY <1>5, <3>1, <4>1
    <3>2. CASE g # f
      BY <1>5, <2>2, <2>3, <3>2 DEF FreeList
    <3> QED BY <3>1, <3>2
  <2>9. FreeList(n + 1, longer)'
    BY <1>1, <2>3, <2>4, <2>6, <2>7, <2>8 DEF FreeList, Watchers
  <2> QED BY <2>3, <2>9 DEF FreeInv
<1> QED BY <1>3, <1>6, <1>7, <1>8 DEF IInv

\* A batch is filled from what epoll knows at that moment.
LEMMA WaitStep ==
  ASSUME IInv, EpollWait
  PROVE  IInv'
<1> DEFINE E == [watcher : Slots, fd : Fds \cup {NoFd}]
           front == IF wakeup THEN <<NoEvent>> ELSE <<>>
<1>0. PICK ready \in SUBSET Registered :
        \E order \in [1..Cardinality(ready) -> ready] :
          batch' = front \o
                   [i \in DOMAIN order |-> [watcher |-> epoll[order[i]], fd |-> order[i]]]
  BY DEF EpollWait
<1>1. PICK order \in [1..Cardinality(ready) -> ready] :
        batch' = front \o
                 [i \in DOMAIN order |-> [watcher |-> epoll[order[i]], fd |-> order[i]]]
  BY <1>0
<1> DEFINE m == Cardinality(ready)
           events == [i \in 1..m |-> [watcher |-> epoll[order[i]], fd |-> order[i]]]
<1>2. m \in Nat
  BY IoAssumption, FS_Subset, FS_CardinalityType DEF Registered
<1>3. batch' = front \o events
  BY <1>1
<1>4. ASSUME NEW i \in 1..m
      PROVE  /\ events[i] \in E
             /\ events[i].watcher # NoWatcher => io[events[i].watcher].fd = events[i].fd
  BY <1>1 DEF Registered, IInv, TypeInv, RegisteredInv
<1>5. events \in Seq(E) /\ Len(events) = m
  <2>1. events \in [1..m -> E]
    BY <1>4
  <2> HIDE DEF events, m, E
  <2> QED BY <1>2, <2>1
<1>6. front \in Seq(E) /\ \A k \in 1..Len(front) : front[k].watcher = NoWatcher
  <2>1. NoEvent \in E /\ NoEvent.watcher = NoWatcher
    BY DEF NoEvent, Slots
  <2> HIDE DEF E
  <2> QED BY <2>1
<1>7. UNCHANGED <<io, ioFree, epoll>>
  BY DEF EpollWait
<1> HIDE DEF events, m, front
<1>8. /\ batch' \in Seq(E) /\ Len(batch') = Len(front) + m
      /\ \A k \in 1..Len(front) + m :
           batch'[k] = IF k <= Len(front) THEN front[k] ELSE events[k - Len(front)]
  BY <1>3, <1>5, <1>6, ConcatProperties
<1>9. ASSUME NEW k \in 1..Len(batch')
      PROVE  /\ batch'[k].watcher \in Slots
             /\ batch'[k].watcher # NoWatcher => io[batch'[k].watcher].fd = batch'[k].fd
  <2>1. CASE k <= Len(front)
    BY <1>6, <1>8, <2>1 DEF Slots
  <2>2. CASE ~(k <= Len(front))
    <3>1. k - Len(front) \in 1..m /\ batch'[k] = events[k - Len(front)]
      BY <1>2, <1>6, <1>8, <2>2
    <3> QED BY <1>4, <3>1
  <2> QED BY <2>1, <2>2
<1>10. BatchInv'
  BY <1>7, <1>8, <1>9 DEF BatchInv, Sound, Slots, Watchers
<1> QED BY <1>7, <1>10, PoolUnchanged

\* One event is taken from the batch.
LEMMA DispatchStep ==
  ASSUME IInv, Dispatch
  PROVE  /\ IInv'
         /\ Sound(Head(batch))
<1> DEFINE E == [watcher : Slots, fd : Fds \cup {NoFd}]
<1>1. /\ batch \in Seq(E) /\ batch # <<>> /\ batch' = Tail(batch)
      /\ UNCHANGED <<io, ioFree, epoll, reused>>
  BY DEF Dispatch, ioPool, IInv, BatchInv
<1>2. /\ Head(batch) = batch[1] /\ 1 \in 1..Len(batch)
      /\ Tail(batch) \in Seq(E) /\ Len(Tail(batch)) = Len(batch) - 1
      /\ \A k \in 1..Len(Tail(batch)) : Tail(batch)[k] = batch[k + 1]
  BY <1>1, HeadTailProperties
<1>3. \A k \in 1..Len(batch) : Sound(batch[k])
  BY DEF IInv, BatchInv
<1>4. ASSUME NEW k \in 1..Len(batch') PROVE Sound(batch[k])'
  <2>1. k + 1 \in 1..Len(batch) /\ batch'[k] = batch[k + 1]
    BY <1>1, <1>2
  <2>2. Sound(batch[k + 1])
    BY <1>3, <2>1
  <2> QED BY <1>1, <2>1, <2>2 DEF Sound, Slots, Watchers
<1>5. BatchInv'
  BY <1>1, <1>2, <1>4 DEF BatchInv, Slots, Watchers
<1> QED BY <1>1, <1>2, <1>3, <1>5, PoolUnchanged

LEMMA IoStep ==
  ASSUME IInv, [IoNext]_ioVars
  PROVE  IInv'
<1>1. CASE UNCHANGED ioVars
  BY <1>1, NothingMoved DEF ioVars
<1>2. CASE RunLoop \/ LoopTop \/ IoCallbackReturns \/ BatchDone \/ StopFlag \/ StopWakeup
  BY <1>2, NothingMoved
  DEF RunLoop, LoopTop, IoCallbackReturns, BatchDone, StopFlag, StopWakeup, ioPool
<1> QED BY <1>1, <1>2, AddStep, DelStep, WaitStep, DispatchStep DEF IoNext

(* A callback is told the descriptor its watcher holds, unless the watcher  *)
(* was deleted and taken again by an earlier callback of the same batch     *)
(* (rc_loop_run, rc_io_add, rc_io_del), for any pool and any descriptors.   *)
THEOREM StaleOnlyAfterReuseHolds == IoSpec => StaleOnlyAfterReuse
<1> DEFINE Step == loopAt = "dispatch" /\ loopAt' = "callback" =>
                     \/ io[event'.watcher].fd = event'.fd
                     \/ event'.watcher \in reused
<1>1. ASSUME IInv, [IoNext]_ioVars PROVE [Step]_ioVars
  <2> SUFFICES ASSUME IoNext, loopAt = "dispatch", loopAt' = "callback" PROVE Step
    BY <1>1
  <2>1. Dispatch
    BY DEF IoNext, rc_io_add, rc_io_del, MayUseIo, RunLoop, LoopTop, EpollWait,
           IoCallbackReturns, BatchDone, StopFlag, StopWakeup
  <2>2. event' = Head(batch) /\ Deliverable(Head(batch))
    BY <2>1 DEF Dispatch
  <2>3. Sound(Head(batch))
    BY <1>1, <2>1, DispatchStep
  <2> QED BY <2>2, <2>3 DEF Deliverable, Sound
<1>2. IoSpec => []IInv
  BY InitHolds, IoStep, PTL DEF IoSpec
<1> QED BY <1>1, <1>2, PTL DEF IoSpec, StaleOnlyAfterReuse
=============================================================================
