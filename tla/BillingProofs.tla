---------------------------- MODULE BillingProofs ----------------------------
(* No overage goes unnoticed, for any number of instances, tiers, limits    *)
(* and reports.  AlertOnCrossing speaks of moments at which every handler   *)
(* has returned; what makes it true in between is that some handler is      *)
(* still going to read the total: one that has added to it and has not yet  *)
(* compared it, or one about to publish.                                    *)
EXTENDS Billing, SequenceTheorems, TLAPS

\* The commands left in a handler of PostUsage, one name per place it can be at.
AfterToday == <<Plain("INCR_month"), Plain("GET_tier"), Plain("GET_usage")>>
AfterMonth == <<Plain("GET_tier"), Plain("GET_usage")>>
AfterTier == <<Plain("GET_usage")>>
Alerting == <<Plain("PUBLISH")>>
Registering == <<Plain("SADD_users")>>

\* Handlers that have added their bytes and will compare the total, or alert.
Watching == {AfterToday, AfterMonth, AfterTier, Alerting}

Places == {<<>>, redis_add_usage, redis_reset_daily, Registering} \cup Watching
            \cup {redis_set_subscription(t) : t \in Tiers}

IsUsage(u) == u = [bytes_today |-> u.bytes_today, bytes_month |-> u.bytes_month]

ShapeInv ==
  /\ IsUsage(usage)
  /\ sub \in Tiers \cup {NoTier}
  /\ alerts \in BOOLEAN
  /\ handler = [i \in BillingInstances |-> handler[i]]
  /\ \A i \in BillingInstances :
       /\ handler[i] = [left |-> handler[i].left, bytes |-> handler[i].bytes,
                        tier |-> handler[i].tier]
       /\ handler[i].left \in Places
       /\ handler[i].left = <<>> => handler[i] = Idle

\* Before the first report nothing is accounted; this is why a subscription
\* may still change the tier then.
QuietInv ==
  reports = 0 =>
    /\ usage.bytes_today = 0
    /\ \A i \in BillingInstances : handler[i].left \notin Watching \cup {redis_add_usage}

\* The tier a handler has read is the one in Redis.
TierInv ==
  \A i \in BillingInstances : handler[i].left = AfterTier => handler[i].tier = redis_get_tier

WatchInv ==
  Over(redis_get_tier, usage.bytes_today)
    => alerts \/ \E i \in BillingInstances : handler[i].left \in Watching

IInv ==
  /\ reports \in Nat
  /\ excused \in BOOLEAN
  /\ ~excused => ShapeInv /\ QuietInv /\ TierInv /\ WatchInv

-----------------------------------------------------------------------------
\* A total of 0 is over no limit.
LEMMA ZeroIsUnder ==
  ASSUME NEW t \in Tiers \cup {NoTier}
  PROVE  ~Over(IF t = NoTier THEN DefaultTier ELSE t, 0)
<1> DEFINE u == IF t = NoTier THEN DefaultTier ELSE t
<1>1. u \in Tiers
  BY BillingAssumption
<1> HIDE DEF u
<1>2. daily_bytes[u] \in Nat
  BY <1>1, BillingAssumption
<1>3. ~Over(u, 0)
  BY <1>2 DEF Over
<1> QED BY <1>3 DEF u

\* How the handlers' lists begin and what follows.
LEMMA Moves ==
  /\ Head(redis_add_usage) = Plain("INCR_today") /\ Tail(redis_add_usage) = AfterToday
  /\ Head(AfterToday) = Plain("INCR_month") /\ Tail(AfterToday) = AfterMonth
  /\ Head(AfterMonth) = Plain("GET_tier") /\ Tail(AfterMonth) = AfterTier
  /\ Head(AfterTier) = Plain("GET_usage") /\ Tail(AfterTier) = <<>>
  /\ Head(Alerting) = Plain("PUBLISH") /\ Tail(Alerting) = <<>>
  /\ Alerting \o <<>> = Alerting
  /\ Head(Registering) = Plain("SADD_users") /\ Tail(Registering) = <<>>
  /\ Head(redis_reset_daily) = Plain("RESET") /\ Tail(redis_reset_daily) = <<>>
  /\ \A t \in Tiers : /\ Head(redis_set_subscription(t)) = Cmd("SET_tier", t)
                      /\ Tail(redis_set_subscription(t)) = Registering
<1>1. ASSUME NEW a PROVE Tail(<<a>>) = <<>>
  <2>1. Tail(<<a>>) \in Seq({a}) /\ Len(Tail(<<a>>)) = 0
    OBVIOUS
  <2> QED BY <2>1, EmptySeq
<1>2. ASSUME NEW a PROVE <<a>> \o <<>> = <<a>>
  BY <<a>> \in Seq({a}), ConcatEmptySeq
<1>3. ASSUME NEW a, NEW b PROVE Head(<<a, b>>) = a /\ Tail(<<a, b>>) = <<b>>
  OBVIOUS
<1>4. Head(redis_add_usage) = Plain("INCR_today") /\ Tail(redis_add_usage) = AfterToday
  <2>1. ASSUME NEW a, NEW b, NEW c, NEW d
        PROVE  Head(<<a, b, c, d>>) = a /\ Tail(<<a, b, c, d>>) = <<b, c, d>>
    OBVIOUS
  <2> DEFINE today == Plain("INCR_today")
  <2>2. PICK b, c, d : redis_add_usage = <<today, b, c, d>> /\ AfterToday = <<b, c, d>>
    BY DEF redis_add_usage, AfterToday
  <2> HIDE DEF today
  <2>3. Head(redis_add_usage) = today /\ Tail(redis_add_usage) = AfterToday
    BY <2>1, <2>2
  <2> QED BY <2>3 DEF today
<1>5. Head(AfterToday) = Plain("INCR_month") /\ Tail(AfterToday) = AfterMonth
  <2>1. ASSUME NEW a, NEW b, NEW c
        PROVE  Head(<<a, b, c>>) = a /\ Tail(<<a, b, c>>) = <<b, c>>
    OBVIOUS
  <2> QED BY <2>1 DEF AfterToday, AfterMonth
<1>6. Head(AfterMonth) = Plain("GET_tier") /\ Tail(AfterMonth) = AfterTier
  BY <1>3, Zenon DEF AfterMonth, AfterTier
<1>7. /\ Head(AfterTier) = Plain("GET_usage")
      /\ Head(Alerting) = Plain("PUBLISH")
      /\ Head(Registering) = Plain("SADD_users")
      /\ Head(redis_reset_daily) = Plain("RESET")
  BY DEF AfterTier, Alerting, Registering, redis_reset_daily
<1>8. /\ Tail(AfterTier) = <<>> /\ Tail(Alerting) = <<>> /\ Tail(Registering) = <<>>
      /\ Tail(redis_reset_daily) = <<>> /\ Alerting \o <<>> = Alerting
  BY <1>1, <1>2, Zenon DEF AfterTier, Alerting, Registering, redis_reset_daily
<1>9. ASSUME NEW t \in Tiers
      PROVE  /\ Head(redis_set_subscription(t)) = Cmd("SET_tier", t)
             /\ Tail(redis_set_subscription(t)) = Registering
  BY <1>3, Zenon DEF redis_set_subscription, Registering
<1> QED BY <1>4, <1>5, <1>6, <1>7, <1>8, <1>9, Zenon

\* The places are told apart.
LEMMA Distinct ==
  /\ <<>> \notin Watching \cup {redis_add_usage, Registering, redis_reset_daily}
  /\ redis_add_usage \notin Watching
  /\ AfterTier \notin {AfterToday, AfterMonth, Alerting, redis_add_usage}
  /\ Registering \notin Watching \cup {redis_add_usage}
  /\ redis_reset_daily \notin Watching \cup {redis_add_usage}
  /\ \A t \in Tiers : redis_set_subscription(t) \notin Watching \cup {<<>>, redis_add_usage}
BY DEF redis_add_usage, AfterToday, AfterMonth, AfterTier, Alerting, Registering, Watching,
       redis_reset_daily, redis_set_subscription, Plain, Cmd

LEMMA InitHolds == BillingInit => IInv
<1> SUFFICES ASSUME BillingInit PROVE IInv
  OBVIOUS
<1>1. ShapeInv
  BY DEF BillingInit, ShapeInv, IsUsage, Places, Idle
<1>2. QuietInv /\ TierInv
  BY Distinct DEF BillingInit, QuietInv, TierInv, Idle, Watching
<1>3. WatchInv
  BY ZeroIsUnder DEF BillingInit, WatchInv, redis_get_tier
<1> QED BY <1>1, <1>2, <1>3 DEF IInv, BillingInit

-----------------------------------------------------------------------------
(* One handler moves on: what is to be shown of the new state, given that   *)
(* the other handlers are as they were.                                     *)
LEMMA HandlerMoves ==
  ASSUME ShapeInv, NEW i \in BillingInstances, NEW l, NEW b, NEW t,
         handler' = [handler EXCEPT ![i] = [left |-> l, bytes |-> b, tier |-> t]],
         l \in Places, l = <<>> => b = 0 /\ t = NoTier,
         IsUsage(usage'),
         sub' \in Tiers \cup {NoTier}, alerts' \in BOOLEAN
  PROVE  /\ ShapeInv'
         /\ handler'[i].left = l /\ handler'[i].tier = t
         /\ \A j \in BillingInstances \ {i} : handler'[j] = handler[j]
<1> DEFINE h == [left |-> l, bytes |-> b, tier |-> t]
<1>1. /\ handler'[i] = h
      /\ \A j \in BillingInstances \ {i} : handler'[j] = handler[j]
      /\ handler' = [j \in BillingInstances |-> handler'[j]]
  BY DEF ShapeInv
<1>2. /\ h.left = l /\ h.bytes = b /\ h.tier = t
      /\ l = <<>> => h = Idle
  BY DEF Idle
<1>3. ASSUME NEW j \in BillingInstances
      PROVE  /\ handler'[j] = [left |-> handler'[j].left, bytes |-> handler'[j].bytes,
                               tier |-> handler'[j].tier]
             /\ handler'[j].left \in Places
             /\ handler'[j].left = <<>> => handler'[j] = Idle
  <2>1. CASE j = i
    BY <1>1, <1>2, <2>1
  <2>2. CASE j # i
    BY <1>1, <2>2 DEF ShapeInv
  <2> QED BY <2>1, <2>2
<1>4. Places' = Places
  BY DEF Places, Watching
<1> QED BY <1>1, <1>2, <1>3, <1>4 DEF ShapeInv

\* A request is taken up by an idle handler.
LEMMA BeginStep ==
  ASSUME IInv, NEW i \in BillingInstances, PostUsage(i) \/ PostSubscribe(i) \/ PostReset(i)
  PROVE  IInv'
<1>1. PICK l \in Places \ (Watching \cup {<<>>}), b \in UsageReports \cup {0} :
        /\ Begins(i, l, b)
        /\ \/ reports' = reports + 1
           \/ reports' = reports /\ l # redis_add_usage
  <2>1. CASE PostUsage(i)
    BY <2>1, Distinct DEF PostUsage, Places
  <2>2. CASE PostSubscribe(i)
    BY <2>2, Distinct DEF PostSubscribe, Places
  <2>3. CASE PostReset(i)
    BY <2>3, Distinct DEF PostReset, Places
  <2> QED BY <2>1, <2>2, <2>3
<1>2. /\ handler[i] = Idle
      /\ handler' = [handler EXCEPT ![i] = [left |-> l, bytes |-> b, tier |-> NoTier]]
      /\ UNCHANGED <<usage, sub, users, alerts, excused, billLink>>
  BY <1>1 DEF Begins
<1>3. reports' \in Nat /\ excused' \in BOOLEAN /\ (reports' = 0 => reports = 0)
  BY <1>1, <1>2 DEF IInv
<1>4. ASSUME ~excused' PROVE ShapeInv' /\ QuietInv' /\ TierInv' /\ WatchInv'
  <2>1. ShapeInv /\ QuietInv /\ TierInv /\ WatchInv
    BY <1>2, <1>4 DEF IInv
  <2>2. /\ ShapeInv'
        /\ handler'[i].left = l
        /\ \A j \in BillingInstances \ {i} : handler'[j] = handler[j]
    BY <1>1, <1>2, <2>1, HandlerMoves DEF ShapeInv
  <2>3. handler[i].left = <<>>
    BY <1>2 DEF Idle
  <2>4. QuietInv'
    BY <1>1, <1>2, <1>3, <2>1, <2>2 DEF QuietInv, IInv
  <2>5. TierInv'
    BY <1>1, <1>2, <2>1, <2>2 DEF TierInv, redis_get_tier, Watching
  <2>6. WatchInv'
    <3>1. SUFFICES ASSUME Over(redis_get_tier, usage.bytes_today), ~alerts
                   PROVE  \E j \in BillingInstances : handler'[j].left \in Watching
      BY <1>2 DEF WatchInv, redis_get_tier, Over, Watching
    <3>2. PICK j \in BillingInstances : handler[j].left \in Watching
      BY <2>1, <3>1 DEF WatchInv
    <3> QED BY <2>2, <2>3, <3>2, Distinct
  <2> QED BY <2>2, <2>4, <2>5, <2>6
<1> QED BY <1>3, <1>4 DEF IInv

-----------------------------------------------------------------------------
\* What a command does, from each place its handler h can be at: the commands
\* left, the tier the handler holds, the total and the alert.
Effect(i, l, t) ==
  handler' = [handler EXCEPT ![i] = [left |-> l, bytes |-> IF l = <<>> THEN 0 ELSE handler[i].bytes,
                                     tier |-> IF l = <<>> THEN NoTier ELSE t]]

LEMMA Fields ==
  ASSUME NEW op, NEW t, NEW c, c = Cmd(op, t)
  PROVE  c.op = op /\ c.tier = t
BY DEF Cmd

LEMMA Effects ==
  ASSUME ShapeInv, NEW i \in BillingInstances, NEW c, c = Head(handler[i].left),
         handler[i].left # <<>>, Carried(handler[i], c),
         handler' = [handler EXCEPT ![i] = Finished(Continues(handler[i], c))]
  PROVE  LET h == handler[i] IN
         /\ IsUsage(usage')
         /\ \/ /\ h.left = redis_add_usage /\ Effect(i, AfterToday, h.tier)
               /\ UNCHANGED <<sub, alerts>>
            \/ /\ h.left = AfterToday /\ Effect(i, AfterMonth, h.tier)
               /\ usage'.bytes_today = usage.bytes_today /\ UNCHANGED <<sub, alerts>>
            \/ /\ h.left = AfterMonth /\ Effect(i, AfterTier, redis_get_tier)
               /\ usage'.bytes_today = usage.bytes_today /\ UNCHANGED <<sub, alerts>>
            \/ /\ h.left = AfterTier
               /\ Effect(i, IF Over(h.tier, usage.bytes_today) THEN Alerting ELSE <<>>, h.tier)
               /\ usage'.bytes_today = usage.bytes_today /\ UNCHANGED <<sub, alerts>>
            \/ /\ h.left = Alerting /\ Effect(i, <<>>, h.tier)
               /\ alerts' = TRUE
               /\ usage'.bytes_today = usage.bytes_today /\ UNCHANGED sub
            \/ /\ h.left = Registering /\ Effect(i, <<>>, h.tier)
               /\ usage'.bytes_today = usage.bytes_today /\ UNCHANGED <<sub, alerts>>
            \/ /\ h.left = redis_reset_daily /\ Effect(i, <<>>, h.tier)
               /\ usage'.bytes_today = 0 /\ alerts' = FALSE /\ UNCHANGED sub
            \/ /\ \E t \in Tiers : h.left = redis_set_subscription(t) /\ sub' = t
               /\ Effect(i, Registering, h.tier) /\ c.op = "SET_tier"
               /\ usage'.bytes_today = usage.bytes_today /\ UNCHANGED alerts
<1> DEFINE h == handler[i]
<1>1. /\ h = [left |-> h.left, bytes |-> h.bytes, tier |-> h.tier]
      /\ h.left \in Places /\ h.left # <<>>
      /\ IsUsage(usage)
  BY DEF ShapeInv
<1>2. ASSUME NEW l, NEW t, Continues(h, c) = [left |-> l, bytes |-> h.bytes, tier |-> t]
      PROVE  Effect(i, l, t)
  <2>1. CASE l = <<>>
    <3>1. Finished(Continues(h, c)) = Idle
      BY <1>2, <2>1 DEF Finished
    <3> QED BY <2>1, <3>1 DEF Effect, Idle
  <2>2. CASE l # <<>>
    <3>1. Finished(Continues(h, c)) = [left |-> l, bytes |-> h.bytes, tier |-> t]
      BY <1>2, <2>2 DEF Finished
    <3> QED BY <2>2, <3>1 DEF Effect
  <2> QED BY <2>1, <2>2
<1>3. ASSUME c.op \notin {"GET_tier", "GET_usage"}
      PROVE  Effect(i, Tail(h.left), h.tier)
  <2>1. Continues(h, c) = [left |-> Tail(h.left), bytes |-> h.bytes, tier |-> h.tier]
    BY <1>1, <1>3 DEF Continues
  <2> QED BY <1>2, <2>1
<1>5. \A op : Plain(op).op = op
  BY DEF Plain, Cmd
<1>6. CASE h.left = redis_add_usage
  <2>1. c.op = "INCR_today" /\ Tail(h.left) = AfterToday
    BY <1>5, <1>6, Moves
  <2> QED BY <1>1, <1>3, <1>6, <2>1 DEF Carried, IsUsage
<1>7. CASE h.left = AfterToday
  <2>1. c.op = "INCR_month" /\ Tail(h.left) = AfterMonth
    BY <1>5, <1>7, Moves
  <2> QED BY <1>1, <1>3, <1>7, <2>1 DEF Carried, IsUsage
<1>8. CASE h.left = AfterMonth
  <2>1. c.op = "GET_tier" /\ Tail(h.left) = AfterTier
    BY <1>5, <1>8, Moves
  <2>2. Continues(h, c) = [left |-> AfterTier, bytes |-> h.bytes, tier |-> redis_get_tier]
    BY <1>1, <2>1 DEF Continues
  <2> QED BY <1>1, <1>2, <1>8, <2>1, <2>2 DEF Carried, IsUsage
<1>9. CASE h.left = AfterTier
  <2>1. c.op = "GET_usage" /\ Tail(h.left) = <<>>
    BY <1>5, <1>9, Moves
  <2>2. <<Plain("PUBLISH")>> \o Tail(h.left) = Alerting
    BY <2>1, Moves DEF Alerting
  <2>3. Continues(h, c) = [left |-> IF Over(h.tier, usage.bytes_today) THEN Alerting ELSE <<>>,
                           bytes |-> h.bytes, tier |-> h.tier]
    BY <1>1, <2>1, <2>2 DEF Continues
  <2> QED BY <1>1, <1>2, <1>9, <2>1, <2>3 DEF Carried, IsUsage
<1>10. CASE h.left = Alerting
  <2>1. c.op = "PUBLISH" /\ Tail(h.left) = <<>>
    BY <1>5, <1>10, Moves
  <2> QED BY <1>1, <1>3, <1>10, <2>1 DEF Carried, IsUsage
<1>11. CASE h.left = Registering
  <2>1. c.op = "SADD_users" /\ Tail(h.left) = <<>>
    BY <1>5, <1>11, Moves
  <2> QED BY <1>1, <1>3, <1>11, <2>1 DEF Carried, IsUsage
<1>12. CASE h.left = redis_reset_daily
  <2>1. c.op = "RESET" /\ Tail(h.left) = <<>>
    BY <1>5, <1>12, Moves
  <2> QED BY <1>1, <1>3, <1>12, <2>1 DEF Carried, IsUsage
<1>13. ASSUME NEW t \in Tiers, h.left = redis_set_subscription(t)
       PROVE  /\ c.op = "SET_tier" /\ sub' = t /\ Effect(i, Registering, h.tier)
              /\ UNCHANGED <<usage, alerts>>
  <2>1. Tail(h.left) = Registering
    BY <1>13, Moves
  <2>2. c = Cmd("SET_tier", t)
    BY <1>13, Moves
  <2>3. c.op = "SET_tier" /\ c.tier = t
    BY <2>2, Fields
  <2> QED BY <1>1, <1>3, <2>1, <2>3 DEF Carried, IsUsage
<1>14. CASE \E t \in Tiers : h.left = redis_set_subscription(t)
  BY <1>1, <1>13, <1>14
<1> QED BY <1>1, <1>6, <1>7, <1>8, <1>9, <1>10, <1>11, <1>12, <1>14 DEF Places, Watching

\* A command is carried out.
LEMMA CommandStep ==
  ASSUME IInv, NEW i \in BillingInstances, BillingCommand(i)
  PROVE  IInv'
<1> DEFINE h == handler[i]
           c == Head(h.left)
<1>1. /\ h # Idle /\ Carried(h, c)
      /\ handler' = [handler EXCEPT ![i] = Finished(Continues(h, c))]
      /\ excused' = (excused \/ (c.op = "SET_tier" /\ reports > 0))
      /\ reports' = reports
  BY DEF BillingCommand
<1>2. reports' \in Nat /\ excused' \in BOOLEAN
  BY <1>1 DEF IInv
<1>3. SUFFICES ASSUME ~excused' PROVE ShapeInv' /\ QuietInv' /\ TierInv' /\ WatchInv'
  BY <1>2 DEF IInv
<1>4. /\ ShapeInv /\ QuietInv /\ TierInv /\ WatchInv
      /\ c.op = "SET_tier" => reports = 0
  <2>1. ~excused /\ ~(c.op = "SET_tier" /\ reports > 0)
    BY <1>1, <1>3, Zenon
  <2>2. c.op = "SET_tier" => reports = 0
    <3>1. reports \in Nat
      BY DEF IInv
    <3> QED BY <2>1, <3>1
  <2>3. ShapeInv /\ QuietInv /\ TierInv /\ WatchInv
    BY <2>1 DEF IInv
  <2> QED BY <2>2, <2>3, Zenon
<1>5. h.left # <<>>
  BY <1>1, <1>4 DEF ShapeInv
<1> DEFINE same == usage'.bytes_today = usage.bytes_today
           moves(l, t) == Effect(i, l, t)
<1>6. /\ IsUsage(usage')
      /\ \/ h.left = redis_add_usage /\ moves(AfterToday, h.tier) /\ UNCHANGED <<sub, alerts>>
         \/ h.left = AfterToday /\ moves(AfterMonth, h.tier) /\ same /\ UNCHANGED <<sub, alerts>>
         \/ /\ h.left = AfterMonth /\ moves(AfterTier, redis_get_tier)
            /\ same /\ UNCHANGED <<sub, alerts>>
         \/ /\ h.left = AfterTier
            /\ moves(IF Over(h.tier, usage.bytes_today) THEN Alerting ELSE <<>>, h.tier)
            /\ same /\ UNCHANGED <<sub, alerts>>
         \/ /\ h.left = Alerting /\ moves(<<>>, h.tier)
            /\ alerts' = TRUE /\ same /\ UNCHANGED sub
         \/ h.left = Registering /\ moves(<<>>, h.tier) /\ same /\ UNCHANGED <<sub, alerts>>
         \/ /\ h.left = redis_reset_daily /\ moves(<<>>, h.tier)
            /\ usage'.bytes_today = 0 /\ alerts' = FALSE /\ UNCHANGED sub
         \/ /\ \E t \in Tiers : h.left = redis_set_subscription(t) /\ sub' = t
            /\ moves(Registering, h.tier) /\ c.op = "SET_tier" /\ same /\ UNCHANGED alerts
  BY <1>1, <1>4, <1>5, Effects
<1>7. sub' \in Tiers \cup {NoTier} /\ alerts' \in BOOLEAN
  BY <1>4, <1>6 DEF ShapeInv
<1>8. ASSUME NEW l \in Places, NEW t, Effect(i, l, t)
      PROVE  /\ ShapeInv'
             /\ handler'[i].left = l /\ (l # <<>> => handler'[i].tier = t)
             /\ \A j \in BillingInstances \ {i} : handler'[j] = handler[j]
  <2>1. PICK b, u : /\ handler' = [handler EXCEPT ![i] = [left |-> l, bytes |-> b, tier |-> u]]
                    /\ l = <<>> => b = 0 /\ u = NoTier
                    /\ l # <<>> => u = t
    BY <1>8 DEF Effect
  <2>2. ShapeInv /\ IsUsage(usage')
    BY <1>4, <1>6
  <2>3. /\ ShapeInv'
        /\ handler'[i].left = l /\ handler'[i].tier = u
        /\ \A j \in BillingInstances \ {i} : handler'[j] = handler[j]
    BY <1>7, <1>8, <2>1, <2>2, HandlerMoves, Zenon
  <2> QED BY <2>1, <2>3
<1>9. Watching \cup {<<>>, Registering} \subseteq Places
  BY DEF Places
<1>10. /\ Watching' = Watching
       /\ (redis_get_tier' = redis_get_tier) \/ sub' # sub
  BY DEF Watching, redis_get_tier
\* The handler goes on watching: it vouches for the total itself.
<1>11. ASSUME NEW l \in Watching, NEW t, Effect(i, l, t), h.left \in Watching \cup {redis_add_usage},
              l = AfterTier => t = redis_get_tier, UNCHANGED sub
       PROVE  ShapeInv' /\ QuietInv' /\ TierInv' /\ WatchInv'
  <2>1. /\ ShapeInv'
        /\ handler'[i].left = l /\ (l # <<>> => handler'[i].tier = t)
        /\ \A j \in BillingInstances \ {i} : handler'[j] = handler[j]
    BY <1>8, <1>9, <1>11
  <2>2. reports # 0
    BY <1>4, <1>11 DEF QuietInv
  <2>3. QuietInv'
    BY <1>1, <2>2 DEF QuietInv
  <2>4. TierInv'
    BY <1>4, <1>10, <1>11, <2>1, Distinct DEF TierInv
  <2>5. WatchInv'
    BY <1>10, <1>11, <2>1 DEF WatchInv
  <2> QED BY <2>1, <2>3, <2>4, <2>5
\* The handler stops watching: somebody else does, or nothing is over.
<1>12. ASSUME NEW l \in {<<>>, Registering}, NEW t, Effect(i, l, t),
              reports = 0 => usage'.bytes_today = 0,
              sub' = sub \/ reports = 0,
              \/ usage'.bytes_today = 0
              \/ alerts'
              \/ ~Over(redis_get_tier, usage'.bytes_today) /\ UNCHANGED sub
              \/ h.left \notin Watching /\ UNCHANGED <<sub, alerts>>
                 /\ usage'.bytes_today = usage.bytes_today
       PROVE  ShapeInv' /\ QuietInv' /\ TierInv' /\ WatchInv'
  <2>1. /\ ShapeInv'
        /\ handler'[i].left = l
        /\ \A j \in BillingInstances \ {i} : handler'[j] = handler[j]
    BY <1>8, <1>9, <1>12
  <2>2. l \notin Watching \cup {redis_add_usage} /\ AfterTier \in Watching
    BY <1>12, Distinct DEF Watching
  <2>3. QuietInv'
    BY <1>1, <1>4, <1>10, <1>12, <2>1, <2>2 DEF QuietInv
  <2>4. TierInv'
    <3>1. ASSUME NEW j \in BillingInstances, handler'[j].left = AfterTier
          PROVE  handler'[j].tier = redis_get_tier'
      <4>1. j # i /\ handler'[j] = handler[j] /\ handler[j].left \in Watching
        BY <2>1, <2>2, <3>1
      <4>2. sub' = sub
        BY <1>4, <1>12, <4>1 DEF QuietInv
      <4> QED BY <1>4, <1>10, <3>1, <4>1, <4>2 DEF TierInv
    <3> QED BY <3>1 DEF TierInv, AfterTier
  <2>5. WatchInv'
    <3>1. CASE usage'.bytes_today = 0
      <4>1. ~Over(redis_get_tier, 0)'
        BY <1>7, ZeroIsUnder DEF redis_get_tier
      <4> QED BY <3>1, <4>1 DEF WatchInv
    <3>2. CASE alerts'
      BY <3>2 DEF WatchInv
    <3>3. CASE ~Over(redis_get_tier, usage'.bytes_today) /\ UNCHANGED sub
      <4>1. ~Over(redis_get_tier, usage.bytes_today)'
        BY <3>3 DEF Over, redis_get_tier
      <4> QED BY <4>1 DEF WatchInv
    <3>4. CASE h.left \notin Watching /\ UNCHANGED <<sub, alerts>>
               /\ usage'.bytes_today = usage.bytes_today
      <4>1. Over(redis_get_tier, usage.bytes_today)' => Over(redis_get_tier, usage.bytes_today)
        BY <3>4 DEF Over, redis_get_tier
      <4>2. ASSUME NEW j \in BillingInstances, handler[j].left \in Watching
            PROVE  handler'[j].left \in Watching'
        BY <1>10, <2>1, <3>4, <4>2
      <4> QED BY <1>4, <3>4, <4>1, <4>2 DEF WatchInv
    <3> QED BY <1>12, <3>1, <3>2, <3>3, <3>4
  <2> QED BY <2>1, <2>3, <2>4, <2>5
<1>13. CASE h.left \in {redis_add_usage, AfterToday, AfterMonth}
  <2>1. PICK l \in {AfterToday, AfterMonth, AfterTier}, t \in {h.tier, redis_get_tier} :
          Effect(i, l, t) /\ UNCHANGED sub /\ (l = AfterTier => t = redis_get_tier)
    BY <1>6, <1>13, Distinct, Moves DEF Watching
  <2> QED BY <1>11, <1>13, <2>1 DEF Watching
<1>14. CASE h.left = AfterTier
  <2>1. /\ Effect(i, IF Over(h.tier, usage.bytes_today) THEN Alerting ELSE <<>>, h.tier)
        /\ same /\ UNCHANGED <<sub, alerts>> /\ h.tier = redis_get_tier
    BY <1>4, <1>6, <1>14, Distinct DEF TierInv, Watching
  <2>2. CASE Over(h.tier, usage.bytes_today)
    BY <1>11, <1>14, <2>1, <2>2, Distinct DEF Watching
  <2>3. CASE ~Over(h.tier, usage.bytes_today)
    BY <1>4, <1>12, <1>14, <2>1, <2>3 DEF QuietInv
  <2> QED BY <2>2, <2>3
<1>15. CASE h.left = Alerting /\ Effect(i, <<>>, h.tier) /\ alerts' = TRUE /\ same /\ UNCHANGED sub
  BY <1>4, <1>12, <1>15 DEF QuietInv
<1>16. CASE h.left = Registering /\ Effect(i, <<>>, h.tier) /\ same /\ UNCHANGED <<sub, alerts>>
  BY <1>4, <1>12, <1>16, Distinct DEF QuietInv
<1>17. CASE Effect(i, <<>>, h.tier) /\ usage'.bytes_today = 0 /\ UNCHANGED sub
  BY <1>12, <1>17
<1>18. CASE Effect(i, Registering, h.tier) /\ c.op = "SET_tier" /\ same
  BY <1>4, <1>12, <1>18 DEF QuietInv
<1> QED BY <1>6, <1>13, <1>14, <1>15, <1>16, <1>17, <1>18

\* Steps after which nothing is promised any more, and a restart between requests.
LEMMA ExcusedStep ==
  ASSUME IInv, NEW i \in BillingInstances,
         CommandBreaks(i) \/ RunsOnWithoutRedis(i) \/ BillingRestart(i)
  PROVE  IInv'
<1>1. CASE CommandBreaks(i) \/ RunsOnWithoutRedis(i)
  BY <1>1 DEF CommandBreaks, RunsOnWithoutRedis, IInv
<1>2. CASE BillingRestart(i)
  <2>1. /\ excused' = (excused \/ handler[i] # Idle)
        /\ handler' = [handler EXCEPT ![i] = Idle]
        /\ UNCHANGED <<usage, sub, alerts, reports>>
    BY <1>2 DEF BillingRestart
  <2>2. reports' \in Nat /\ excused' \in BOOLEAN
    BY <2>1 DEF IInv
  <2>3. ASSUME ~excused' PROVE ShapeInv' /\ QuietInv' /\ TierInv' /\ WatchInv'
    <3>1. ~excused /\ handler[i] = Idle
      BY <2>1, <2>3, Zenon
    <3>2. ShapeInv /\ QuietInv /\ TierInv /\ WatchInv
      BY <3>1 DEF IInv
    <3>3. handler' = handler
      BY <2>1, <3>1, <3>2 DEF ShapeInv
    <3> QED
      BY <2>1, <3>2, <3>3
      DEF ShapeInv, QuietInv, TierInv, WatchInv, Over, redis_get_tier, Watching, Places
  <2> QED BY <2>2, <2>3 DEF IInv
<1> QED BY <1>1, <1>2

(* No overage goes unnoticed (redis_add_usage and the comparison after it), *)
(* however reports, resets and subscriptions of any number of instances     *)
(* interleave, as long as no command fails and no tier changes in between.  *)
THEOREM AlertOnCrossingHolds == BillingSpec => []AlertOnCrossing
<1>1. ASSUME IInv, [BillingNext]_billingVars PROVE IInv'
  <2>1. CASE UNCHANGED billingVars
    BY <1>1, <2>1
    DEF billingVars, IInv, ShapeInv, QuietInv, TierInv, WatchInv, Over, redis_get_tier
  <2>2. ASSUME NEW i \in BillingInstances,
               \/ PostUsage(i) \/ PostSubscribe(i) \/ PostReset(i) \/ BillingCommand(i)
               \/ CommandBreaks(i) \/ RunsOnWithoutRedis(i) \/ BillingRestart(i)
        PROVE  IInv'
    BY <1>1, <2>2, BeginStep, CommandStep, ExcusedStep
  <2> QED BY <1>1, <2>1, <2>2 DEF BillingNext
<1>2. BillingSpec => []IInv
  BY <1>1, InitHolds, PTL DEF BillingSpec
<1>3. IInv => AlertOnCrossing
  <2> SUFFICES ASSUME IInv, ~excused, \A i \in BillingInstances : handler[i] = Idle,
                      Over(redis_get_tier, usage.bytes_today)
               PROVE  alerts
    BY DEF AlertOnCrossing
  <2>1. \A i \in BillingInstances : handler[i].left \notin Watching
    <3>1. Idle.left = <<>>
      BY DEF Idle
    <3> QED BY <3>1, Distinct
  <2> QED BY <2>1 DEF IInv, WatchInv
<1> QED BY <1>2, <1>3, PTL
=============================================================================
