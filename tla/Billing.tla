------------------------------- MODULE Billing -------------------------------
(* The billing service (src/billing/billing_service.c): several instances,  *)
(* one thread each, account one user's traffic in one Redis.  A handler     *)
(* sends its Redis commands one by one and looks at no error; other         *)
(* instances run in between, a command may fail (the context then refuses   *)
(* all others) and a process may die between any two.  Users are separate   *)
(* keys, so one user stands for all.                                        *)
EXTENDS Integers, Sequences

CONSTANTS
  BillingInstances,
  Tiers,           \* tier_t
  DefaultTier,     \* TIER_FREE
  daily_bytes,     \* daily_bytes of each tier in TIERS, 0 for unlimited
  UsageReports,    \* the bytes a report may carry
  MaxReports,      \* bound: usage reports
  MaxAdmin         \* bound: subscriptions, resets and failures

ASSUME BillingAssumption ==
  /\ DefaultTier \in Tiers
  /\ daily_bytes \in [Tiers -> Nat]

NoTier == "none"

VARIABLES
  usage,       \* Redis: bytes_today and bytes_month of billing:usage
  sub,         \* Redis: the tier of billing:sub, or NoTier
  users,       \* Redis: the user is in billing:users
  handler,     \* of each instance: commands left, the report's bytes, the tier read
  alerts,      \* history: an alert was published since the last reset
  excused,     \* history: a command failed, a process died, or the tier changed
  billLink,    \* the redisContext of each instance has no error
  reports, admin

billingVars == <<usage, sub, users, handler, alerts, excused, billLink, reports, admin>>

Idle == [left |-> <<>>, bytes |-> 0, tier |-> NoTier]

BillingInit ==
  /\ usage = [bytes_today |-> 0, bytes_month |-> 0]
  /\ sub = NoTier
  /\ users = FALSE
  /\ handler = [i \in BillingInstances |-> Idle]
  /\ alerts = FALSE
  /\ excused = FALSE
  /\ billLink = [i \in BillingInstances |-> TRUE]
  /\ reports = 0
  /\ admin = 0

Cmd(op, t) == [op |-> op, tier |-> t]
Plain(op) == Cmd(op, NoTier)

\* Fault: the total is read before the report is added to it.
redis_add_usage_Fault ==
  <<Plain("GET_tier"), Plain("GET_usage"), Plain("INCR_today"), Plain("INCR_month")>>

\* conn_sec_today and last_day are written between these and read by nobody.
redis_add_usage ==
  <<Plain("INCR_today"), Plain("INCR_month"), Plain("GET_tier"), Plain("GET_usage")>>

redis_set_subscription(t) == <<Cmd("SET_tier", t), Plain("SADD_users")>>

redis_reset_daily == <<Plain("RESET")>>

Begins(i, commands, bytes) ==
  /\ handler[i] = Idle
  /\ handler' = [handler EXCEPT ![i] = [left |-> commands, bytes |-> bytes, tier |-> NoTier]]
  /\ UNCHANGED <<usage, sub, users, alerts, excused, billLink>>

PostUsage(i) ==
  /\ reports < MaxReports
  /\ reports' = reports + 1
  /\ \E b \in UsageReports : Begins(i, redis_add_usage, b)
  /\ UNCHANGED admin

PostSubscribe(i) ==
  /\ admin < MaxAdmin
  /\ admin' = admin + 1
  /\ \E t \in Tiers : Begins(i, redis_set_subscription(t), 0)
  /\ UNCHANGED reports

PostReset(i) ==
  /\ admin < MaxAdmin
  /\ admin' = admin + 1
  /\ Begins(i, redis_reset_daily, 0)
  /\ UNCHANGED reports

\* redis_get_tier: no subscription, or no reply, is the free tier.
redis_get_tier == IF sub = NoTier THEN DefaultTier ELSE sub

Over(t, bytes) == daily_bytes[t] > 0 /\ bytes > daily_bytes[t]

\* What is left to do for handler h after command c was carried out, its reply
\* included: an alert is published for what this handler read.
Continues(h, c) ==
  CASE c.op = "GET_tier" -> [h EXCEPT !.left = Tail(@), !.tier = redis_get_tier]
    [] c.op = "GET_usage" /\ Over(h.tier, usage.bytes_today) ->
         [h EXCEPT !.left = <<Plain("PUBLISH")>> \o Tail(@)]
    [] OTHER -> [h EXCEPT !.left = Tail(@)]

Finished(h) == IF h.left = <<>> THEN Idle ELSE h

\* What a command does in Redis.  bytes_month is never reset.
Carried(h, c) ==
  /\ usage' = CASE c.op = "INCR_today" -> [usage EXCEPT !.bytes_today = @ + h.bytes]
                [] c.op = "INCR_month" -> [usage EXCEPT !.bytes_month = @ + h.bytes]
                [] c.op = "RESET" -> [usage EXCEPT !.bytes_today = 0]
                [] OTHER -> usage
  /\ sub' = IF c.op = "SET_tier" THEN c.tier ELSE sub
  /\ users' = (users \/ c.op = "SADD_users")
  /\ alerts' = CASE c.op = "PUBLISH" -> TRUE
                 [] c.op = "RESET" -> FALSE
                 [] OTHER -> alerts

BillingCommand(i) ==
  LET h == handler[i]
      c == Head(h.left)
  IN /\ h # Idle /\ billLink[i]
     /\ Carried(h, c)
     /\ handler' = [handler EXCEPT ![i] = Finished(Continues(h, c))]
     /\ excused' = (excused \/ (c.op = "SET_tier" /\ reports > 0))
     /\ UNCHANGED <<billLink, reports, admin>>

\* The connection to Redis breaks before or after the command was carried out.
CommandBreaks(i) ==
  LET h == handler[i]
  IN /\ h # Idle /\ billLink[i]
     /\ admin < MaxAdmin
     /\ admin' = admin + 1
     /\ \/ Carried(h, Head(h.left))
        \/ UNCHANGED <<usage, sub, users, alerts>>
     /\ billLink' = [billLink EXCEPT ![i] = FALSE]
     /\ handler' = [handler EXCEPT ![i].left = Tail(@)]
     /\ excused' = TRUE
     /\ UNCHANGED reports

\* The handler runs on without Redis: what it reads is the free tier and no
\* usage, so it publishes nothing, and the request is answered as if it had
\* been accounted.
RunsOnWithoutRedis(i) ==
  /\ handler[i] # Idle /\ ~billLink[i]
  /\ handler' = [handler EXCEPT ![i] = Idle]
  /\ excused' = TRUE
  /\ UNCHANGED <<usage, sub, users, alerts, billLink, reports, admin>>

BillingRestart(i) ==
  /\ admin < MaxAdmin
  /\ admin' = admin + 1
  /\ handler' = [handler EXCEPT ![i] = Idle]
  /\ billLink' = [billLink EXCEPT ![i] = TRUE]
  /\ excused' = (excused \/ handler[i] # Idle)
  /\ UNCHANGED <<usage, sub, users, alerts, reports>>

BillingNext ==
  \E i \in BillingInstances :
    \/ PostUsage(i)
    \/ PostSubscribe(i)
    \/ PostReset(i)
    \/ BillingCommand(i)
    \/ CommandBreaks(i)
    \/ RunsOnWithoutRedis(i)
    \/ BillingRestart(i)

BillingSpec == BillingInit /\ [][BillingNext]_billingVars

(* No overage goes unnoticed: when all handlers have returned and the total *)
(* of the day is over the limit of the user's tier, an alert was published  *)
(* since the last reset, however the reports and resets of the instances    *)
(* interleaved.  (Not so after a failed command, a crash inside a handler   *)
(* or a change of tier between reports: nothing looks at the total again    *)
(* until the next report.)                                                  *)
AlertOnCrossing ==
  (~excused /\ \A i \in BillingInstances : handler[i] = Idle)
    => (Over(redis_get_tier, usage.bytes_today) => alerts)
=============================================================================
