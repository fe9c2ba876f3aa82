----------------------------- MODULE AuthProofs -----------------------------
(* Revocation in the token service, for any number of instances, devices    *)
(* and tokens.  RevokedStaysRevoked is not inductive: what may still be in  *)
(* an instance's handler matters.  A pending SETEX is for the instance's    *)
(* own fresh token, which nobody knows yet and so nobody can have revoked;  *)
(* a pending SADD either has its DEL in front of it or its token's key is   *)
(* gone already.                                                            *)
EXTENDS Auth, SequenceTheorems, TLAPS

Ops == {"SETEX", "HSET", "DEL", "SADD", "REGISTER"}

Commands == [op : Ops, token : Tokens \cup {Bogus, NoToken}, device : Devices]

TypeInv ==
  /\ todo \in [AuthInstances -> Seq(Commands)]
  /\ answer \in [AuthInstances -> Tokens \cup {NoToken}]
  /\ linked \in [AuthInstances -> BOOLEAN]
  /\ minted \subseteq Tokens
  /\ known \subseteq minted

\* The instances' fresh tokens: minted, not told to anybody, each one's own.
FreshInv ==
  /\ \A i \in AuthInstances : Serving(i) => answer[i] \in minted \ known
  /\ \A i, j \in AuthInstances : Serving(i) /\ answer[i] = answer[j] => i = j

IssueInv(i) ==
  \A k \in 1..Len(todo[i]) :
    todo[i][k].op = "SETEX" => Serving(i) /\ todo[i][k].token = answer[i]

\* Only tokens that were told to somebody are revoked, DEL before SADD.
RevokeInv(i) ==
  \A k \in 1..Len(todo[i]) :
    todo[i][k].op = "SADD" =>
      /\ todo[i][k].token \in known \cup {Bogus}
      /\ k = 1 /\ linked[i] => todo[i][k].token \notin live
      /\ k > 1 => todo[i][k - 1].op = "DEL" /\ todo[i][k - 1].token = todo[i][k].token

IInv ==
  /\ TypeInv
  /\ FreshInv
  /\ \A i \in AuthInstances : IssueInv(i) /\ RevokeInv(i)
  /\ blacklist \subseteq known \cup {Bogus}
  /\ RevokedStaysRevoked

-----------------------------------------------------------------------------
LEMMA InitHolds == AuthInit => IInv
BY DEF AuthInit, IInv, TypeInv, FreshInv, IssueInv, RevokeInv, Serving, RevokedStaysRevoked

\* The invariant reads nothing else.
LEMMA Unaffected ==
  ASSUME IInv, UNCHANGED <<live, blacklist, todo, answer, linked, minted, known>>
  PROVE  IInv'
BY DEF IInv, TypeInv, FreshInv, IssueInv, RevokeInv, Serving, RevokedStaysRevoked

\* Commands of a handler that issues t and can revoke old only.
Handles(s, t, old) ==
  /\ s \in Seq(Commands)
  /\ \A k \in 1..Len(s) :
       /\ s[k].op = "SETEX" => s[k].token = t
       /\ s[k].op = "SADD" => /\ s[k].token = old
                             /\ k > 1
                             /\ s[k - 1].op = "DEL" /\ s[k - 1].token = old

\* What the handlers of the three routes send.
LEMMA Handlers ==
  ASSUME NEW d \in Devices, NEW t \in Tokens, NEW old \in known \cup {Bogus}, TypeInv,
         NEW commands \in {<<>>, redis_blacklist_token(d, old), redis_register_device(d)},
         NEW s, s = commands \o redis_issue_token(d, t)
  PROVE  Handles(s, t, old)
<1> DEFINE issue == redis_issue_token(d, t)
           C(op, u) == [op |-> op, token |-> u, device |-> d]
<1>1. /\ C("SETEX", t) \in Commands /\ C("HSET", t) \in Commands
      /\ C("DEL", old) \in Commands /\ C("SADD", old) \in Commands
      /\ C("REGISTER", NoToken) \in Commands
  BY DEF Commands, Ops, TypeInv
<1>2. /\ issue \in Seq(Commands) /\ Len(issue) = 2
      /\ issue[1] = C("SETEX", t) /\ issue[2] = C("HSET", t)
  BY <1>1 DEF redis_issue_token, Command
<1>3. /\ commands \in Seq(Commands)
      /\ \/ Len(commands) = 0
         \/ Len(commands) = 2 /\ commands[1] = C("DEL", old) /\ commands[2] = C("SADD", old)
         \/ Len(commands) = 1 /\ commands[1] = C("REGISTER", NoToken)
  <2>1. CASE commands = <<>>
    BY <2>1
  <2>2. CASE commands = redis_blacklist_token(d, old)
    BY <1>1, <2>2 DEF redis_blacklist_token, Command
  <2>3. CASE commands = redis_register_device(d)
    BY <1>1, <2>3 DEF redis_register_device, Command
  <2> QED BY <2>1, <2>2, <2>3
<1>7. s = commands \o issue
  OBVIOUS
<1> HIDE DEF issue
<1>4. /\ s \in Seq(Commands)
      /\ Len(s) = Len(commands) + 2
      /\ \A k \in 1..Len(s) : s[k] = IF k <= Len(commands) THEN commands[k]
                                     ELSE issue[k - Len(commands)]
  <2>3. /\ commands \o issue \in Seq(Commands)
        /\ Len(commands \o issue) = Len(commands) + Len(issue)
    BY <1>2, <1>3, ConcatProperties
  <2>1. s \in Seq(Commands) /\ Len(s) = Len(commands) + Len(issue)
    BY <1>7, <2>3
  <2>2. \A k \in 1..Len(commands) + Len(issue) :
          s[k] = IF k <= Len(commands) THEN commands[k] ELSE issue[k - Len(commands)]
    BY <1>2, <1>3, <1>7, ConcatProperties
  <2> QED BY <1>2, <2>1, <2>2
<1>5. \A k \in 1..Len(s) : \/ k = Len(commands) + 1 /\ s[k] = C("SETEX", t)
                           \/ k = Len(commands) + 2 /\ s[k] = C("HSET", t)
                           \/ k \in 1..Len(commands) /\ s[k] = commands[k]
  <2> HIDE DEF C
  <2> QED BY <1>2, <1>3, <1>4
<1>6. ASSUME NEW k \in 1..Len(s)
      PROVE  /\ s[k].op = "SETEX" => s[k].token = t
             /\ s[k].op = "SADD" => /\ s[k].token = old
                                   /\ k > 1
                                   /\ s[k - 1].op = "DEL" /\ s[k - 1].token = old
  <2>1. CASE s[k] \in {C("SETEX", t), C("HSET", t)}
    BY <2>1
  <2>2. CASE k \in 1..Len(commands) /\ s[k] = commands[k]
    <3>1. CASE k = 1
      <4>1. s[k] \in {C("DEL", old), C("REGISTER", NoToken)}
        BY <1>3, <2>2, <3>1
      <4> QED BY <4>1
    <3>2. CASE k = 2
      <4>1. s[2] = C("SADD", old) /\ s[1] = commands[1] /\ commands[1] = C("DEL", old)
        BY <1>3, <1>4, <2>2, <3>2
      <4> QED BY <3>2, <4>1
    <3> QED BY <1>3, <2>2, <3>1, <3>2
  <2> QED BY <1>5, <2>1, <2>2
<1> QED BY <1>4, <1>6 DEF Handles

LEMMA ServeStep ==
  ASSUME IInv, NEW i \in AuthInstances, NEW d \in Devices, NEW old \in known \cup {Bogus},
         NEW commands \in {<<>>, redis_blacklist_token(d, old), redis_register_device(d)},
         Serve(i, d, commands)
  PROVE  IInv'
<1>1. PICK t \in Tokens \ minted :
        /\ minted' = minted \cup {t}
        /\ todo' = [todo EXCEPT ![i] = commands \o redis_issue_token(d, t)]
        /\ answer' = [answer EXCEPT ![i] = t]
  BY DEF Serve
<1> DEFINE s == commands \o redis_issue_token(d, t)
<1>2. UNCHANGED <<live, blacklist, linked, known>>
  BY DEF Serve
<1>4. /\ s = commands \o redis_issue_token(d, t)
      /\ todo' = [todo EXCEPT ![i] = s]
      /\ t \in Tokens /\ TypeInv
  BY <1>1 DEF IInv
<1> HIDE DEF s
<1>3. Handles(s, t, old)
  BY <1>4, Handlers
<1>5. TypeInv'
  BY <1>1, <1>2, <1>3, <1>4 DEF IInv, TypeInv, Handles
<1>6. FreshInv'
  BY <1>1, <1>2, AuthAssumption DEF IInv, TypeInv, FreshInv, Serving
<1>7. ASSUME NEW j \in AuthInstances PROVE IssueInv(j)' /\ RevokeInv(j)'
  <2>1. CASE j = i
    <3>1. todo'[j] = s /\ answer'[j] = t /\ t # NoToken
      BY <1>1, <1>4, <2>1, AuthAssumption DEF IInv, TypeInv
    <3>2. IssueInv(j)'
      BY <1>3, <3>1 DEF IssueInv, Serving, Handles
    <3>3. RevokeInv(j)'
      BY <1>2, <1>3, <3>1 DEF RevokeInv, Handles
    <3> QED BY <3>2, <3>3
  <2>2. CASE j # i
    <3>1. todo'[j] = todo[j] /\ answer'[j] = answer[j] /\ IssueInv(j) /\ RevokeInv(j)
      BY <1>1, <1>4, <2>2 DEF IInv, TypeInv
    <3> QED BY <1>2, <3>1 DEF IssueInv, RevokeInv, Serving
  <2> QED BY <2>1, <2>2
<1> QED BY <1>2, <1>5, <1>6, <1>7 DEF IInv, RevokedStaysRevoked

LEMMA RedisCommandStep ==
  ASSUME IInv, NEW i \in AuthInstances, RedisCommand(i)
  PROVE  IInv'
<1> DEFINE q == todo[i]
           c == q[1]
<1>1. /\ q \in Seq(Commands) /\ q # <<>> /\ 1 \in 1..Len(q) /\ c \in Commands
      /\ todo' = [todo EXCEPT ![i] = Tail(q)]
      /\ UNCHANGED <<answer, minted, known>>
  BY DEF RedisCommand, IInv, TypeInv
<1>2. /\ Tail(q) \in Seq(Commands) /\ Len(Tail(q)) = Len(q) - 1
      /\ \A k \in 1..Len(Tail(q)) : Tail(q)[k] = q[k + 1]
  BY <1>1, HeadTailProperties
<1>3. Head(q) = c
  BY <1>1
<1>4. \/ linked[i] /\ Apply(c) /\ linked' \in {linked, [linked EXCEPT ![i] = FALSE]}
      \/ linked' = [linked EXCEPT ![i] = FALSE] /\ UNCHANGED <<live, blacklist>>
  BY <1>3 DEF RedisCommand
<1>5. /\ live' \subseteq live \cup (IF c.op = "SETEX" THEN {c.token} ELSE {})
      /\ blacklist' \subseteq blacklist \cup
           (IF c.op = "SADD" /\ linked[i] THEN {c.token} ELSE {})
      /\ linked[i] /\ linked'[i] /\ c.op = "DEL" => c.token \notin live'
      /\ \A j \in AuthInstances : linked'[j] => linked[j]
      /\ linked' \in [AuthInstances -> BOOLEAN]
  BY <1>4 DEF Apply, IInv, TypeInv
<1>6. c.op = "SETEX" => Serving(i) /\ c.token = answer[i]
  BY <1>1 DEF IInv, IssueInv
<1>7. c.op = "SADD" => c.token \in known \cup {Bogus} /\ (linked[i] => c.token \notin live)
  BY <1>1 DEF IInv, RevokeInv
<1>8. c.op = "SETEX" => c.token \in minted \ known /\ c.token # Bogus
  BY <1>6, AuthAssumption DEF IInv, TypeInv, FreshInv
<1>9. TypeInv' /\ FreshInv'
  BY <1>1, <1>2, <1>5 DEF IInv, TypeInv, FreshInv, Serving
<1>10. blacklist' \subseteq known' \cup {Bogus} /\ RevokedStaysRevoked'
  BY <1>1, <1>5, <1>7, <1>8 DEF IInv, RevokedStaysRevoked
<1>11. ASSUME NEW j \in AuthInstances PROVE IssueInv(j)' /\ RevokeInv(j)'
  <2>1. CASE j = i
    <3>1. todo'[j] = Tail(q) /\ answer'[j] = answer[i] /\ (Serving(j)' <=> Serving(i))
      BY <1>1, <2>1 DEF IInv, TypeInv, Serving
    <3>2. IssueInv(i) /\ RevokeInv(i)
      BY DEF IInv
    <3>3. IssueInv(j)'
      <4>1. ASSUME NEW k \in 1..Len(Tail(q)), Tail(q)[k].op = "SETEX"
            PROVE  Serving(i) /\ Tail(q)[k].token = answer[i]
        <5>1. k + 1 \in 1..Len(q) /\ Tail(q)[k] = q[k + 1]
          BY <1>1, <1>2
        <5> QED BY <3>2, <4>1, <5>1 DEF IssueInv
      <4> QED BY <3>1, <4>1 DEF IssueInv
    <3>4. ASSUME NEW k \in 1..Len(Tail(q)), q[k + 1].op = "SADD"
          PROVE  /\ q[k + 1].token \in known \cup {Bogus}
                 /\ q[k].op = "DEL" /\ q[k].token = q[k + 1].token
                 /\ k > 1 => Tail(q)[k - 1] = q[k]
                 /\ k = 1 /\ linked'[i] => q[k + 1].token \notin live'
      <4>1. k + 1 \in 1..Len(q) /\ k + 1 > 1 /\ (k + 1) - 1 = k
        BY <1>1, <1>2
      <4>2. /\ q[k + 1].token \in known \cup {Bogus}
            /\ q[k].op = "DEL" /\ q[k].token = q[k + 1].token
        BY <3>2, <3>4, <4>1 DEF RevokeInv
      <4>3. k > 1 => Tail(q)[k - 1] = q[k]
        BY <1>1, <1>2
      <4>4. k = 1 /\ linked'[i] => q[k + 1].token \notin live'
        BY <1>5, <4>2
      <4> QED BY <4>2, <4>3, <4>4
    <3>5. RevokeInv(j)'
      <4>1. ASSUME NEW k \in 1..Len(Tail(q)), Tail(q)[k].op = "SADD"
            PROVE  /\ Tail(q)[k].token \in known \cup {Bogus}
                   /\ k = 1 /\ linked'[i] => Tail(q)[k].token \notin live'
                   /\ k > 1 => /\ Tail(q)[k - 1].op = "DEL"
                              /\ Tail(q)[k - 1].token = Tail(q)[k].token
        <5>1. Tail(q)[k] = q[k + 1]
          BY <1>2
        <5> QED BY <3>4, <4>1, <5>1
      <4> QED BY <1>1, <2>1, <3>1, <4>1 DEF RevokeInv
    <3> QED BY <3>3, <3>5
  <2>2. CASE j # i
    <3>1. todo'[j] = todo[j] /\ answer'[j] = answer[j] /\ IssueInv(j) /\ RevokeInv(j)
      BY <1>1, <2>2 DEF IInv, TypeInv
    <3> QED BY <1>1, <1>5, <1>8, <3>1 DEF IssueInv, RevokeInv, Serving
  <2> QED BY <2>1, <2>2
<1> QED BY <1>9, <1>10, <1>11 DEF IInv

LEMMA ReplyStep ==
  ASSUME IInv, NEW i \in AuthInstances, Reply(i)
  PROVE  IInv'
<1>1. /\ Serving(i) /\ todo[i] = <<>>
      /\ known' = known \cup {answer[i]}
      /\ answer' = [answer EXCEPT ![i] = NoToken]
      /\ UNCHANGED <<live, blacklist, todo, linked, minted>>
  BY DEF Reply
<1>2. TypeInv' /\ FreshInv'
  BY <1>1 DEF IInv, TypeInv, FreshInv, Serving
<1>3. ASSUME NEW j \in AuthInstances PROVE IssueInv(j)' /\ RevokeInv(j)'
  <2>1. IssueInv(j) /\ RevokeInv(j) /\ todo'[j] = todo[j]
    BY <1>1 DEF IInv
  <2>2. CASE j = i
    BY <1>1, <2>2 DEF IssueInv, RevokeInv
  <2>3. CASE j # i
    <3>1. answer'[j] = answer[j]
      BY <1>1, <2>3 DEF IInv, TypeInv
    <3>2. IssueInv(j)'
      BY <2>1, <3>1 DEF IssueInv, Serving
    <3>3. RevokeInv(j)'
      BY <1>1, <2>1 DEF RevokeInv
    <3> QED BY <3>2, <3>3
  <2> QED BY <2>2, <2>3
<1> QED BY <1>1, <1>2, <1>3 DEF IInv, RevokedStaysRevoked

LEMMA RestartStep ==
  ASSUME IInv, NEW i \in AuthInstances, AuthRestart(i)
  PROVE  IInv'
<1>1. /\ todo' = [todo EXCEPT ![i] = <<>>]
      /\ answer' = [answer EXCEPT ![i] = NoToken]
      /\ linked' = [linked EXCEPT ![i] = TRUE]
      /\ UNCHANGED <<live, blacklist, minted, known>>
  BY DEF AuthRestart
<1>2. TypeInv' /\ FreshInv'
  BY <1>1 DEF IInv, TypeInv, FreshInv, Serving
<1>3. ASSUME NEW j \in AuthInstances PROVE IssueInv(j)' /\ RevokeInv(j)'
  <2>1. CASE j = i
    <3>1. todo'[j] = <<>> /\ 1..Len(<<>>) = {}
      BY <1>1, <2>1 DEF IInv, TypeInv
    <3> QED BY <3>1 DEF IssueInv, RevokeInv
  <2>2. CASE j # i
    <3>1. /\ todo'[j] = todo[j] /\ answer'[j] = answer[j]
          /\ linked'[j] => linked[j]
          /\ IssueInv(j) /\ RevokeInv(j)
      BY <1>1, <2>2 DEF IInv, TypeInv
    <3>2. IssueInv(j)'
      BY <3>1 DEF IssueInv, Serving
    <3>3. RevokeInv(j)'
      BY <1>1, <3>1 DEF RevokeInv
    <3> QED BY <3>2, <3>3
  <2> QED BY <2>1, <2>2
<1> QED BY <1>1, <1>2, <1>3 DEF IInv, RevokedStaysRevoked

LEMMA ExpireStep ==
  ASSUME IInv, Expire
  PROVE  IInv'
BY DEF Expire, IInv, TypeInv, FreshInv, IssueInv, RevokeInv, Serving, RevokedStaysRevoked

LEMMA AuthStep ==
  ASSUME IInv, [AuthNext]_authVars
  PROVE  IInv'
<1>1. CASE UNCHANGED authVars
  BY <1>1, Unaffected DEF authVars
<1>2. CASE Expire
  BY <1>2, ExpireStep
<1>3. ASSUME NEW i \in AuthInstances, AuthAccept(i) \/ AuthClose(i)
      PROVE  IInv'
  BY <1>3, Unaffected DEF AuthAccept, AuthClose
<1>4. ASSUME NEW i \in AuthInstances, PostToken(i) \/ PostRegister(i)
      PROVE  IInv'
  <2>1. Bogus \in known \cup {Bogus}
    OBVIOUS
  <2> QED BY <1>4, <2>1, ServeStep DEF PostToken, PostRegister
<1>5. ASSUME NEW i \in AuthInstances, PostRefresh(i)
      PROVE  IInv'
  BY <1>5, ServeStep DEF PostRefresh
<1>6. ASSUME NEW i \in AuthInstances, RedisCommand(i) \/ Reply(i) \/ AuthRestart(i)
      PROVE  IInv'
  BY <1>6, RedisCommandStep, ReplyStep, RestartStep
<1> QED BY <1>1, <1>2, <1>3, <1>4, <1>5, <1>6 DEF AuthNext

(* A revoked token stays revoked (redis_blacklist_token, redis_issue_token) *)
(* for any number of instances, devices and tokens, also when instances die *)
(* or lose Redis between two commands.                                      *)
THEOREM RevokedStaysRevokedHolds == AuthSpec => []RevokedStaysRevoked
<1>1. AuthSpec => []IInv
  BY InitHolds, AuthStep, PTL DEF AuthSpec
<1>2. IInv => RevokedStaysRevoked
  BY DEF IInv
<1> QED BY <1>1, <1>2, PTL
=============================================================================
