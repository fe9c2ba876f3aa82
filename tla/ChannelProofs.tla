--------------------------- MODULE ChannelProofs ---------------------------
(* The secure channel for any number of attempts, replies, records and      *)
(* rotations.  The properties speak of what was sealed and opened in the    *)
(* past, so the invariant relates those records to the sessions: everything *)
(* sealed (opened) under the key and salt in use lies below the sequence    *)
(* number in use, and a key or salt that comes into use is newer than all   *)
(* of it.                                                                   *)
EXTENDS Channel, SequenceTheorems, TLAPS

Masters == [hello : Nat, reply : Nat]
KeySet == [master : Masters, rotated : Int, half : {1, 2}]
SessionSet ==
  [done : BOOLEAN, master : Masters,
   ekey : KeySet, esalt : Nat, eseq : Nat, dkey : KeySet, dsalt : Nat, dseq : Nat]
RecordSet == [from : Sides, key : KeySet, salt : Nat, seq : Nat]

TypeInv ==
  /\ session \in [Sides -> SessionSet]
  /\ records \in Seq(RecordSet)
  /\ opened \in [Sides -> Seq(RecordSet)]
  /\ {salts, hellos, replies, cctx} \subseteq Nat
  /\ cstate \in {"CONNECTING", "HANDSHAKING", "ESTABLISHED"}

\* The client sends one ClientHello; it is not used before its session is final.
HelloInv ==
  /\ cctx # 0 => cstate = "HANDSHAKING" /\ Hello(cctx) \in net
  /\ \A n \in Nat : Hello(n) \in net => cstate # "CONNECTING"
  /\ \A n, k \in Nat : Hello(n) \in net /\ Hello(k) \in net => n = k
  /\ \A m \in Nat : HelloAck(m) \in net => m \in 1..replies
  /\ cstate # "ESTABLISHED" =>
       /\ opened["client"] = <<>>
       /\ \A i \in 1..Len(records) : records[i].from # "client"

\* Before the first rotation the keys are those of a handshake.
KeyInv ==
  salts = 0 =>
    /\ replies > 0 =>
         \E n \in Nat : /\ Hello(n) \in net
                        /\ session["server"].ekey = Key(Master(n, replies), -1, EncryptHalf("server"))
                        /\ session["server"].dkey = Key(Master(n, replies), -1, 3 - EncryptHalf("server"))
    /\ cstate = "ESTABLISHED" =>
         \E n \in Nat, m \in 1..replies :
           /\ Hello(n) \in net
           /\ session["client"].ekey = Key(Master(n, m), -1, 1)
           /\ session["client"].dkey = Key(Master(n, m), -1, 2)

\* A key that was in use by the time of so many salts and replies.
Dated(s, key, salt, drawn, answered) ==
  salt <= drawn /\ (salt = 0 /\ s = "server" => key.master.reply <= answered)

\* One to seal with: the keys of a handshake belong to one side each.
Mine(s, key, salt, drawn, answered) ==
  Dated(s, key, salt, drawn, answered) /\ (salt = 0 => key.half = EncryptHalf(s))

SealInv ==
  /\ \A s \in Sides :
       session[s].done => Mine(s, session[s].ekey, session[s].esalt, salts, replies)
  /\ \A s \in Sides : session[s].esalt <= salts
  /\ session["client"].esalt # 0 => session["client"].esalt # session["server"].esalt
  /\ \A i \in 1..Len(records) :
       /\ Mine(records[i].from, records[i].key, records[i].salt, salts, replies)
       /\ \A s \in Sides :
            IF records[i].from = s
            THEN records[i].key = session[s].ekey /\ records[i].salt = session[s].esalt
                   => records[i].seq < session[s].eseq
            ELSE records[i].salt # 0 => records[i].salt # session[s].esalt

OpenInv ==
  \A s \in Sides :
    /\ session[s].done => Dated(s, session[s].dkey, session[s].dsalt, salts, replies)
    /\ \A i \in 1..Len(opened[s]) :
         /\ Dated(s, opened[s][i].key, opened[s][i].salt, salts, replies)
         /\ opened[s][i].key = session[s].dkey /\ opened[s][i].salt = session[s].dsalt
              => opened[s][i].seq < session[s].dseq

IInv == TypeInv /\ HelloInv /\ KeyInv /\ SealInv /\ NoncesFresh /\ OpenInv /\ OpensInOrder

-----------------------------------------------------------------------------
LEMMA Halves ==
  /\ \A s \in Sides : EncryptHalf(s) \in {1, 2} /\ 3 - EncryptHalf(s) \in {1, 2}
  /\ EncryptHalf("client") = 1
  /\ SwapRoles => EncryptHalf("server") = 2
BY DEF EncryptHalf, Sides

LEMMA Messages ==
  /\ \A n, k : Hello(n) = Hello(k) => n = k
  /\ \A n, k : HelloAck(n) = HelloAck(k) => n = k
  /\ \A n, k : Hello(n) # HelloAck(k)
  /\ \A n, v : Hello(n) # Fin(v) /\ HelloAck(n) # Fin(v)
<1>1. \A n : Hello(n).type = "HELLO" /\ Hello(n).n = n
  BY DEF Hello
<1>2. \A n : HelloAck(n).type = "HELLO_ACK" /\ HelloAck(n).m = n
  BY DEF HelloAck
<1>3. \A v : Fin(v).type = "FIN"
  BY DEF Fin
<1> QED BY <1>1, <1>2, <1>3

\* What rc_derive_session_keys leaves in a session.
LEMMA Derived ==
  ASSUME NEW s \in Sides, NEW n \in Nat, NEW m \in Nat, NEW x,
         x = derive_session_keys(s, n, m)
  PROVE  /\ x \in SessionSet /\ x.done
         /\ x.ekey = Key(Master(n, m), -1, EncryptHalf(s))
         /\ x.dkey = Key(Master(n, m), -1, 3 - EncryptHalf(s))
         /\ x.ekey.half = EncryptHalf(s) /\ x.dkey.half = 3 - EncryptHalf(s)
         /\ x.ekey.master.reply = m /\ x.dkey.master.reply = m
         /\ x.esalt = 0 /\ x.dsalt = 0 /\ x.eseq = 0 /\ x.dseq = 0
<1>1. Master(n, m) \in Masters /\ Master(n, m).reply = m
  BY DEF Master, Masters
<1>2. \A h \in {1, 2} : /\ Key(Master(n, m), -1, h) \in KeySet
                        /\ Key(Master(n, m), -1, h).half = h
                        /\ Key(Master(n, m), -1, h).master = Master(n, m)
  BY <1>1 DEF Key, KeySet
<1>3. x = [done |-> TRUE, master |-> Master(n, m),
           ekey |-> Key(Master(n, m), -1, EncryptHalf(s)), esalt |-> 0, eseq |-> 0,
           dkey |-> Key(Master(n, m), -1, 3 - EncryptHalf(s)), dsalt |-> 0, dseq |-> 0]
  BY DEF derive_session_keys
<1> QED BY <1>1, <1>2, <1>3, Halves DEF SessionSet

\* A session with one sequence number changed.
LEMMA Counted ==
  ASSUME NEW x \in SessionSet, NEW n \in Nat, NEW y,
         y = [x EXCEPT !.eseq = n] \/ y = [x EXCEPT !.dseq = n]
  PROVE  /\ y \in SessionSet
         /\ y.done = x.done
         /\ y.ekey = x.ekey /\ y.esalt = x.esalt
         /\ y.dkey = x.dkey /\ y.dsalt = x.dsalt
<1>1. y \in SessionSet
  BY DEF SessionSet
<1>2. y.done = x.done
  BY DEF SessionSet
<1>3. y.ekey = x.ekey /\ y.esalt = x.esalt /\ y.dkey = x.dkey /\ y.dsalt = x.dsalt
  BY DEF SessionSet
<1> QED BY <1>1, <1>2, <1>3

\* A session with new keys and salts, and its sequence numbers at 0.
LEMMA Rekeyed ==
  ASSUME NEW x \in SessionSet, NEW k \in KeySet, NEW l \in KeySet, NEW e \in Nat, NEW d \in Nat
  PROVE  [x EXCEPT !.ekey = k, !.esalt = e, !.dkey = l, !.dsalt = d, !.eseq = 0, !.dseq = 0]
           \in SessionSet
<1>1. [x EXCEPT !.ekey = k] \in SessionSet
  BY DEF SessionSet
<1>2. [x EXCEPT !.ekey = k, !.esalt = e] \in SessionSet
  BY <1>1 DEF SessionSet
<1>3. [x EXCEPT !.ekey = k, !.esalt = e, !.dkey = l] \in SessionSet
  BY <1>2 DEF SessionSet
<1>4. [x EXCEPT !.ekey = k, !.esalt = e, !.dkey = l, !.dsalt = d] \in SessionSet
  BY <1>3 DEF SessionSet
<1>5. [x EXCEPT !.ekey = k, !.esalt = e, !.dkey = l, !.dsalt = d, !.eseq = 0] \in SessionSet
  BY <1>4 DEF SessionSet
<1> QED BY <1>5 DEF SessionSet

LEMMA InitHolds == ChannelInit => IInv
<1> SUFFICES ASSUME ChannelInit PROVE IInv
  OBVIOUS
<1>1. "client" \in Sides /\ 0 \in Nat
  BY DEF Sides
<1> DEFINE x == derive_session_keys("client", 0, 0)
<1>2. x \in SessionSet /\ x.esalt = 0
  BY <1>1, Derived
<1>3. NoSession \in SessionSet /\ NoSession.esalt = 0 /\ NoSession.done = FALSE
  BY <1>2 DEF NoSession, SessionSet
<1>4. TypeInv
  BY <1>3 DEF ChannelInit, TypeInv
<1>5. HelloInv
  BY DEF ChannelInit, HelloInv, Sides
<1>6. KeyInv
  BY DEF ChannelInit, KeyInv
<1>7. SealInv
  BY <1>3 DEF ChannelInit, SealInv, Sides
<1>8. NoncesFresh
  BY DEF ChannelInit, NoncesFresh
<1>9. OpenInv /\ OpensInOrder
  BY <1>3 DEF ChannelInit, OpenInv, OpensInOrder
<1> QED BY <1>4, <1>5, <1>6, <1>7, <1>8, <1>9 DEF IInv

\* The conjuncts about records and sessions alone.
RecordInv == SealInv /\ NoncesFresh /\ OpenInv /\ OpensInOrder

LEMMA RecordsUnaffected ==
  ASSUME RecordInv, UNCHANGED <<session, records, opened, salts, replies>>
  PROVE  RecordInv'
BY DEF RecordInv, SealInv, NoncesFresh, OpenInv, OpensInOrder, Dated, Mine

LEMMA SendClientHelloStep ==
  ASSUME IInv, SendClientHello
  PROVE  IInv'
<1>1. /\ cstate = "CONNECTING" /\ hellos' = hellos + 1
      /\ UNCHANGED <<session, records, opened, salts, replies>>
      /\ \/ net' = net \cup {Hello(hellos + 1)} /\ cctx' = hellos + 1 /\ cstate' = "HANDSHAKING"
         \/ UNCHANGED <<net, cctx, cstate>>
  BY DEF SendClientHello
<1>2. TypeInv'
  BY <1>1 DEF IInv, TypeInv
<1>3. HelloInv'
  BY <1>1, Messages DEF IInv, TypeInv, HelloInv
<1>4. KeyInv'
  BY <1>1 DEF IInv, KeyInv
<1>5. RecordInv'
  BY <1>1, RecordsUnaffected DEF IInv, RecordInv
<1> QED BY <1>2, <1>3, <1>4, <1>5 DEF IInv, RecordInv

LEMMA ProcessFinishStep ==
  ASSUME IInv, ProcessFinish \/ UNCHANGED channelVars
  PROVE  IInv'
<1>1. UNCHANGED <<cstate, cctx, hellos, replies, session, net, records, opened, salts>>
  BY DEF ProcessFinish, channelVars
<1>2. TypeInv' /\ HelloInv' /\ KeyInv'
  BY <1>1 DEF IInv, TypeInv, HelloInv, KeyInv
<1>3. RecordInv'
  BY <1>1, RecordsUnaffected DEF IInv, RecordInv
<1> QED BY <1>2, <1>3 DEF IInv, RecordInv

LEMMA ProcessClientHelloStep ==
  ASSUME IInv, ProcessClientHello
  PROVE  IInv'
<1> DEFINE r == replies + 1
<1>1. PICK n \in 1..MaxHellos :
        /\ Hello(n) \in net
        /\ session' = [session EXCEPT !["server"] = derive_session_keys("server", n, r)]
        /\ net' \in {net, net \cup {HelloAck(r)}}
  BY DEF ProcessClientHello
<1>2. /\ replies' = r /\ UNCHANGED <<cstate, cctx, hellos, records, opened, salts>>
      /\ r \in Nat /\ n \in Nat /\ replies \in Nat
  BY ChannelAssumption DEF ProcessClientHello, IInv, TypeInv
<1> DEFINE x == session'["server"]
<1>3. /\ "server" \in Sides /\ session \in [Sides -> SessionSet]
      /\ x = derive_session_keys("server", n, r)
      /\ session'["client"] = session["client"]
  BY <1>1 DEF IInv, TypeInv, Sides
<1>4. /\ x \in SessionSet /\ x.done
      /\ x.ekey = Key(Master(n, r), -1, EncryptHalf("server"))
      /\ x.dkey = Key(Master(n, r), -1, 3 - EncryptHalf("server"))
      /\ x.ekey.half = EncryptHalf("server") /\ x.dkey.half = 3 - EncryptHalf("server")
      /\ x.ekey.master.reply = r /\ x.dkey.master.reply = r
      /\ x.esalt = 0 /\ x.dsalt = 0 /\ x.eseq = 0 /\ x.dseq = 0
  BY <1>2, <1>3, Derived
<1>5. TypeInv'
  BY <1>1, <1>2, <1>3, <1>4 DEF IInv, TypeInv
<1>6. HelloInv'
  BY <1>1, <1>2, Messages DEF IInv, TypeInv, HelloInv
<1>7. KeyInv'
  <2>1. Hello(n) \in net' /\ (\A k : Hello(k) \in net => Hello(k) \in net')
    BY <1>1
  <2> QED BY <1>2, <1>3, <1>4, <2>1 DEF IInv, KeyInv
<1> HIDE DEF x
<1>8. /\ \A s \in Sides \ {"server"} : session'[s] = session[s]
      /\ session'["server"] = x
  BY <1>3 DEF x, Sides
<1>9. \A s : \A key \in KeySet, salt \in Nat :
        /\ Dated(s, key, salt, salts, replies) => Dated(s, key, salt, salts', replies')
        /\ Mine(s, key, salt, salts, replies) => Mine(s, key, salt, salts', replies')
  BY <1>2 DEF Dated, Mine, KeySet, Masters
<1>10. SealInv'
  <2>1. \A i \in 1..Len(records) :
          /\ records[i] \in RecordSet
          /\ Mine(records[i].from, records[i].key, records[i].salt, salts, replies)
    BY DEF IInv, TypeInv, SealInv
  <2>2. ASSUME NEW s \in Sides, session'[s].done
        PROVE  Mine(s, session'[s].ekey, session'[s].esalt, salts', replies')
    <3>1. CASE s = "server"
      BY <1>2, <1>4, <1>8, <3>1 DEF IInv, TypeInv, Dated, Mine
    <3>2. CASE s # "server"
      <4>1. session'[s] = session[s] /\ session[s].ekey \in KeySet /\ session[s].esalt \in Nat
        BY <1>3, <1>8, <3>2 DEF SessionSet
      <4> QED BY <1>9, <2>2, <4>1 DEF IInv, SealInv
    <3> QED BY <3>1, <3>2
  <2>3. /\ \A s \in Sides : session'[s].esalt <= salts'
        /\ session'["client"].esalt # 0 => session'["client"].esalt # session'["server"].esalt
    BY <1>2, <1>4, <1>8 DEF IInv, TypeInv, SealInv, Sides
  <2>4. ASSUME NEW i \in 1..Len(records), NEW s \in Sides
        PROVE  IF records[i].from = s
               THEN records[i].key = session'[s].ekey /\ records[i].salt = session'[s].esalt
                      => records[i].seq < session'[s].eseq
               ELSE records[i].salt # 0 => records[i].salt # session'[s].esalt
    <3>1. CASE s = "server"
      BY <1>2, <1>4, <1>8, <2>1, <3>1 DEF Dated, Mine, RecordSet, KeySet, Masters
    <3>2. CASE s # "server"
      BY <1>8, <3>2 DEF IInv, SealInv
    <3> QED BY <3>1, <3>2
  <2>5. \A i \in 1..Len(records) :
          Mine(records[i].from, records[i].key, records[i].salt, salts', replies')
    BY <1>9, <2>1 DEF RecordSet
  <2> QED BY <1>2, <2>2, <2>3, <2>4, <2>5 DEF SealInv
<1>11. OpenInv'
  <2>1. ASSUME NEW s \in Sides, session'[s].done
        PROVE  Dated(s, session'[s].dkey, session'[s].dsalt, salts', replies')
    <3>1. CASE s = "server"
      BY <1>2, <1>4, <1>8, <3>1 DEF IInv, TypeInv, Dated
    <3>2. CASE s # "server"
      <4>1. session'[s] = session[s] /\ session[s].dkey \in KeySet /\ session[s].dsalt \in Nat
        BY <1>3, <1>8, <3>2 DEF SessionSet
      <4> QED BY <1>9, <2>1, <4>1 DEF IInv, OpenInv
    <3> QED BY <3>1, <3>2
  <2>2. ASSUME NEW s \in Sides, NEW i \in 1..Len(opened[s])
        PROVE  /\ Dated(s, opened[s][i].key, opened[s][i].salt, salts', replies')
               /\ opened[s][i].key = session'[s].dkey /\ opened[s][i].salt = session'[s].dsalt
                    => opened[s][i].seq < session'[s].dseq
    <3>1. /\ opened[s][i] \in RecordSet
          /\ Dated(s, opened[s][i].key, opened[s][i].salt, salts, replies)
      BY DEF IInv, TypeInv, OpenInv
    <3>2. Dated(s, opened[s][i].key, opened[s][i].salt, salts', replies')
      BY <1>9, <3>1 DEF RecordSet
    <3>3. CASE s = "server"
      BY <1>2, <1>4, <1>8, <3>1, <3>2, <3>3 DEF Dated, RecordSet, KeySet, Masters
    <3>4. CASE s # "server"
      BY <1>8, <3>2, <3>4 DEF IInv, OpenInv
    <3> QED BY <3>3, <3>4
  <2> QED BY <1>2, <2>1, <2>2 DEF OpenInv
<1>12. NoncesFresh' /\ OpensInOrder'
  BY <1>2 DEF IInv, NoncesFresh, OpensInOrder
<1> QED BY <1>5, <1>6, <1>7, <1>10, <1>11, <1>12 DEF IInv

LEMMA ProcessServerHelloStep ==
  ASSUME IInv, ProcessServerHello
  PROVE  IInv'
<1>1. PICK m \in 1..MaxReplies, sentWhole \in BOOLEAN :
        /\ HelloAck(m) \in net
        /\ session' = [session EXCEPT !["client"] = derive_session_keys("client", cctx, m)]
        /\ cctx' = IF sentWhole THEN 0 ELSE cctx
        /\ IF sentWhole
           THEN /\ net' = net \cup {Fin(ClientTranscript(cctx, m))}
                /\ cstate' = "ESTABLISHED"
           ELSE UNCHANGED <<net, cstate>>
  BY DEF ProcessServerHello, ContextAfterFinish
<1>2. /\ UNCHANGED <<hellos, replies, records, opened, salts>>
      /\ cctx # 0 /\ cctx \in Nat /\ m \in Nat /\ m \in 1..replies
      /\ cstate = "HANDSHAKING" /\ Hello(cctx) \in net
  BY <1>1, ChannelAssumption DEF ProcessServerHello, IInv, TypeInv, HelloInv
<1> DEFINE x == session'["client"]
<1>3. /\ "client" \in Sides /\ session \in [Sides -> SessionSet]
      /\ x = derive_session_keys("client", cctx, m)
      /\ session'["server"] = session["server"]
  BY <1>1 DEF IInv, TypeInv, Sides
<1>4. /\ x \in SessionSet /\ x.done
      /\ x.ekey = Key(Master(cctx, m), -1, EncryptHalf("client"))
      /\ x.dkey = Key(Master(cctx, m), -1, 3 - EncryptHalf("client"))
      /\ x.ekey.half = EncryptHalf("client") /\ x.dkey.half = 3 - EncryptHalf("client")
      /\ x.esalt = 0 /\ x.dsalt = 0 /\ x.eseq = 0 /\ x.dseq = 0
  BY <1>2, <1>3, Derived
<1>5. TypeInv'
  BY <1>1, <1>2, <1>3, <1>4 DEF IInv, TypeInv
<1>6. HelloInv'
  BY <1>1, <1>2, Messages DEF IInv, TypeInv, HelloInv
<1>7. KeyInv'
  <2>1. \A k : Hello(k) \in net => Hello(k) \in net'
    BY <1>1
  <2>2. salts = 0 /\ replies > 0 =>
          \E n \in Nat :
            /\ Hello(n) \in net'
            /\ session'["server"].ekey = Key(Master(n, replies), -1, EncryptHalf("server"))
            /\ session'["server"].dkey = Key(Master(n, replies), -1, 3 - EncryptHalf("server"))
    BY <1>3, <2>1 DEF IInv, KeyInv
  <2>3. x.ekey = Key(Master(cctx, m), -1, 1) /\ x.dkey = Key(Master(cctx, m), -1, 2)
    BY <1>4, Halves
  <2> QED BY <1>2, <2>1, <2>2, <2>3 DEF KeyInv
<1> HIDE DEF x
<1>8. /\ session'["server"] = session["server"] /\ session'["client"] = x
      /\ opened["client"] = <<>>
  BY <1>2, <1>3 DEF x, IInv, HelloInv
<1>13. \A i \in 1..Len(records) : records[i].from = "server"
  <2>1. \A i \in 1..Len(records) : records[i] \in RecordSet /\ records[i].from # "client"
    BY <1>2 DEF IInv, TypeInv, HelloInv
  <2> QED BY <2>1 DEF RecordSet, Sides
<1>10. SealInv'
  <2>1. ASSUME NEW s \in Sides, session'[s].done
        PROVE  Mine(s, session'[s].ekey, session'[s].esalt, salts', replies')
    <3>1. CASE s = "client"
      BY <1>2, <1>4, <1>8, <3>1 DEF IInv, TypeInv, Dated, Mine
    <3>2. CASE s = "server"
      BY <1>2, <1>8, <2>1, <3>2 DEF IInv, SealInv
    <3> QED BY <3>1, <3>2 DEF Sides
  <2>2. /\ \A s \in Sides : session'[s].esalt <= salts'
        /\ session'["client"].esalt # 0 => session'["client"].esalt # session'["server"].esalt
    BY <1>2, <1>4, <1>8 DEF IInv, TypeInv, SealInv, Sides
  <2>3. ASSUME NEW i \in 1..Len(records), NEW s \in Sides
        PROVE  IF records[i].from = s
               THEN records[i].key = session'[s].ekey /\ records[i].salt = session'[s].esalt
                      => records[i].seq < session'[s].eseq
               ELSE records[i].salt # 0 => records[i].salt # session'[s].esalt
    BY <1>4, <1>8, <1>13 DEF IInv, SealInv, Sides
  <2>4. \A i \in 1..Len(records) :
          Mine(records[i].from, records[i].key, records[i].salt, salts', replies')
    BY <1>2 DEF IInv, SealInv
  <2> QED BY <1>2, <2>1, <2>2, <2>3, <2>4 DEF SealInv
<1>11. OpenInv'
  <2>1. ASSUME NEW s \in Sides, session'[s].done
        PROVE  Dated(s, session'[s].dkey, session'[s].dsalt, salts', replies')
    <3>1. CASE s = "client"
      BY <1>2, <1>4, <1>8, <3>1 DEF IInv, TypeInv, Dated
    <3>2. CASE s = "server"
      BY <1>2, <1>8, <2>1, <3>2 DEF IInv, OpenInv
    <3> QED BY <3>1, <3>2 DEF Sides
  <2>2. ASSUME NEW s \in Sides, NEW i \in 1..Len(opened[s])
        PROVE  /\ Dated(s, opened[s][i].key, opened[s][i].salt, salts', replies')
               /\ opened[s][i].key = session'[s].dkey /\ opened[s][i].salt = session'[s].dsalt
                    => opened[s][i].seq < session'[s].dseq
    <3>1. s = "server"
      BY <1>8 DEF Sides
    <3> QED BY <1>2, <1>8, <3>1 DEF IInv, OpenInv
  <2> QED BY <1>2, <2>1, <2>2 DEF OpenInv
<1>12. NoncesFresh' /\ OpensInOrder'
  BY <1>2 DEF IInv, NoncesFresh, OpensInOrder
<1> QED BY <1>5, <1>6, <1>7, <1>10, <1>11, <1>12 DEF IInv

LEMMA RecordEncryptStep ==
  ASSUME IInv, NEW s \in Sides, RecordEncrypt(s)
  PROVE  IInv'
<1> DEFINE old == session[s]
           rec == [from |-> s, key |-> old.ekey, salt |-> old.esalt, seq |-> old.eseq]
           L == Len(records)
<1>1. /\ old.done /\ (s = "client" => cstate = "ESTABLISHED")
      /\ records' = Append(records, rec)
      /\ session' = [session EXCEPT ![s].eseq = @ + 1]
      /\ UNCHANGED <<cstate, cctx, hellos, replies, net, opened, salts>>
  BY DEF RecordEncrypt, Sealed, Usable, handshakeVars
<1>2. /\ old \in SessionSet /\ rec \in RecordSet /\ records \in Seq(RecordSet)
      /\ old.eseq \in Nat /\ old.esalt \in Nat /\ session \in [Sides -> SessionSet]
  BY DEF IInv, TypeInv, SessionSet, RecordSet
<1>3. /\ records' \in Seq(RecordSet) /\ Len(records') = L + 1 /\ L \in Nat
      /\ records'[L + 1] = rec
      /\ \A i \in 1..L : records'[i] = records[i]
  BY <1>1, <1>2
<1>4. /\ session' \in [Sides -> SessionSet]
      /\ session'[s].eseq = old.eseq + 1
      /\ \A p \in Sides : /\ session'[p].ekey = session[p].ekey
                          /\ session'[p].esalt = session[p].esalt
                          /\ session'[p].dkey = session[p].dkey
                          /\ session'[p].dsalt = session[p].dsalt
                          /\ session'[p].dseq = session[p].dseq
                          /\ session'[p].done = session[p].done
                          /\ p # s => session'[p].eseq = session[p].eseq
  <2> DEFINE new == [old EXCEPT !.eseq = old.eseq + 1]
  <2>1. /\ new \in SessionSet /\ new.eseq = old.eseq + 1
        /\ new.ekey = old.ekey /\ new.esalt = old.esalt /\ new.dkey = old.dkey
        /\ new.dsalt = old.dsalt /\ new.dseq = old.dseq /\ new.done = old.done
    <3>1. new.eseq = old.eseq + 1 /\ new.dseq = old.dseq
      BY <1>2 DEF SessionSet
    <3>2. old.eseq + 1 \in Nat
      BY <1>2
    <3> QED BY <1>2, <3>1, <3>2, Counted
  <2>2. session'[s] = new /\ \A p \in Sides : p # s => session'[p] = session[p]
    BY <1>1, <1>2
  <2>3. session' = [session EXCEPT ![s] = new]
    BY <1>1
  <2> HIDE DEF new
  <2> QED BY <1>2, <2>1, <2>2, <2>3
<1> HIDE DEF rec
<1>5. rec.from = s /\ rec.key = old.ekey /\ rec.salt = old.esalt /\ rec.seq = old.eseq
  BY DEF rec
<1>6. TypeInv'
  BY <1>1, <1>3, <1>4 DEF IInv, TypeInv
<1>7. HelloInv'
  BY <1>1, <1>3, <1>5 DEF IInv, HelloInv
<1>8. KeyInv'
  BY <1>1, <1>4 DEF IInv, KeyInv, Sides
<1>9. ASSUME NEW i \in 1..L
      PROVE  /\ records[i] \in RecordSet
             /\ Mine(records[i].from, records[i].key, records[i].salt, salts, replies)
             /\ \A p \in Sides :
                  IF records[i].from = p
                  THEN records[i].key = session[p].ekey /\ records[i].salt = session[p].esalt
                         => records[i].seq < session[p].eseq
                  ELSE records[i].salt # 0 => records[i].salt # session[p].esalt
  BY DEF IInv, TypeInv, SealInv
<1>10. SealInv'
  <2>1. \A p \in Sides :
          session'[p].done => Mine(p, session'[p].ekey, session'[p].esalt, salts', replies')
    BY <1>1, <1>4 DEF IInv, SealInv
  <2>2. /\ \A p \in Sides : session'[p].esalt <= salts'
        /\ session'["client"].esalt # 0 => session'["client"].esalt # session'["server"].esalt
    BY <1>1, <1>4 DEF IInv, SealInv, Sides
  <2>3. ASSUME NEW i \in 1..L + 1, NEW p \in Sides
        PROVE  IF records'[i].from = p
               THEN records'[i].key = session'[p].ekey /\ records'[i].salt = session'[p].esalt
                      => records'[i].seq < session'[p].eseq
               ELSE records'[i].salt # 0 => records'[i].salt # session'[p].esalt
    <3>1. CASE i = L + 1
      <4>1. CASE p = s
        BY <1>2, <1>3, <1>4, <1>5, <3>1, <4>1
      <4>2. CASE p # s
        BY <1>3, <1>4, <1>5, <3>1, <4>2 DEF IInv, SealInv, Sides
      <4> QED BY <4>1, <4>2
    <3>2. CASE i # L + 1
      <4>1. i \in 1..L /\ records'[i] = records[i] /\ records[i].seq \in Nat
        BY <1>3, <1>9, <3>2 DEF RecordSet
      <4>2. CASE p = s
        BY <1>2, <1>4, <1>9, <4>1, <4>2
      <4>3. CASE p # s
        BY <1>4, <1>9, <4>1, <4>3
      <4> QED BY <4>2, <4>3
    <3> QED BY <3>1, <3>2
  <2>4. ASSUME NEW i \in 1..L + 1
        PROVE  Mine(records'[i].from, records'[i].key, records'[i].salt, salts', replies')
    <3>1. CASE i = L + 1
      BY <1>1, <1>3, <1>5, <3>1 DEF IInv, SealInv
    <3>2. CASE i # L + 1
      <4>1. i \in 1..L /\ records'[i] = records[i]
        BY <1>3, <3>2
      <4> QED BY <1>1, <1>9, <4>1
    <3> QED BY <3>1, <3>2
  <2> QED BY <1>3, <2>1, <2>2, <2>3, <2>4 DEF SealInv
<1>11. NoncesFresh'
  <2>1. ASSUME SwapRoles, NEW i \in 1..L
        PROVE  <<records[i].key, records[i].salt, records[i].seq>>
                 # <<rec.key, rec.salt, rec.seq>>
    <3>1. CASE records[i].from = s
      <4>1. ~(/\ records[i].key = rec.key /\ records[i].salt = rec.salt
              /\ records[i].seq = rec.seq)
        BY <1>2, <1>5, <1>9, <3>1
      <4> QED BY <4>1
    <3>2. CASE records[i].from # s
      <4>1. /\ records[i].from \in Sides
            /\ records[i].salt = 0 => records[i].key.half = EncryptHalf(records[i].from)
            /\ records[i].salt # 0 => records[i].salt # rec.salt
        BY <1>5, <1>9, <3>2 DEF Mine, RecordSet
      <4>2. rec.salt = 0 => rec.key.half = EncryptHalf(s)
        BY <1>1, <1>5 DEF IInv, SealInv, Mine
      <4>3. EncryptHalf(records[i].from) # EncryptHalf(s)
        BY <2>1, <3>2, <4>1, Halves DEF Sides
      <4> QED BY <4>1, <4>2, <4>3
    <3> QED BY <3>1, <3>2
  <2>2. DOMAIN records = 1..L /\ DOMAIN records' = 1..L + 1
    BY <1>2, <1>3
  <2>3. ASSUME SwapRoles, NEW i \in 1..L + 1, NEW j \in 1..L + 1, i # j
        PROVE  <<records'[i].key, records'[i].salt, records'[i].seq>>
                 # <<records'[j].key, records'[j].salt, records'[j].seq>>
    <3>1. CASE i = L + 1
      <4>1. j \in 1..L /\ records'[j] = records[j] /\ records'[i] = rec
        BY <1>3, <2>3, <3>1
      <4> QED BY <2>1, <2>3, <4>1
    <3>2. CASE j = L + 1
      <4>1. i \in 1..L /\ records'[i] = records[i] /\ records'[j] = rec
        BY <1>3, <2>3, <3>2
      <4> QED BY <2>1, <2>3, <4>1
    <3>3. CASE i # L + 1 /\ j # L + 1
      <4>1. i \in 1..L /\ j \in 1..L /\ records'[i] = records[i] /\ records'[j] = records[j]
        BY <1>3, <3>3
      <4> QED BY <2>2, <2>3, <4>1 DEF IInv, NoncesFresh
    <3> QED BY <3>1, <3>2, <3>3
  <2> QED BY <2>2, <2>3 DEF NoncesFresh
<1>12. OpenInv' /\ OpensInOrder'
  BY <1>1, <1>4 DEF IInv, OpenInv, OpensInOrder
<1> QED BY <1>6, <1>7, <1>8, <1>10, <1>11, <1>12 DEF IInv

LEMMA RecordDecryptStep ==
  ASSUME IInv, NEW s \in Sides, RecordDecrypt(s)
  PROVE  IInv'
<1> DEFINE old == session[s]
           new == [old EXCEPT !.dseq = old.dseq + 1]
           L == Len(opened[s])
<1>1. PICK j \in DOMAIN records :
        /\ records[j].from = Peer(s)
        /\ opened' = IF Opens(s, records[j])
                     THEN [opened EXCEPT ![s] = Append(@, records[j])] ELSE opened
  BY DEF RecordDecrypt
<1>2. /\ old.done /\ (s = "client" => cstate = "ESTABLISHED")
      /\ session' = [session EXCEPT ![s] = new]
      /\ UNCHANGED <<cstate, cctx, hellos, replies, net, records, salts>>
  BY DEF RecordDecrypt, Usable, handshakeVars
<1>3. /\ session \in [Sides -> SessionSet] /\ old \in SessionSet /\ old.dseq \in Nat
      /\ opened \in [Sides -> Seq(RecordSet)] /\ records[j] \in RecordSet /\ L \in Nat
  BY DEF IInv, TypeInv, SessionSet
<1>4. /\ new \in SessionSet /\ new.dseq = old.dseq + 1
      /\ new.ekey = old.ekey /\ new.esalt = old.esalt /\ new.dkey = old.dkey
      /\ new.dsalt = old.dsalt /\ new.eseq = old.eseq /\ new.done = old.done
  <2>1. new.dseq = old.dseq + 1 /\ new.eseq = old.eseq
    BY <1>3 DEF SessionSet
  <2>2. old.dseq + 1 \in Nat
    BY <1>3
  <2> QED BY <1>3, <2>1, <2>2, Counted
<1> HIDE DEF new
<1>5. session'[s] = new /\ \A p \in Sides : p # s => session'[p] = session[p]
  BY <1>2, <1>3
<1>6. TypeInv'
  BY <1>1, <1>2, <1>3, <1>4 DEF IInv, TypeInv
<1>7. HelloInv'
  <2>1. s # "client" => opened'["client"] = opened["client"]
    BY <1>1, <1>3 DEF Sides
  <2> QED BY <1>2, <2>1 DEF IInv, HelloInv
<1>8. KeyInv'
  BY <1>2, <1>4, <1>5 DEF IInv, KeyInv, Sides
<1>9. SealInv'
  <2>1. \A p \in Sides : /\ session'[p].ekey = session[p].ekey
                         /\ session'[p].esalt = session[p].esalt
                         /\ session'[p].eseq = session[p].eseq
                         /\ session'[p].done = session[p].done
    BY <1>4, <1>5
  <2> QED BY <1>2, <2>1 DEF IInv, SealInv, Sides
<1>10. NoncesFresh'
  BY <1>2 DEF IInv, NoncesFresh
<1>11. ASSUME NEW i \in 1..Len(opened'[s])
       PROVE  \/ i \in 1..L /\ opened'[s][i] = opened[s][i]
              \/ i = L + 1 /\ opened'[s][i] = records[j] /\ Opens(s, records[j])
  BY <1>1, <1>3
<1>12. \A p \in Sides : p # s => opened'[p] = opened[p]
  BY <1>1, <1>3
<1>13. \A i \in 1..L : /\ opened[s][i] \in RecordSet
                       /\ Dated(s, opened[s][i].key, opened[s][i].salt, salts, replies)
                       /\ opened[s][i].key = old.dkey /\ opened[s][i].salt = old.dsalt
                            => opened[s][i].seq < old.dseq
  BY <1>3 DEF IInv, OpenInv
<1>14. OpenInv'
  <2>1. ASSUME NEW p \in Sides, session'[p].done
        PROVE  Dated(p, session'[p].dkey, session'[p].dsalt, salts', replies')
    BY <1>2, <1>4, <1>5, <2>1 DEF IInv, OpenInv
  <2>2. ASSUME NEW p \in Sides, NEW i \in 1..Len(opened'[p])
        PROVE  /\ Dated(p, opened'[p][i].key, opened'[p][i].salt, salts', replies')
               /\ opened'[p][i].key = session'[p].dkey /\ opened'[p][i].salt = session'[p].dsalt
                    => opened'[p][i].seq < session'[p].dseq
    <3>1. CASE p # s
      BY <1>2, <1>5, <1>12, <2>2, <3>1 DEF IInv, OpenInv
    <3>2. CASE p = s
      <4>1. CASE i \in 1..L /\ opened'[s][i] = opened[s][i]
        <5>1. opened[s][i].seq \in Nat
          BY <1>13, <4>1 DEF RecordSet
        <5> QED BY <1>2, <1>3, <1>4, <1>5, <1>13, <3>2, <4>1, <5>1
      <4>2. CASE opened'[s][i] = records[j] /\ Opens(s, records[j])
        <5>1. records[j].key = old.dkey /\ records[j].salt = old.dsalt /\ records[j].seq = old.dseq
          BY <4>2 DEF Opens
        <5> QED BY <1>2, <1>3, <1>4, <1>5, <3>2, <4>2, <5>1 DEF IInv, OpenInv
      <4> QED BY <1>11, <2>2, <3>2, <4>1, <4>2
    <3> QED BY <3>1, <3>2
  <2> QED BY <2>1, <2>2 DEF OpenInv
<1>15. OpensInOrder'
  <2>1. ASSUME NEW p \in Sides, NEW i \in 1..Len(opened'[p]), NEW k \in 1..Len(opened'[p])
        PROVE  /\ opened'[p][i].from = Peer(p)
               /\ i < k /\ opened'[p][i].key = opened'[p][k].key
                        /\ opened'[p][i].salt = opened'[p][k].salt
                    => opened'[p][i].seq < opened'[p][k].seq
    <3>1. \A q \in Sides : DOMAIN opened[q] = 1..Len(opened[q])
      BY <1>3
    <3>2. CASE p # s
      BY <1>12, <2>1, <3>1, <3>2 DEF IInv, OpensInOrder
    <3>3. CASE p = s
      <4>1. opened'[p][i].from = Peer(p)
        BY <1>1, <1>11, <2>1, <3>1, <3>3 DEF IInv, OpensInOrder
      <4>2. ASSUME i < k
            PROVE  i \in 1..L /\ opened'[s][i] = opened[s][i]
        <5>1. k \in 1..L \/ k = L + 1
          BY <1>11, <2>1, <3>3
        <5>2. i \in Int /\ k \in Int /\ L \in Nat
          BY <1>3, <2>1
        <5>3. i # L + 1
          BY <4>2, <5>1, <5>2
        <5> QED BY <1>11, <2>1, <3>3, <5>3
      <4>3. CASE k \in 1..L /\ opened'[s][k] = opened[s][k]
        BY <3>1, <3>3, <4>1, <4>2, <4>3 DEF IInv, OpensInOrder
      <4>4. CASE opened'[s][k] = records[j] /\ Opens(s, records[j])
        BY <1>13, <3>3, <4>1, <4>2, <4>4 DEF Opens
      <4> QED BY <1>11, <2>1, <3>3, <4>3, <4>4
    <3> QED BY <3>2, <3>3
  <2>2. \A p \in Sides : DOMAIN opened'[p] = 1..Len(opened'[p])
    BY <1>6 DEF TypeInv
  <2> QED BY <2>1, <2>2 DEF OpensInOrder
<1> QED BY <1>6, <1>7, <1>8, <1>9, <1>10, <1>14, <1>15 DEF IInv

LEMMA RotateKeysStep ==
  ASSUME IInv, NEW s \in Sides, RotateKeys(s)
  PROVE  IInv'
<1> DEFINE old == session[s]
           new == [old EXCEPT !.ekey = Key(old.master, old.eseq, 1), !.esalt = salts + 1,
                              !.dkey = Key(old.master, old.eseq, 2), !.dsalt = salts + 2,
                              !.eseq = 0, !.dseq = 0]
<1>1. /\ salts' = salts + 2
      /\ session' = [session EXCEPT ![s] = new]
      /\ UNCHANGED <<cstate, cctx, hellos, replies, net, records, opened>>
  BY DEF RotateKeys, handshakeVars
<1>2. /\ session \in [Sides -> SessionSet] /\ old \in SessionSet
      /\ salts \in Nat /\ salts' \in Nat /\ salts' # 0 /\ replies \in Nat
  BY <1>1 DEF IInv, TypeInv
<1>3. new \in SessionSet
  <2>1. /\ Key(old.master, old.eseq, 1) \in KeySet /\ Key(old.master, old.eseq, 2) \in KeySet
        /\ salts + 1 \in Nat /\ salts + 2 \in Nat
    BY <1>2 DEF Key, KeySet, SessionSet
  <2> QED BY <1>2, <2>1, Rekeyed, Zenon
<1>4. new.esalt = salts + 1 /\ new.dsalt = salts + 2
  BY <1>2 DEF SessionSet
<1> HIDE DEF new
<1>5. session'[s] = new /\ \A p \in Sides : p # s => session'[p] = session[p]
  BY <1>1, <1>2
<1>6. \A p, key : \A salt \in Nat :
        /\ Dated(p, key, salt, salts, replies) => Dated(p, key, salt, salts', replies')
        /\ Mine(p, key, salt, salts, replies) => Mine(p, key, salt, salts', replies')
  BY <1>1, <1>2 DEF Dated, Mine
<1>7. TypeInv' /\ HelloInv' /\ KeyInv'
  BY <1>1, <1>2, <1>3 DEF IInv, TypeInv, HelloInv, KeyInv
<1>8. \A i \in 1..Len(records) :
        /\ records[i] \in RecordSet /\ records[i].salt \in Nat
        /\ Mine(records[i].from, records[i].key, records[i].salt, salts, replies)
        /\ records[i].salt <= salts
  <2>1. ASSUME NEW i \in 1..Len(records)
        PROVE  /\ records[i] \in RecordSet
               /\ Mine(records[i].from, records[i].key, records[i].salt, salts, replies)
    BY DEF IInv, TypeInv, SealInv
  <2> QED BY <2>1 DEF Mine, Dated, RecordSet
<1>9. SealInv'
  <2>1. ASSUME NEW p \in Sides, session'[p].done
        PROVE  Mine(p, session'[p].ekey, session'[p].esalt, salts', replies')
    <3>1. CASE p = s
      BY <1>1, <1>2, <1>4, <1>5, <3>1 DEF Mine, Dated
    <3>2. CASE p # s
      <4>1. session'[p] = session[p] /\ session[p].esalt \in Nat
        BY <1>2, <1>5, <3>2 DEF SessionSet
      <4> QED BY <1>6, <2>1, <4>1 DEF IInv, SealInv
    <3> QED BY <3>1, <3>2
  <2>2. \A p \in Sides : session[p].esalt \in Nat /\ session[p].esalt <= salts
    BY <1>2 DEF IInv, SealInv, SessionSet
  <2>3. /\ \A p \in Sides : session'[p].esalt <= salts'
        /\ session'["client"].esalt # 0 => session'["client"].esalt # session'["server"].esalt
    BY <1>1, <1>2, <1>4, <1>5, <2>2 DEF IInv, SealInv, Sides
  <2>4. ASSUME NEW i \in 1..Len(records), NEW p \in Sides
        PROVE  IF records[i].from = p
               THEN records[i].key = session'[p].ekey /\ records[i].salt = session'[p].esalt
                      => records[i].seq < session'[p].eseq
               ELSE records[i].salt # 0 => records[i].salt # session'[p].esalt
    <3>1. CASE p = s
      BY <1>2, <1>4, <1>5, <1>8, <3>1
    <3>2. CASE p # s
      BY <1>5, <3>2 DEF IInv, SealInv
    <3> QED BY <3>1, <3>2
  <2>5. \A i \in 1..Len(records) :
          Mine(records[i].from, records[i].key, records[i].salt, salts', replies')
    BY <1>6, <1>8
  <2> QED BY <1>1, <2>1, <2>3, <2>4, <2>5 DEF SealInv
<1>10. OpenInv'
  <2>1. ASSUME NEW p \in Sides, session'[p].done
        PROVE  Dated(p, session'[p].dkey, session'[p].dsalt, salts', replies')
    <3>1. CASE p = s
      BY <1>1, <1>2, <1>4, <1>5, <3>1 DEF Dated
    <3>2. CASE p # s
      <4>1. session'[p] = session[p] /\ session[p].dsalt \in Nat
        BY <1>2, <1>5, <3>2 DEF SessionSet
      <4> QED BY <1>6, <2>1, <4>1 DEF IInv, OpenInv
    <3> QED BY <3>1, <3>2
  <2>2. ASSUME NEW p \in Sides, NEW i \in 1..Len(opened[p])
        PROVE  /\ Dated(p, opened[p][i].key, opened[p][i].salt, salts', replies')
               /\ opened[p][i].key = session'[p].dkey /\ opened[p][i].salt = session'[p].dsalt
                    => opened[p][i].seq < session'[p].dseq
    <3>1. /\ opened[p][i].salt \in Nat /\ opened[p][i].salt <= salts
          /\ Dated(p, opened[p][i].key, opened[p][i].salt, salts, replies)
      <4>1. opened[p][i] \in RecordSet
        BY DEF IInv, TypeInv
      <4> QED BY <4>1 DEF IInv, OpenInv, Dated, RecordSet
    <3>2. CASE p = s
      BY <1>2, <1>4, <1>5, <1>6, <3>1, <3>2
    <3>3. CASE p # s
      BY <1>5, <1>6, <3>1, <3>3 DEF IInv, OpenInv
    <3> QED BY <3>2, <3>3
  <2> QED BY <1>1, <2>1, <2>2 DEF OpenInv
<1>11. NoncesFresh' /\ OpensInOrder'
  BY <1>1 DEF IInv, NoncesFresh, OpensInOrder
<1> QED BY <1>7, <1>9, <1>10, <1>11 DEF IInv

LEMMA ChannelStep ==
  ASSUME IInv, [ChannelNext]_channelVars
  PROVE  IInv'
<1>1. CASE SendClientHello
  BY <1>1, SendClientHelloStep
<1>2. CASE ProcessClientHello
  BY <1>2, ProcessClientHelloStep
<1>3. CASE ProcessServerHello
  BY <1>3, ProcessServerHelloStep
<1>4. CASE ProcessFinish \/ UNCHANGED channelVars
  BY <1>4, ProcessFinishStep
<1>5. ASSUME NEW s \in Sides, RecordEncrypt(s)
      PROVE  IInv'
  BY <1>5, RecordEncryptStep
<1>6. ASSUME NEW s \in Sides, RecordDecrypt(s)
      PROVE  IInv'
  BY <1>6, RecordDecryptStep
<1>7. ASSUME NEW s \in Sides, RotateKeys(s)
      PROVE  IInv'
  BY <1>7, RotateKeysStep
<1> QED BY <1>1, <1>2, <1>3, <1>4, <1>5, <1>6, <1>7 DEF ChannelNext

\* The invariant of the channel, whatever is lost, repeated or rotated.
THEOREM ChannelInvariance == ChannelSpec => []IInv
BY InitHolds, ChannelStep, PTL DEF ChannelSpec

LEMMA EstablishedKeys == IInv => KeysAgree
<1> SUFFICES ASSUME IInv, cstate = "ESTABLISHED", replies = 1, salts = 0, SwapRoles
             PROVE  /\ session["client"].ekey = session["server"].dkey
                    /\ session["server"].ekey = session["client"].dkey
  BY DEF KeysAgree
<1>1. PICK n \in Nat :
        /\ Hello(n) \in net
        /\ session["server"].ekey = Key(Master(n, replies), -1, EncryptHalf("server"))
        /\ session["server"].dkey = Key(Master(n, replies), -1, 3 - EncryptHalf("server"))
  BY DEF IInv, KeyInv
<1>2. PICK k \in Nat, m \in 1..replies :
        /\ Hello(k) \in net
        /\ session["client"].ekey = Key(Master(k, m), -1, 1)
        /\ session["client"].dkey = Key(Master(k, m), -1, 2)
  BY DEF IInv, KeyInv
<1>3. n = k
  BY <1>1, <1>2 DEF IInv, HelloInv
<1>4. m = replies /\ EncryptHalf("server") = 2 /\ 3 - EncryptHalf("server") = 1
  BY <1>2, Halves
<1> QED BY <1>1, <1>2, <1>3, <1>4

(* An established client and its server hold facing keys                    *)
(* (rc_derive_session_keys on both sides), for any number of attempts.      *)
THEOREM KeysAgreeHolds == ChannelSpec => []KeysAgree
BY ChannelInvariance, EstablishedKeys, PTL

(* rc_record_encrypt never repeats a nonce under a key, for any number of   *)
(* attempts, replies, records and rotations.                                *)
THEOREM NoncesFreshHolds == ChannelSpec => []NoncesFresh
<1>1. IInv => NoncesFresh
  BY DEF IInv
<1> QED BY <1>1, ChannelInvariance, PTL

(* rc_record_decrypt opens records in order and at most once, whatever the  *)
(* network repeats, delays or reorders.                                     *)
THEOREM OpensInOrderHolds == ChannelSpec => []OpensInOrder
<1>1. IInv => OpensInOrder
  BY DEF IInv
<1> QED BY <1>1, ChannelInvariance, PTL
=============================================================================
