------------------------------ MODULE Channel ------------------------------
(* One client and one server connection: the three-message handshake        *)
(* (src/core/rc_handshake.c), the session keys and the record layer         *)
(* (src/core/rc_crypto.c), over a network that loses, duplicates and        *)
(* reorders.  Cryptography is symbolic: a key is named by what it was       *)
(* derived from, and a record opens under the key, salt and sequence number *)
(* it was sealed with and under no others.                                  *)
EXTENDS Integers, Sequences

CONSTANTS
  SwapRoles,   \* the caller swaps the server's keys at connection setup
  MaxHellos,   \* bound: ClientHello attempts
  MaxReplies,  \* bound: ClientHellos the server processes
  MaxRecords,  \* bound: records in all
  MaxSalts     \* bound: key rotations in all

ASSUME ChannelAssumption ==
  SwapRoles \in BOOLEAN /\ {MaxHellos, MaxReplies, MaxRecords, MaxSalts} \subseteq Nat

Sides == {"client", "server"}
Peer(s) == IF s = "client" THEN "server" ELSE "client"

VARIABLES
  cstate,    \* state of the client's connection
  sstate,    \* state of the server's connection
  cctx,      \* hs_client_ctx: the attempt it belongs to, or 0
  sctx,      \* hs_server_ctx: the hello and the reply it belongs to, or NoCtx
  hellos,    \* attempts so far; also conn->local_seq of the next hello
  replies,   \* ClientHellos processed so far
  session,   \* rc_session_t of each side
  net,       \* handshake messages on the network
  records,   \* all records sealed so far; any may arrive, at any time, again
  opened,    \* per side, the records rc_record_decrypt accepted, in order
  salts,     \* random salts drawn so far
  verdict    \* what the server made of the last Finish

channelVars == <<cstate, sstate, cctx, sctx, hellos, replies, session, net,
                 records, opened, salts, verdict>>
handshakeVars == <<cstate, sstate, cctx, sctx, hellos, replies, net, verdict>>

\* What the hello and the reply with these numbers lead to.
Master(n, m) == [hello |-> n, reply |-> m]
NoCtx == Master(0, 0)

(***************************************************************************)
(* Sessions.  A key is one half of the output of a derivation: of the      *)
(* handshake (rotated = -1) or of a rotation at some sequence number.  The *)
(* nonce salts of a handshake follow from its randoms (salt 0); those of a *)
(* rotation are random.                                                    *)
(***************************************************************************)
Key(master, rotated, half) == [master |-> master, rotated |-> rotated, half |-> half]

EncryptHalf(s) == IF s = "server" /\ SwapRoles THEN 2 ELSE 1

\* Fault: the server's randoms are left out of the derivation.
derive_session_keys_Fault(s, hello, reply) ==
  LET m == Master(hello, IF s = "server" THEN 0 ELSE reply)
      e == EncryptHalf(s)
  IN [done |-> TRUE, master |-> m,
      ekey |-> Key(m, -1, e), esalt |-> 0, eseq |-> 0,
      dkey |-> Key(m, -1, 3 - e), dsalt |-> 0, dseq |-> 0]

\* rc_derive_session_keys: both sides from the same X25519 secret and randoms.
derive_session_keys(s, hello, reply) ==
  LET m == Master(hello, reply)
      e == EncryptHalf(s)
  IN [done |-> TRUE, master |-> m,
      ekey |-> Key(m, -1, e), esalt |-> 0, eseq |-> 0,
      dkey |-> Key(m, -1, 3 - e), dsalt |-> 0, dseq |-> 0]

NoSession ==
  [derive_session_keys("client", 0, 0) EXCEPT !.done = FALSE]

ChannelInit ==
  /\ cstate = "CONNECTING"
  /\ sstate \in {"CONNECTING", "HANDSHAKING"}
  /\ cctx = 0
  /\ sctx = NoCtx
  /\ hellos = 0
  /\ replies = 0
  /\ session = [s \in Sides |-> NoSession]
  /\ net = {}
  /\ records = <<>>
  /\ opened = [s \in Sides |-> <<>>]
  /\ salts = 0
  /\ verdict = "none"

(***************************************************************************)
(* Handshake.                                                              *)
(***************************************************************************)
(* The verify_data of a Finish: the master secret and the ClientHello each  *)
(* side rebuilds.  The client has the header it sent; the server fills in a *)
(* header of its own and no cipher suites.                                  *)
ClientTranscript(n, m) ==
  [master |-> Master(n, m), seq |-> n - 1, flags |-> "RELIABLE", suites |-> "offered"]
ServerTranscript(master) ==
  [master |-> master, seq |-> 0, flags |-> "none", suites |-> "none"]

Hello(n) == [type |-> "HELLO", n |-> n]
HelloAck(m) == [type |-> "HELLO_ACK", m |-> m]
Fin(verify) == [type |-> "FIN", verify |-> verify]

(* rc_handshake_send_client_hello.  Its precondition is the CONNECTING      *)
(* state.  When the send buffer does not take the whole message the call    *)
(* fails, and the context is gone.                                          *)
SendClientHello ==
  /\ cstate = "CONNECTING"
  /\ hellos < MaxHellos
  /\ hellos' = hellos + 1
  /\ \/ /\ net' = net \cup {Hello(hellos + 1)}
        /\ cctx' = hellos + 1
        /\ cstate' = "HANDSHAKING"
     \/ UNCHANGED <<net, cctx, cstate>>
  /\ UNCHANGED <<sstate, sctx, replies, session, records, opened, salts, verdict>>

(* rc_handshake_process_client_hello: new keys for every hello that         *)
(* arrives.  When the reply does not fit, the keys stay and the context of  *)
(* an earlier hello, if any, stays too.                                     *)
ProcessClientHello ==
  /\ replies < MaxReplies
  /\ replies' = replies + 1
  /\ \E n \in 1..MaxHellos :
       /\ Hello(n) \in net
       /\ session' = [session EXCEPT !["server"] =
                        derive_session_keys("server", n, replies + 1)]
       /\ \/ /\ net' = net \cup {HelloAck(replies + 1)}
             /\ sctx' = Master(n, replies + 1)
          \/ UNCHANGED <<net, sctx>>
  /\ UNCHANGED <<cstate, sstate, cctx, hellos, records, opened, salts, verdict>>

(* Fault: the context is kept, so that a second ServerHello is processed    *)
(* like the first.                                                          *)
ContextAfterFinish_Fault(sentWhole) == cctx

\* The client's context is freed once its Finish is queued.
ContextAfterFinish(sentWhole) == IF sentWhole THEN 0 ELSE cctx

(* rc_handshake_process_server_hello.  The keys are in use from here on,    *)
(* also when the Finish does not fit and the call fails.                    *)
ProcessServerHello ==
  /\ cctx # 0
  /\ \E m \in 1..MaxReplies, sentWhole \in BOOLEAN :
       /\ HelloAck(m) \in net
       /\ session' = [session EXCEPT !["client"] =
                        derive_session_keys("client", cctx, m)]
       /\ cctx' = ContextAfterFinish(sentWhole)
       /\ IF sentWhole
          THEN /\ net' = net \cup {Fin(ClientTranscript(cctx, m))}
               /\ cstate' = "ESTABLISHED"
          ELSE UNCHANGED <<net, cstate>>
  /\ UNCHANGED <<sstate, sctx, hellos, replies, records, opened, salts, verdict>>

\* rc_handshake_process_finish.
ProcessFinish ==
  /\ sctx # NoCtx
  /\ \E n \in 1..MaxHellos, m \in 1..MaxReplies :
       /\ Fin(ClientTranscript(n, m)) \in net
       /\ IF ClientTranscript(n, m) = ServerTranscript(session["server"].master)
          THEN /\ sstate' = IF sstate = "HANDSHAKING" THEN "ESTABLISHED" ELSE sstate
               /\ sctx' = NoCtx
               /\ verdict' = "verified"
          ELSE /\ verdict' = IF Master(n, m) = session["server"].master
                             THEN "genuine Finish refused" ELSE "refused"
               /\ UNCHANGED <<sstate, sctx>>
  /\ UNCHANGED <<cstate, cctx, hellos, replies, session, net, records, opened, salts>>

(***************************************************************************)
(* Record layer.                                                           *)
(***************************************************************************)
(* The code asks for handshake_done only.  A client that used its session   *)
(* although rc_handshake_process_server_hello had failed would see the      *)
(* sequence numbers restart with the next ServerHello; callers wait for     *)
(* ESTABLISHED.  A server uses its session as soon as it has keys.          *)
Usable(s) == session[s].done /\ (s = "client" => cstate = "ESTABLISHED")

\* rc_aead_encrypt: the nonce is the salt and the sequence number.
Sealed(s) ==
  [from |-> s, key |-> session[s].ekey,
   salt |-> session[s].esalt, seq |-> session[s].eseq]

RecordEncrypt(s) ==
  /\ Usable(s)
  /\ Len(records) < MaxRecords
  /\ records' = Append(records, Sealed(s))
  /\ session' = [session EXCEPT ![s].eseq = @ + 1]
  /\ UNCHANGED <<handshakeVars, opened, salts>>

\* Fault: the nonce leaves out the sequence number.
Opens_Fault(s, rec) ==
  /\ rec.key = session[s].dkey
  /\ rec.salt = session[s].dsalt

\* rc_aead_decrypt verifies the tag under the session's own nonce.
Opens(s, rec) ==
  /\ rec.key = session[s].dkey
  /\ rec.salt = session[s].dsalt
  /\ rec.seq = session[s].dseq

(* rc_record_decrypt of whatever arrives: the sequence number advances      *)
(* before the tag is verified, so a record that does not open shifts it.    *)
RecordDecrypt(s) ==
  /\ Usable(s)
  /\ session[s].dseq < MaxRecords
  /\ \E i \in DOMAIN records :
       /\ records[i].from = Peer(s)
       /\ opened' = IF Opens(s, records[i])
                    THEN [opened EXCEPT ![s] = Append(@, records[i])]
                    ELSE opened
  /\ session' = [session EXCEPT ![s].dseq = @ + 1]
  /\ UNCHANGED <<handshakeVars, records, salts>>

(* rc_session_rotate_keys: keys from the master secret and the side's own   *)
(* sequence number, random salts; both sequence numbers restart.            *)
RotateKeys(s) ==
  LET old == session[s]
  IN /\ old.done
     /\ salts < MaxSalts
     /\ salts' = salts + 2
     /\ session' = [session EXCEPT ![s] =
          [old EXCEPT !.ekey = Key(old.master, old.eseq, 1), !.esalt = salts + 1,
                      !.dkey = Key(old.master, old.eseq, 2), !.dsalt = salts + 2,
                      !.eseq = 0, !.dseq = 0]]
     /\ UNCHANGED <<handshakeVars, records, opened>>

ChannelNext ==
  \/ SendClientHello
  \/ ProcessClientHello
  \/ ProcessServerHello
  \/ ProcessFinish
  \/ \E s \in Sides : RecordEncrypt(s)
  \/ \E s \in Sides : RecordDecrypt(s)
  \/ \E s \in Sides : RotateKeys(s)

ChannelSpec == ChannelInit /\ [][ChannelNext]_channelVars

-----------------------------------------------------------------------------
(* The keys of an established client and of the server come from the same   *)
(* handshake and face each other, provided the server processed one hello   *)
(* only and nobody rotated: every hello that arrives, also a duplicate,     *)
(* gives the server new keys (rc_handshake_process_client_hello), and a     *)
(* rotation (rc_session_rotate_keys) is not coordinated with the peer.      *)
KeysAgree ==
  cstate = "ESTABLISHED" /\ replies = 1 /\ salts = 0 /\ SwapRoles =>
    /\ session["client"].ekey = session["server"].dkey
    /\ session["server"].ekey = session["client"].dkey

(* No key is used twice with one nonce (rc_record_encrypt,                  *)
(* rc_derive_session_keys, rc_session_rotate_keys), whatever is duplicated, *)
(* repeated after a full send buffer, or rotated.                           *)
NoncesFresh ==
  SwapRoles =>
    \A i, j \in DOMAIN records : i # j =>
      <<records[i].key, records[i].salt, records[i].seq>> #
        <<records[j].key, records[j].salt, records[j].seq>>

(* A receiver opens the records of its peer in the order in which they were *)
(* sealed, each at most once (rc_record_decrypt): duplicates and late       *)
(* records never come through, as long as the keys are the same.            *)
OpensInOrder ==
  \A s \in Sides : \A i, j \in DOMAIN opened[s] :
    /\ opened[s][i].from = Peer(s)
    /\ i < j /\ opened[s][i].key = opened[s][j].key
             /\ opened[s][i].salt = opened[s][j].salt
         => opened[s][i].seq < opened[s][j].seq
=============================================================================
