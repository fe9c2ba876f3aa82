------------------------------ MODULE MCSystem ------------------------------
(* The components of one deployment side by side: the event loop's I/O, a   *)
(* secure channel, congestion control, hole punching, the relay process,    *)
(* token and signaling services, and billing.  They share no state except   *)
(* the two that Access composes, so one component moves in a behaviour, and *)
(* the states of the components add up instead of multiplying.              *)
EXTENDS IoLoop, Channel, Cubic, P2P, RelayService, Access, Billing, TLC

VARIABLE focus   \* the component that moves

Parts ==
  {"io", "channel", "cubic", "p2p", "relay", "auth", "access", "rooms", "billing"}

vars == <<focus, ioVars, channelVars, cubicVars, p2pVars, relayVars, accessVars, billingVars>>

Token == CHOOSE t \in Tokens : TRUE
Instance == CHOOSE i \in AuthInstances : TRUE
Room == CHOOSE r \in Rooms : TRUE

\* The token service after it has answered one request for a token.
TokenIssued ==
  \E d \in Devices :
    /\ live = {Token} /\ minted = {Token} /\ known = {Token}
    /\ device = [e \in Devices |-> IF e = d THEN Token ELSE NoToken]
    /\ blacklist = {} /\ registered = {}
    /\ conns = [i \in AuthInstances |-> {}]
    /\ todo = [i \in AuthInstances |-> <<>>]
    /\ answer = [i \in AuthInstances |-> NoToken]
    /\ linked = [i \in AuthInstances |-> TRUE]

Init ==
  /\ focus \in Parts
  /\ IoInit /\ ChannelInit /\ CubicInit /\ P2PInit /\ RelayServiceInit /\ SignalingInit
  /\ BillingInit
  /\ IF focus = "rooms" THEN TokenIssued ELSE AuthInit
  /\ focus # "channel" => sstate = "CONNECTING"
  /\ focus # "relay" => relayClock = 0
  /\ focus \notin {"access", "rooms"} => sigRedis = "ok"

\* Bound: one instance issues one token, and one client uses one room.
AccessBound ==
  /\ minted' \subseteq {Token}
  /\ \A i \in AuthInstances \ {Instance} : conns'[i] = {} /\ linked'[i]
  /\ Cardinality(Connected') <= 1
  /\ \A r \in Rooms \ {Room} : ~room'[r].exists

Next ==
  /\ UNCHANGED focus
  /\ \/ focus = "io" /\ IoNext
        /\ UNCHANGED <<channelVars, cubicVars, p2pVars, relayVars, accessVars, billingVars>>
     \/ focus = "channel" /\ ChannelNext
        /\ UNCHANGED <<ioVars, cubicVars, p2pVars, relayVars, accessVars, billingVars>>
     \/ focus = "cubic" /\ CubicNext
        /\ UNCHANGED <<ioVars, channelVars, p2pVars, relayVars, accessVars, billingVars>>
     \/ focus = "p2p" /\ P2PNext
        /\ UNCHANGED <<ioVars, channelVars, cubicVars, relayVars, accessVars, billingVars>>
     \/ focus = "relay" /\ RelayServiceNext
        /\ UNCHANGED <<ioVars, channelVars, cubicVars, p2pVars, accessVars, billingVars>>
     \/ focus = "auth" /\ AuthNext
        /\ UNCHANGED <<ioVars, channelVars, cubicVars, p2pVars, relayVars, sigVars, billingVars>>
     \/ focus = "access" /\ AccessNext /\ AccessBound
        /\ UNCHANGED <<ioVars, channelVars, cubicVars, p2pVars, relayVars, billingVars>>
     \/ focus = "rooms" /\ SignalingNext
        /\ UNCHANGED <<ioVars, channelVars, cubicVars, p2pVars, relayVars, authVars, billingVars>>
     \/ focus = "billing" /\ BillingNext
        /\ UNCHANGED <<ioVars, channelVars, cubicVars, p2pVars, relayVars, accessVars>>

Spec == Init /\ [][Next]_vars

TierLimits == [free |-> 2, pro |-> 4, enterprise |-> 0]
=============================================================================
