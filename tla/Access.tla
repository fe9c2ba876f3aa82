------------------------------- MODULE Access -------------------------------
(* The token service and the signaling server over the Redis they share:    *)
(* tokens are issued, revoked and expire while clients present them.        *)
EXTENDS Signaling

accessVars == <<authVars, sigVars>>

AccessInit == AuthInit /\ SignalingInit

AccessNext ==
  \/ AuthNext /\ UNCHANGED sigVars
  \/ SignalingNext /\ UNCHANGED authVars

AccessSpec == AccessInit /\ [][AccessNext]_accessVars

(* Nobody gets in with a token the token service did not issue: unless the  *)
(* server was started without Redis, an authenticated client's token went   *)
(* through redis_issue_token, whichever commands of either service failed.  *)
(* (It may have been revoked since: the server never looks again.)          *)
AdmittedWereIssued ==
  sigRedis # "null" => \A c \in Connected : client[c].authenticated => client[c].auth_token \in minted
=============================================================================
