------------------------------ MODULE MCRelay ------------------------------
(* A relay with two slots, two workers of which one runs the receive loop  *)
(* and the other the idle sweep, and two interchangeable pairs of          *)
(* endpoints.                                                              *)
EXTENDS Relay, TLC

CONSTANTS w1, w2, c1, c2, c3, c4

MCPairs == {<<c1, c2>>, <<c3, c4>>}

\* The permutations of the endpoints that map pairs to pairs.
SwapPairs ==
  {p \in Permutations(Conns) : {<<p[e[1]], p[e[2]]>> : e \in MCPairs} = MCPairs}

=============================================================================
