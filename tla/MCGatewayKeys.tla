--------------------------- MODULE MCGatewayKeys ---------------------------
(* GatewayKeys on small instances. *)
EXTENDS GatewayKeys, TLC

Symmetric == Permutations(Requests) \cup Permutations(Tokens) \cup Permutations(Keys)

=============================================================================
