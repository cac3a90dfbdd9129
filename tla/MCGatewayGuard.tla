--------------------------- MODULE MCGatewayGuard ---------------------------
(***************************************************************************)
(* GatewayGuard on small instances; the calls are interchangeable.         *)
(***************************************************************************)
EXTENDS GatewayGuard, TLC

Symmetry == Permutations(Calls)
=============================================================================
