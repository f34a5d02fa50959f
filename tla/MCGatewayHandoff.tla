-------------------------- MODULE MCGatewayHandoff --------------------------
(* Instances of the gateway handoff for TLC. *)
EXTENDS GatewayHandoff, TLC

(* Two offsets in reach, of different latency, and one out of reach.       *)
NearFarAway == {<<1, 0, 0>>, <<1, 2, 2>>, <<6, 0, 0>>}

(* Beside the user in x, and above it in z.                                *)
BesideAbove == {<<1, 0, 0>>, <<0, 0, 2>>}

SatSymmetry == Permutations(Sats)
=============================================================================
