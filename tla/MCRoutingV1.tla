----------------------------- MODULE MCRoutingV1 -----------------------------
(***************************************************************************)
(* Instances of RoutingV1 for TLC: one task among three bots.              *)
(***************************************************************************)
EXTENDS RoutingV1

CONSTANTS a, b1, b2, t1

MCOrigin == [t \in Task |-> a]
=============================================================================
