---------------------------- MODULE MCAgentSession ----------------------------
(***************************************************************************)
(* Two peers; the first has sent two tasks, the second one.                *)
(***************************************************************************)
EXTENDS AgentSession, TLC

CONSTANTS p, q, t1, t2, t3

TwoOfOne == (t1 :> p) @@ (t2 :> p) @@ (t3 :> q)
===============================================================================
