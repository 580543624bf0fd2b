------------------------------ MODULE MCMemory ------------------------------
(***************************************************************************)
(* Instances of Memory for TLC: one legacy bot and one bot of v2.          *)
(***************************************************************************)
EXTENDS Memory

CONSTANTS old, new
=============================================================================
