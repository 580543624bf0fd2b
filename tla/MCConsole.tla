------------------------------ MODULE MCConsole ------------------------------
(***************************************************************************)
(* An instance of Console for TLC: two questions of the terminal, of which *)
(* one may fail, a chat of the dashboard, and the events of their answers  *)
(* on the way to a viewer that comes twice.                                *)
(***************************************************************************)
EXTENDS Console

CONSTANTS q1, q2, c1, v1
=============================================================================
