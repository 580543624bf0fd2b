----------------------------- MODULE MCToolCalls -----------------------------
(***************************************************************************)
(* Instances of ToolCalls for TLC: calls of two tools of one module, which *)
(* two listeners watch over.                                               *)
(***************************************************************************)
EXTENDS ToolCalls, TLC

CONSTANTS write, read, cmd, spawn, t1, t2, src

MCSourceOf == [t \in Tool |-> src]
MCToolOf == [c \in Call |-> IF c \in {write, spawn} THEN t1 ELSE t2]
MCOp == [c \in Call |-> CASE c = write -> "write" [] c = read -> "read" [] OTHER -> "command"]

Allow == [decision |-> "allow"]
Ask(m) == [decision |-> "ask", mode |-> m]

\* The first listener asks before what writes or runs a program, for a write without naming
\* a mode; the second would refuse the command, but a question is not passed on to it.
MCListeners ==
    << [c \in Call |-> CASE c = read -> Allow
                         [] c = write -> Ask(None)
                         [] OTHER -> Ask("danger-full-access")],
       [c \in Call |-> IF c = cmd THEN [decision |-> "deny"] ELSE Allow] >>
=============================================================================
