------------------------------ MODULE ChainSlots ------------------------------
(***************************************************************************)
(* What the delegation protocol promises about one task id at one bot      *)
(* (docs/protocol.md section 5): a task that arrives while an earlier one  *)
(* with the same id is still suspended there is refused, one that arrives  *)
(* after the earlier one was delivered may run again.  Nothing here says   *)
(* how a bot remembers which ids are suspended.                            *)
(***************************************************************************)

CONSTANTS
    Act,     \* the arrivals of tasks at bots, each handled once
    Bot,     \* the bots
    Id,      \* the task ids
    NoKey    \* the key of an arrival that has not happened

VARIABLES
    phase,   \* where the handling of an arrival is
    key      \* the bot and the task id of an arrival

vars == <<phase, key>>

Phase == {"unused", "queued", "active", "over", "gone"}

\* Some arrival of the same task at the same bot is being processed.
Suspended(k) == \E g \in Act : phase[g] = "active" /\ key[g] = k

Init ==
    /\ phase = [f \in Act |-> "unused"]
    /\ key = [f \in Act |-> NoKey]

Move(f, from, to) == phase[f] = from /\ phase' = [phase EXCEPT ![f] = to]

Arrive(f) ==
    /\ Move(f, "unused", "queued")
    /\ \E k \in Bot \X Id : key' = [key EXCEPT ![f] = k]

Admit(f) ==
    /\ ~ Suspended(key[f])
    /\ Move(f, "queued", "active")
    /\ UNCHANGED key

Refuse(f) ==
    /\ Suspended(key[f])
    /\ Move(f, "queued", "over")
    /\ UNCHANGED key

End(f) == Move(f, "active", "over") /\ UNCHANGED key

\* A bot's process dies: everything it was handling is gone.
Stop(b) ==
    /\ phase' = [f \in Act |->
                    IF phase[f] \in {"queued", "active"} /\ \E t \in Id : key[f] = <<b, t>>
                    THEN "gone" ELSE phase[f]]
    /\ UNCHANGED key

Next ==
    \/ \E f \in Act : Arrive(f) \/ Admit(f) \/ Refuse(f) \/ End(f)
    \/ \E b \in Bot : Stop(b)

Spec == Init /\ [][Next]_vars
===============================================================================
