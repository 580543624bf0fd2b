------------------------------ MODULE Contacts ------------------------------
(***************************************************************************)
(* Registration and matchmaking in the cluster.  EiAr and SaYi bots do not *)
(* know each other.  A Skaye bot's model has the tools to change that: it  *)
(* asks skaye_sv which EiAr bots are registered, enters contacts in its    *)
(* own whitelist or removes them, and delegates introductions to EiAr and  *)
(* SaYi bots, each of which rewrites the bot.yaml of the bot that receives *)
(* it and reloads its whitelist from the file.  Its bot.yaml tells it the  *)
(* steps, but nothing holds the model to them, and a failure, a refusal or *)
(* a timeout is a text to it like any other result: it may call any tool   *)
(* at any time.  A bot reports to skaye_sv when it starts.                 *)
(*                                                                         *)
(* A file is rewritten in place.  What a bot.yaml holds beside its peers   *)
(* is in `whole': without it the bot does not come up under its name.      *)
(***************************************************************************)
EXTENDS Naturals, FiniteSets

CONSTANTS
    Eiar, Sayi, Skaye,  \* the three families of bots
    Sv,                 \* skaye_sv, the registry
    Peers0,             \* the whitelists in the files at first
    Task,               \* the tasks given to Skaye bots
    Owner,              \* the Skaye bot of each
    Lists,              \* the ids (lists of one) and lists that a model may pass
    None,               \* a delegation without a task
    MaxSteps,           \* bound: tool calls of a task
    Early,              \* the bots that are running and registered at first
    MaxTrouble          \* bound: processes that stop or die in a write, writes that fail

Bot == Eiar \cup Sayi \cup Skaye
Contact == Bot \cup {Sv}

ASSUME ContactsAssumption ==
    /\ Eiar \cap Sayi = {} /\ Eiar \cap Skaye = {} /\ Sayi \cap Skaye = {}
    /\ Sv \notin Bot
    /\ Peers0 \in [Bot -> SUBSET Contact]
    /\ Owner \in [Task -> Skaye]
    /\ Lists \subseteq SUBSET Contact /\ \A S \in Lists : IsFiniteSet(S)
    /\ Early \subseteq Bot
    /\ MaxSteps \in Nat /\ MaxTrouble \in Nat

VARIABLES
    file,     \* file[b]: the peers in b's bot.yaml
    whole,    \* whole[b]: the rest of b's bot.yaml is intact
    up,       \* the bots whose process runs
    peers,    \* peers[b]: the whitelist in memory, of node and transport
    reg,      \* the bots in RegistryStore._bots
    regFile,  \* the bots in registered_bots.json
    svUp,     \* skaye_sv runs
    calls,    \* delegations on their way, and answers on their way back
    job,      \* job[t]: where the turn of a task is
    trouble   \* how many processes have stopped and writes have failed

vars == <<file, whole, up, peers, reg, regFile, svUp, calls, job, trouble>>
bots == <<file, whole, up, peers>>
registry == <<reg, regFile, svUp>>

\* A task waits to begin, thinks (the model is asked and its tools run), waits for a
\* delegation, or is over.  steps counts its tool calls.
Job == [at : {"idle", "think", "wait", "over"}, steps : 0..MaxSteps]
Active(t) == job[t].at \in {"think", "wait"}
LoopFree(k) == \A t \in Task : Owner[t] = k => job[t].at # "think"

\* A delegation of a task, or of a starting bot (then no task, number 0).  All
\* delegations of a task carry its id and nothing that tells one from another; number
\* only keeps them apart here.
Call(tool, from, to, arg, t, n) ==
    [tool |-> tool, from |-> from, to |-> to, arg |-> arg, task |-> t, number |-> n]
\* What an answer says, a result or an error, is for the model.
Answer(c) == Call("answer", c.to, c.from, {}, c.task, c.number)

\* The peers that a tool leaves in the file of b: it drops some and adds others.
Rewritten(b, dropped, S) == (file[b] \ dropped) \cup S

\* A process ends, and with it its coroutines.
Killed(b) == [t \in Task |-> IF Owner[t] = b /\ Active(t) THEN [job[t] EXCEPT !.at = "over"]
                                                        ELSE job[t]]
Gone(b) ==
    /\ up' = up \ {b}
    /\ peers' = [peers EXCEPT ![b] = {}]
    /\ trouble < MaxTrouble /\ trouble' = trouble + 1
    /\ job' = Killed(b)

\* The tool saves the peers S; _reload_peers takes the whitelist from the file.
\* Slip: nothing reloads it.
SaveOnly(b, S) ==
    /\ file' = [file EXCEPT ![b] = S]
    /\ UNCHANGED <<whole, up, peers, trouble>>
Save(b, S) ==
    /\ file' = [file EXCEPT ![b] = S]
    /\ peers' = [peers EXCEPT ![b] = S]
    /\ UNCHANGED <<whole, up, trouble>>

\* The file cannot be opened, or the write fails when it is truncated already: the
\* exception skips the reload.
SaveFails(b) ==
    /\ trouble < MaxTrouble /\ trouble' = trouble + 1
    /\ \/ UNCHANGED <<file, whole>>
       \/ /\ file' = [file EXCEPT ![b] = {}]
          /\ whole' = [whole EXCEPT ![b] = FALSE]
    /\ UNCHANGED <<up, peers>>

\* The process dies in the write, or after it and before the reload.
SaveDies(b, S) ==
    /\ Gone(b)
    /\ \/ /\ file' = [file EXCEPT ![b] = {}]
          /\ whole' = [whole EXCEPT ![b] = FALSE]
       \/ /\ file' = [file EXCEPT ![b] = S]
          /\ UNCHANGED whole
-----------------------------------------------------------------------------
Init ==
    /\ file = Peers0
    /\ whole = [b \in Bot |-> TRUE]
    /\ up = Early
    /\ peers = [b \in Bot |-> IF b \in Early THEN Peers0[b] ELSE {}]
    /\ reg = Early /\ regFile = Early /\ svUp = TRUE
    /\ calls = {}
    /\ job = [t \in Task |-> [at |-> "idle", steps |-> 0]]
    /\ trouble = 0

\* A bot reads its bot.yaml, and reports to skaye_sv if that is in its whitelist.
Start(b) ==
    /\ b \notin up /\ whole[b]
    /\ up' = up \cup {b}
    /\ peers' = [peers EXCEPT ![b] = file[b]]
    /\ calls' = IF Sv \in file[b]
                THEN calls \cup {Call("record_lis", b, Sv, {}, None, 0)} ELSE calls
    /\ UNCHANGED <<file, whole, registry, job, trouble>>

Stop(b) ==
    /\ b \in up
    /\ Gone(b)
    /\ UNCHANGED <<file, whole, registry, calls>>

\* What skaye_sv knows when it comes up: what its file holds; a torn file counts as none.
\* Slip: it begins with nothing.
LoadedNot == {}
Loaded == regFile
SvStart ==
    /\ ~svUp
    /\ svUp' = TRUE
    /\ reg' = Loaded
    /\ UNCHANGED <<bots, regFile, calls, job, trouble>>

SvStop ==
    /\ svUp /\ trouble < MaxTrouble
    /\ trouble' = trouble + 1
    /\ svUp' = FALSE /\ reg' = {}
    /\ UNCHANGED <<bots, regFile, calls, job>>

\* registered_bots.json is rewritten from R, what is in memory.
Written(R) == regFile' = R /\ reg' = R /\ UNCHANGED <<svUp, trouble>>

\* The write fails, before or after the file was truncated; the exception is swallowed
\* and skaye_sv goes on with what it has in memory.
WriteFails(R) ==
    /\ trouble < MaxTrouble /\ trouble' = trouble + 1
    /\ reg' = R /\ regFile' \in {regFile, {}}
    /\ UNCHANGED svUp

\* skaye_sv dies while it rewrites the file.
SvTear ==
    /\ trouble < MaxTrouble /\ trouble' = trouble + 1
    /\ svUp' = FALSE /\ reg' = {} /\ regFile' = {}

\* The tool record_lis enters the sender and saves all that is in memory.  Its answer is
\* printed by the sender and changes nothing.
Record(c) ==
    /\ c \in calls /\ c.tool = "record_lis" /\ svUp
    /\ calls' = calls \ {c}
    /\ Written(reg \cup {c.from}) \/ WriteFails(reg \cup {c.from}) \/ SvTear
    /\ UNCHANGED <<bots, job>>

\* The tool list_eiar_robots answers with the registered EiAr bots; the ids in it are among
\* those a model may pass.  Before that the handshake of a registered bot is noted, and the
\* file rewritten.
List(c) ==
    /\ c \in calls /\ c.tool = "list_eiar_robots" /\ svUp
    /\ \/ /\ IF c.from \in reg THEN Written(reg) \/ WriteFails(reg)
                               ELSE UNCHANGED <<registry, trouble>>
          /\ calls' = (calls \ {c}) \cup {Answer(c)}
       \/ c.from \in reg /\ SvTear /\ calls' = calls \ {c}
    /\ UNCHANGED <<bots, job>>

\* set_sayi_contact and set_eiar_contacts drop one family and enter the bots given.
\* Slip: nothing is dropped.
FamilyKept(tool) == {}
Family(tool) == IF tool = "set_sayi_contact" THEN Sayi ELSE Eiar

Introduce(c) ==
    /\ c \in calls /\ c.tool \in {"set_sayi_contact", "set_eiar_contacts"}
    /\ c.to \in up /\ c.from \in Skaye
    /\ LET S == Rewritten(c.to, Family(c.tool), c.arg) IN
       \/ /\ Save(c.to, S) \/ SaveFails(c.to)
          /\ calls' = (calls \ {c}) \cup {Answer(c)}
          /\ UNCHANGED job
       \/ SaveDies(c.to, S) /\ calls' = calls \ {c}
    /\ UNCHANGED registry
-----------------------------------------------------------------------------
(* A task of a Skaye bot.                                                    *)

\* What a model may call: the registry, introductions with an id or a list of its choice,
\* and its own two tools on its whitelist.
ToolCalls(k) ==
    [tool : {"list_eiar_robots"}, to : {Sv}, arg : {{}}]
    \cup [tool : {"set_sayi_contact"}, to : Eiar, arg : {S \in Lists : Cardinality(S) = 1}]
    \cup [tool : {"set_eiar_contacts"}, to : Sayi, arg : Lists]
    \cup [tool : {"add_eiar_peers"}, to : {k}, arg : Lists]
    \cup [tool : {"remove_peer"}, to : {k}, arg : {S \in Lists : Cardinality(S) = 1}]

Begin(t) ==
    /\ Owner[t] \in up /\ job[t].at = "idle" /\ LoopFree(Owner[t])
    /\ job' = [job EXCEPT ![t].at = "think"]
    /\ UNCHANGED <<bots, registry, calls, trouble>>

\* A tool call is counted, and the task thinks on, or waits.
Counted(t, at) == job' = [job EXCEPT ![t] = [at |-> at, steps |-> @.steps + 1]]

\* task_create: the whitelist allows the target and the task waits, or the tool says no.
Delegate(t, c) ==
    /\ c.to # Owner[t]
    /\ IF c.to \in peers[Owner[t]]
       THEN /\ Counted(t, "wait")
            /\ calls' = calls \cup
                   {Call(c.tool, Owner[t], c.to, c.arg, t, job[t].steps + 1)}
       ELSE Counted(t, "think") /\ UNCHANGED calls
    /\ UNCHANGED <<bots, registry, trouble>>

\* add_eiar_peers enters the list, remove_peer drops an id, be it skaye_sv or the partner.
Rewrite(t, c) ==
    LET k == Owner[t]
        S == IF c.tool = "remove_peer" THEN Rewritten(k, c.arg, {})
                                       ELSE Rewritten(k, {}, c.arg)
    IN  /\ c.to = k
        /\ \/ (Save(k, S) \/ SaveFails(k)) /\ Counted(t, "think")
           \/ SaveDies(k, S)
        /\ UNCHANGED <<registry, calls>>

UseTool(t) ==
    /\ job[t].at = "think" /\ job[t].steps < MaxSteps
    /\ \E c \in ToolCalls(Owner[t]) : Delegate(t, c) \/ Rewrite(t, c)

\* The turn ends with a text.
End(t) ==
    /\ job[t].at = "think"
    /\ job' = [job EXCEPT ![t].at = "over"]
    /\ UNCHANGED <<bots, registry, calls, trouble>>

\* Slip: a late answer wakes a task that has ended.
TakeLate(t, c) ==
    /\ job[t].at \in {"wait", "over"} /\ LoopFree(Owner[t])
    /\ c \in calls /\ c.task = t /\ c.tool = "answer"
    /\ calls' = calls \ {c}
    /\ job' = [job EXCEPT ![t].at = "think"]
    /\ UNCHANGED <<bots, registry, trouble>>

\* An answer is taken by whichever delegation of its task is outstanding.
Take(t, c) ==
    /\ job[t].at = "wait" /\ LoopFree(Owner[t])
    /\ c \in calls /\ c.task = t /\ c.tool = "answer"
    /\ calls' = calls \ {c}
    /\ job' = [job EXCEPT ![t].at = "think"]
    /\ UNCHANGED <<bots, registry, trouble>>

\* wait_for expires, and execute returns an error.
\* Slip: a delegation waits for ever.
TimeoutNever(t) == FALSE
Timeout(t) ==
    /\ job[t].at = "wait" /\ LoopFree(Owner[t])
    /\ job' = [job EXCEPT ![t].at = "think"]
    /\ UNCHANGED <<bots, registry, calls, trouble>>

\* What reaches a process that is down, or a task that does not wait, is lost.
Lose(c) ==
    /\ c \in calls
    /\ IF c.to = Sv THEN ~svUp
       ELSE \/ c.to \notin up
            \/ c.tool = "answer" /\ job[c.task].at # "wait"
    /\ calls' = calls \ {c}
    /\ UNCHANGED <<bots, registry, job, trouble>>

Work(t) == UseTool(t) \/ End(t) \/ Timeout(t) \/ \E c \in calls : Take(t, c)

Next ==
    \/ \E b \in Bot : Start(b) \/ Stop(b)
    \/ SvStart \/ SvStop
    \/ \E t \in Task : Begin(t) \/ Work(t)
    \/ \E c \in calls : Record(c) \/ List(c) \/ Introduce(c) \/ Lose(c)

Spec == Init /\ [][Next]_vars

\* Each task is one coroutine of a loop that runs what is ready, with a timer for every
\* delegation; the agent's max_steps ends its turn.
FairSpec == Spec /\ \A t \in Task : WF_vars(Work(t))
-----------------------------------------------------------------------------
TypeOK ==
    /\ file \in [Bot -> SUBSET Contact]
    /\ whole \in [Bot -> BOOLEAN]
    /\ up \subseteq Bot
    /\ peers \in [Bot -> SUBSET Contact]
    /\ reg \subseteq Bot /\ regFile \subseteq Bot /\ svUp \in BOOLEAN
    /\ \A c \in calls : /\ c.from \in Contact /\ c.to \in Contact
                        /\ c.arg \subseteq Contact
    /\ job \in [Task -> Job]
    /\ \A t \in Task : Active(t) => Owner[t] \in up
    /\ \A k \in Skaye : Cardinality({t \in Task : Owner[t] = k /\ job[t].at = "think"}) <= 1
    /\ trouble \in 0..MaxTrouble

\* A running bot delegates by the whitelist that its bot.yaml holds, through all
\* introductions, unless a failed write has destroyed the file (_reload_peers, node.py).
WhitelistIsFile == \A b \in up : whole[b] => peers[b] = file[b]

\* Islands (bot_config.py), whatever the models of the Skaye bots do and whatever fails:
\* an EiAr bot has one SaYi bot as a contact at most, the EiAr contacts of a SaYi bot are
\* those of one introduction and never a mixture of two, and neither loses skaye_sv.
IslandsKept ==
    /\ \A e \in Eiar : whole[e] => Cardinality(file[e] \cap Sayi) <= 1
    /\ \A s \in Sayi : whole[s] =>
          file[s] \cap Eiar \in {Peers0[s] \cap Eiar} \cup {S \cap Eiar : S \in Lists}
    /\ \A b \in Eiar \cup Sayi : whole[b] /\ Sv \in Peers0[b] => Sv \in file[b]

\* skaye_sv knows every bot that its file holds, through failed and torn writes and
\* restarts: no rewrite of the file, at the next registration or handshake, drops a
\* registration that was on disk (RegistryStore, sv_tools.py:21-59).
RegistryKnowsFile == svUp => regFile \subseteq reg

\* Every task ends, whatever the model calls, whatever is lost and whoever stops
\* (execute, transport.py).
MatchmakingEnds == \A t \in Task : Active(t) ~> ~Active(t)
=============================================================================
