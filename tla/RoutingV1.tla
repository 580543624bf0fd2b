------------------------------ MODULE RoutingV1 ------------------------------
(***************************************************************************)
(* The legacy protocol (tll_protocol/): a task travels from bot to bot,    *)
(* and takes with it the way back, as a stack of bots.  A bot that gets it *)
(* runs its command (executor.execute); a chat lets the language model     *)
(* delegate it further, perhaps with more commands to follow, which the    *)
(* bot keeps in a queue (chat_tool.py).  What comes back goes through      *)
(* process_return: the next command, a review by the language model, the   *)
(* way back, or the end.  An error hook (hooks/error.py) answers failures. *)
(*                                                                         *)
(* A bot handles its messages one after the other.  Left out: encryption,  *)
(* access lists (a refusal is a failure), the texts, the history.          *)
(***************************************************************************)
EXTENDS Naturals, FiniteSets, Sequences, Bags

CONSTANTS
    Bot,
    Task,
    Origin,      \* from_bot: the bot that creates a task
    Llm,         \* the bots whose language model is ready
    ReviewLimit, \* the delegations after which nothing is reviewed
    MaxCommands, \* bound: commands planned for a task
    MaxPlan,     \* bound: commands in a plan
    MaxBroken,   \* bound: publications that fail, in a task
    MaxCrashes   \* bound: crashes

ASSUME RoutingAssumption ==
    /\ Origin \in [Task -> Bot]
    /\ Llm \subseteq Bot
    /\ {ReviewLimit, MaxCommands, MaxPlan, MaxBroken, MaxCrashes} \subseteq Nat

VARIABLES
    msgs,      \* the messages on their way, a bag
    outgoing,  \* bot.outgoing_tasks: what a bot has ever sent with send_command
    queue,     \* bot.pending_queues: the commands that follow
    callback,  \* the creator's archive callback: "none", "set" or "called"
    calls,     \* how often it was called
    finals,    \* how often a task came to its end, in the creator
    planned,   \* how many commands were planned for a task
    bad,       \* 1 when a command of a task failed
    broken,    \* how many publications of a task failed
    gone,      \* tasks of which a message was dropped or lost
    up,        \* the bots that are running
    crashes

vars == <<msgs, outgoing, queue, callback, calls, finals, planned, bad, broken, gone, up,
          crashes>>

Command == [to : Bot, cmd : {"tool", "chat"}]

\* The plans that the bot b can make for what became of a task.
Plans(b, o) ==
    {p \in UNION {[1..n -> {c \in Command : c.to # b}] : n \in 1..MaxPlan} :
        o.planned + Len(p) <= MaxCommands}

Message(t, to, status, k) == [task |-> t, to |-> to, status |-> status, k |-> k]
MessagesOf(t) == {m \in BagToSet(msgs) : m.task = t}

\* What a bot makes of a task in one handler: the task's fields k, its status, the
\* messages it sends, its queue, whether it is in outgoing_tasks, the failures, the end.
Outcome(t, b, k, status) ==
    [k |-> k, status |-> status, sent |-> EmptyBag, queue |-> queue[b][t],
     out |-> t \in outgoing[b], planned |-> planned[t], bad |-> bad[t],
     broken |-> broken[t], gone |-> FALSE, final |-> FALSE]

-----------------------------------------------------------------------------
(* Sending.  The ways to answer are tried one after the other: a           *)
(* publication that fails logs an error, whose hook tries the next.        *)

Way(to, route) == [to |-> to, route |-> route]

\* error_hook: back over the route, leaving out the bot itself, then to the creator (0).
\* Ways are a function on places of the route; the last place is tried first.
HookWays(t, b, route) ==
    LET hops == {i \in 1..Len(route) : route[i] # b}
        creator == IF Origin[t] # b /\ (route = <<>> \/ 1 \in hops) THEN {0} ELSE {}
    IN  [i \in hops \cup creator |->
            Way(IF i = 0 THEN Origin[t] ELSE route[i], SubSeq(route, 1, i - 1))]

Rest(route) == SubSeq(route, 1, Len(route) - 1)

\* process_return: to the last bot of the route, or to the creator.
ReturnWays(t, b, route) ==
    LET n == Len(route)
        ways == HookWays(t, b, Rest(route))
        up1 == IF n = 0 \/ route[n] = b THEN Origin[t] ELSE route[n]
    IN  IF n = 0 THEN HookWays(t, b, route)
        ELSE [i \in DOMAIN ways \cup {n} |-> IF i = n THEN Way(up1, Rest(route)) ELSE ways[i]]

\* The ways that are tried before w.
Before(ways, w) == {v \in DOMAIN ways : v > w}

\* The publications S of o's task may all fail.
MayBreak(o, S) == S = {} \/ o.broken + Cardinality(S) <= MaxBroken

\* One of the ways succeeds, after those before it, or none does, and what is sent is lost.
Sent(t, o, ways, status) ==
    { LET k == [o.k EXCEPT !.route = ways[w].route]
      IN  [o EXCEPT !.k = k, !.broken = @ + Cardinality(Before(ways, w)),
                    !.sent = @ (+) SetToBag({Message(t, ways[w].to, status, k)})]
      : w \in {v \in DOMAIN ways : MayBreak(o, Before(ways, v))} }
    \cup IF MayBreak(o, DOMAIN ways)
         THEN {[o EXCEPT !.k.route = <<>>, !.broken = @ + Cardinality(DOMAIN ways), !.gone = TRUE]}
         ELSE {}

\* Slip: a delegation does not enter the bot in the route.
RouteNot(route, b) == route
Pushed(route, b) == Append(route, b)

\* send_command and send_task: the task is registered as outgoing, and the bot put on its
\* route.  The error hook answers a publication that fails, with the status as it is.
Forward(t, b, o, c) ==
    LET k == [o.k EXCEPT !.cmd = c.cmd, !.count = @ + 1, !.route = Pushed(@, b)]
        o1 == [o EXCEPT !.k = k, !.status = "delegated", !.out = TRUE]
    IN  {[o1 EXCEPT !.sent = @ (+) SetToBag({Message(t, c.to, "new", k)})]}
        \cup IF o.broken = MaxBroken THEN {}
             ELSE Sent(t, [o1 EXCEPT !.broken = @ + 1], HookWays(t, b, k.route), "new")

-----------------------------------------------------------------------------
(* The executor.                                                           *)

\* A command that fails: the error hook already answers.
Failed(t, b, o) ==
    {[r EXCEPT !.gone = o.gone] :
        r \in Sent(t, [o EXCEPT !.status = "failed", !.bad = 1], HookWays(t, b, o.k.route),
                   "failed")}

\* Bound: one command of a task may fail by itself.
MayFail(t, b, o) == IF o.bad = 0 THEN Failed(t, b, o) ELSE {}

\* Slip: all the commands of the plan are queued, the one that is sent first too.
PlannedAll(o, p) == [o EXCEPT !.planned = @ + Len(p), !.queue = p]

\* The commands of a plan after the first wait, in the place of what waited before.
Planned(o, p) == [o EXCEPT !.planned = @ + Len(p), !.queue = IF Len(p) > 1 THEN Tail(p) ELSE @]

\* chat_tool.handle: the model answers, or plans commands.
Chat(t, b, o) ==
    LET o1 == [o EXCEPT !.k.orig = TRUE] IN
    IF b \notin Llm THEN Failed(t, b, o1)
    ELSE MayFail(t, b, o1) \cup {[o1 EXCEPT !.status = "pending"]}
         \cup UNION {Forward(t, b, Planned(o1, p), Head(p))
                        : p \in Plans(b, o)}

\* execute: the command's handler.
Execute(t, b, o) ==
    IF o.k.cmd = "chat" THEN Chat(t, b, o)
    ELSE MayFail(t, b, o) \cup {[o EXCEPT !.status = "pending"]}

\* Slip: a failure is left to the error hook, which has answered it already.
AnswerNot(t, b, o) ==
    IF o.status = "failed" THEN {o}
    ELSE IF DOMAIN ReturnWays(t, b, o.k.route) = {} THEN {[o EXCEPT !.final = TRUE]}
    ELSE Sent(t, o, ReturnWays(t, b, o.k.route), "returning")

\* The tail of process_return: the way back, or the end of the task.
Answer(t, b, o) ==
    IF DOMAIN ReturnWays(t, b, o.k.route) = {} THEN {[o EXCEPT !.final = TRUE]}
    ELSE Sent(t, o, ReturnWays(t, b, o.k.route), "returning")

\* process_return: the next command of the queue, a review, or the way back.
ProcessReturn(t, b, o) ==
    CASE o.status = "delegated" -> {o}
      [] o.status \in {"returning", "failed"} /\ o.queue # <<>> ->
            Forward(t, b, [o EXCEPT !.k.orig = FALSE, !.queue = Tail(@)], Head(o.queue))
      [] o.status \in {"returning", "failed"} /\ o.queue = <<>>
            /\ o.k.orig /\ b \in Llm /\ o.k.count <= ReviewLimit ->
            UNION {IF r.status = "delegated" THEN {r} ELSE Answer(t, b, r)
                      : r \in Chat(t, b, o)}
      [] OTHER -> Answer(t, b, o)

\* on_message: a task that the bot once sent only comes back to it; anything else that
\* arrives under its id is dropped with a warning.
Handled(t, b, m) ==
    LET o == Outcome(t, b, m.k, m.status) IN
    CASE m.status = "new" /\ o.out -> {[o EXCEPT !.gone = TRUE]}
      [] m.status = "new" /\ ~o.out -> UNION {ProcessReturn(t, b, r) : r \in Execute(t, b, o)}
      [] m.status = "failed" /\ ~o.out ->
            UNION {ProcessReturn(t, b, [r EXCEPT !.gone = o.gone])
                      : r \in Sent(t, o, HookWays(t, b, o.k.route), "failed")}
      [] OTHER -> ProcessReturn(t, b, o)

-----------------------------------------------------------------------------
Init ==
    /\ msgs = EmptyBag
    /\ outgoing = [b \in Bot |-> {}]
    /\ queue = [b \in Bot |-> [t \in Task |-> <<>>]]
    /\ callback \in [Task -> {"none", "set"}]
    /\ calls = [t \in Task |-> 0] /\ finals = [t \in Task |-> 0]
    /\ planned = [t \in Task |-> 0] /\ bad = [t \in Task |-> 0] /\ broken = [t \in Task |-> 0]
    /\ gone = {} /\ up = Bot /\ crashes = 0

\* The archive callback is taken out of the table before it is called.
Called(t) == callback' = [callback EXCEPT ![t] = "called"]

Apply(t, b, o, consumed) ==
    /\ msgs' = (msgs (-) consumed) (+) o.sent
    /\ outgoing' = IF o.out THEN [outgoing EXCEPT ![b] = @ \cup {t}] ELSE outgoing
    /\ queue' = [queue EXCEPT ![b][t] = o.queue]
    /\ planned' = [planned EXCEPT ![t] = o.planned]
    /\ bad' = [bad EXCEPT ![t] = o.bad] /\ broken' = [broken EXCEPT ![t] = o.broken]
    /\ gone' = IF o.gone THEN gone \cup {t} ELSE gone
    /\ IF o.final
       THEN /\ finals' = [finals EXCEPT ![t] = @ + 1]
            /\ IF callback[t] = "set" THEN Called(t) /\ calls' = [calls EXCEPT ![t] = @ + 1]
                                      ELSE UNCHANGED <<callback, calls>>
       ELSE UNCHANGED <<finals, callback, calls>>
    /\ UNCHANGED <<up, crashes>>

Created(t) == planned[t] > 0

\* create_task and send_command: a task with one or more commands, and perhaps a callback.
Create(t) ==
    LET b == Origin[t]
        k == [route |-> <<>>, orig |-> FALSE, count |-> 0, cmd |-> "tool"]
    IN
    /\ b \in up /\ ~Created(t)
    /\ \E p \in Plans(b, Outcome(t, b, k, "created")) :
        \E o \in Forward(t, b, Planned(Outcome(t, b, k, "created"), p), Head(p)) :
            Apply(t, b, o, EmptyBag)

Handle(m) ==
    /\ m.to \in up
    /\ \E o \in Handled(m.task, m.to, m) : Apply(m.task, m.to, o, SetToBag({m}))

\* A bot that stops forgets what it has in memory; its messages are not kept for it.
Crash(b) ==
    /\ b \in up /\ crashes < MaxCrashes
    /\ crashes' = crashes + 1 /\ up' = up \ {b}
    /\ outgoing' = [outgoing EXCEPT ![b] = {}]
    /\ queue' = [queue EXCEPT ![b] = [t \in Task |-> <<>>]]
    /\ callback' = [t \in Task |-> IF Origin[t] = b /\ callback[t] = "set" THEN "none" ELSE callback[t]]
    /\ gone' = gone \cup {t \in Task : queue[b][t] # <<>>}
    /\ UNCHANGED <<msgs, calls, finals, planned, bad, broken>>

Restart(b) ==
    /\ b \notin up /\ up' = up \cup {b}
    /\ UNCHANGED <<msgs, outgoing, queue, callback, calls, finals, planned, bad, broken, gone, crashes>>

Lose(m) ==
    /\ m.to \notin up
    /\ msgs' = msgs (-) SetToBag({m}) /\ gone' = gone \cup {m.task}
    /\ UNCHANGED <<outgoing, queue, callback, calls, finals, planned, bad, broken, up, crashes>>

Next ==
    \/ \E t \in Task : Create(t)
    \/ \E m \in BagToSet(msgs) : Handle(m) \/ Lose(m)
    \/ \E b \in Bot : Crash(b) \/ Restart(b)

Spec == Init /\ [][Next]_vars

\* A bot that runs handles what reaches it.
FairSpec == Spec /\ WF_vars(\E m \in BagToSet(msgs) : Handle(m) \/ Lose(m))

-----------------------------------------------------------------------------
(* Properties.                                                             *)

\* Besides the types: whatever is answered twice, the creator's archive callback is called
\* once at most, and a plan is counted whole before a part of it travels.
TypeOK ==
    /\ IsABag(msgs)
    /\ \A m \in BagToSet(msgs) :
        /\ m.task \in Task /\ m.to \in Bot /\ m.status \in {"new", "returning", "failed"}
        /\ m.k.route \in Seq(Bot) /\ m.k.count \in 1..planned[m.task]
    /\ outgoing \in [Bot -> SUBSET Task]
    /\ \A b \in Bot, t \in Task : queue[b][t] \in Seq(Command)
    /\ callback \in [Task -> {"none", "set", "called"}]
    /\ planned \in [Task -> 0..MaxCommands]
    /\ calls \in [Task -> 0..1] /\ finals \in [Task -> Nat]
    /\ gone \subseteq Task /\ up \subseteq Bot /\ crashes \in 0..MaxCrashes

AllWell(t) == bad[t] = 0 /\ broken[t] = 0 /\ t \notin gone

\* As long as no command and no publication of it fails and no message of it is lost, a
\* task is in one place: in one message, or at its end, once; and a bot that has commands
\* queued for it is the one that gets it or is on its way back (so that the queue is worked
\* off, process_return, and empty at the end).
OnePlace ==
    \A t \in Task : AllWell(t) /\ Created(t) =>
        /\ \/ finals[t] = 0 /\ \E m \in MessagesOf(t) : MessagesOf(t) = {m} /\ msgs[m] = 1
           \/ finals[t] = 1 /\ MessagesOf(t) = {}
        /\ \A b \in Bot : queue[b][t] # <<>> =>
                \E m \in MessagesOf(t) : m.to = b \/ \E i \in 1..Len(m.k.route) : m.k.route[i] = b

\* A task comes to its end in the bot that created it, unless a message of it was dropped
\* or lost.
TaskEnds == \A t \in Task : Created(t) ~> finals[t] > 0 \/ t \in gone
=============================================================================
