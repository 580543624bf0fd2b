------------------------------ MODULE Delegation ------------------------------
(***************************************************************************)
(* The TLL v2 delegation protocol: how a bot asks another bot to run a     *)
(* task and waits for the answer (tll_protocol_v2/transport.py), how a bot *)
(* receives, refuses, runs and answers tasks (node.py, start_v2.py), and   *)
(* how its MQTT thread tells an answer from a new task (mqtt.py).          *)
(*                                                                         *)
(* Two threads run in each bot.  The paho thread delivers a message in one *)
(* step (Consume, Ignore or Accept), but it only looks at a future: setting *)
(* it is left to the loop (Fill).  The asyncio loop runs coroutines, one at *)
(* a time; a coroutine gives the loop up only when it awaits the future of *)
(* an outstanding delegation.                                              *)
(*                                                                         *)
(* Left out here: what a task computes, the trace and the archive reports  *)
(* (coroutines of their own whose task ids are private, so that they share *)
(* no key of the tables below).                                            *)
(***************************************************************************)
EXTENDS Naturals, FiniteSets

CONSTANTS
    Bot,        \* the bots of the cluster
    Id,         \* the task ids uuid4 can return
    Peers,      \* the whitelist of each bot
    Headless,   \* the bots without an LLM (sayi_sv, skaye_sv)
    Requester,  \* the bots in whose name the dashboard or the ping loop sends
    LlmIds,     \* the ids an LLM may pass as task_id by itself
    MaxAct,     \* bound: tasks accepted in a behaviour
    MaxCalls,   \* bound: delegations of one task
    MaxInject,  \* bound: tasks sent from outside
    MaxFaults,  \* bound: refused publishes and lost messages
    MaxCrash,   \* bound: restarts of each bot
    NoId,       \* the empty current_task_id
    NoMsg       \* no message

ASSUME DelegationAssumption ==
    /\ Peers \in [Bot -> SUBSET Bot]
    /\ Requester \subseteq Headless
    /\ Headless \subseteq Bot
    /\ LlmIds \subseteq Id
    /\ NoId \notin Id
    /\ MaxAct \in Nat /\ MaxCalls \in Nat /\ MaxInject \in Nat
    /\ MaxFaults \in Nat /\ MaxCrash \in Nat

\* A run of handle_incoming; 0 stands for none and for the outside world.
Act == 1..MaxAct
ActOrNone == 0..MaxAct

\* A TASK envelope.  A delegation is the call-th one of the activation src, a
\* return is sent by the activation src and is otherwise the same task object:
\* its from is still the bot that asked.  The code does not read kind, src, call.
Msg == [kind : {"task", "return"}, to : Bot, from : Bot, tid : Id,
        src : ActOrNone, call : Nat]

ASSUME NoMsgAssumption == NoMsg \notin Msg

VARIABLES
    net,       \* the messages the broker has still to deliver
    used,      \* the ids uuid4 has returned, or an LLM has passed
    injected,  \* how many tasks came from outside
    faults,    \* how many publishes failed and messages were lost
    crashes,   \* how often each bot was restarted
    pending,   \* tll._pending: the activation whose future waits for an id
    sent,      \* the ids of tll.sent_tasks
    inFlight,  \* node._in_flight
    cur,       \* tll.current_task_id
    pc,        \* where an activation is
    task,      \* the message an activation handles
    saved,     \* prev_tid of an activation
    asked,     \* the delegation an activation has outstanding
    handed,    \* the message set_result was scheduled with for its future
    got,       \* the message its future was set with
    calls      \* how many delegations it has issued, while it is live

world == <<used, injected, faults, crashes>>
tables == <<pending, sent, inFlight, cur>>
locals == <<pc, task, saved, asked, handed, got, calls>>
vars == <<net, used, injected, faults, crashes, pending, sent, inFlight, cur,
          pc, task, saved, asked, handed, got, calls>>

-------------------------------------------------------------------------------
At(f) == task[f].to
Tid(f) == task[f].tid

\* handle_new_task is between adding the id to _in_flight and discarding it.
Live(f) == pc[f] \in {"running", "sending", "waiting"}

\* No coroutine of b is between two awaits.
LoopFree(b) == \A f \in Act : pc[f] \in {"running", "sending"} => At(f) # b

\* The future that waits for m at its destination is not done.
Awaited(m) == pending[m.to][m.tid] # 0 /\ got[pending[m.to][m.tid]] = NoMsg

\* Slip: only _pending tells an answer from a task.
DroppedBySenderOnly(m) == m.to \in Headless /\ m.from = m.to

\* m is no task for its destination: on_incoming finds its id among those the
\* bot has sent, or handle_incoming finds a bot without an LLM named as sender
\* of what it receives.
Dropped(m) == m.tid \in sent[m.to] \/ (m.to \in Headless /\ m.from = m.to)

\* Slip: a bot answers itself.
ReplyAlways(f) ==
    {[kind |-> "return", to |-> task[f].from, from |-> task[f].from,
      tid |-> Tid(f), src |-> f, call |-> 0]}

\* What handle_incoming sends when f's task is over: nothing to itself.
Reply(f) ==
    IF task[f].from = At(f) THEN {}
    ELSE {[kind |-> "return", to |-> task[f].from, from |-> task[f].from,
           tid |-> Tid(f), src |-> f, call |-> 0]}

Fresh == Id \ used

Init ==
    /\ net = {} /\ used = {} /\ injected = 0 /\ faults = 0
    /\ crashes = [b \in Bot |-> 0]
    /\ pending = [b \in Bot |-> [t \in Id |-> 0]]
    /\ sent = [b \in Bot |-> {}]
    /\ inFlight = [b \in Bot |-> {}]
    /\ cur = [b \in Bot |-> NoId]
    /\ pc = [f \in Act |-> "free"]
    /\ task = [f \in Act |-> NoMsg]
    /\ saved = [f \in Act |-> NoId]
    /\ asked = [f \in Act |-> NoMsg]
    /\ handed = [f \in Act |-> NoMsg]
    /\ got = [f \in Act |-> NoMsg]
    /\ calls = [f \in Act |-> 0]

-------------------------------------------------------------------------------
(* The paho thread.                                                        *)

\* handle_response: the future that waits for the id is not done, so that m
\* counts as consumed and set_result is scheduled on the loop.  Behind another
\* set_result for the same future that will raise InvalidStateError: m is lost.
Consume(m) ==
    /\ m \in net
    /\ Awaited(m)
    /\ net' = net \ {m}
    /\ handed' = [handed EXCEPT ![pending[m.to][m.tid]] = IF @ = NoMsg THEN m ELSE @]
    /\ UNCHANGED <<world, tables, pc, task, saved, asked, got, calls>>

\* on_incoming: the id is in sent_tasks, "an answer that came too late".
Ignore(m) ==
    /\ m \in net
    /\ ~ Awaited(m)
    /\ Dropped(m)
    /\ net' = net \ {m}
    /\ UNCHANGED <<world, tables, locals>>

\* on_incoming: anything else is a task, handle_incoming is scheduled.
Accept(m) ==
    /\ m \in net
    /\ ~ Awaited(m)
    /\ ~ Dropped(m)
    /\ net' = net \ {m}
    /\ \E f \in Act :
          /\ \A g \in Act : pc[g] = "free" => f <= g
          /\ pc[f] = "free"
          /\ pc' = [pc EXCEPT ![f] = "queued"]
          /\ task' = [task EXCEPT ![f] = m]
    /\ UNCHANGED <<world, tables, saved, asked, handed, got, calls>>

-------------------------------------------------------------------------------
(* The event loop.                                                         *)

\* Slip: no check of _in_flight.
StartUnchecked(f) ==
    /\ pc[f] = "queued"
    /\ LoopFree(At(f))
    /\ pc' = [pc EXCEPT ![f] = "running"]
    /\ inFlight' = [inFlight EXCEPT ![At(f)] = @ \cup {Tid(f)}]
    /\ saved' = [saved EXCEPT ![f] = cur[At(f)]]
    /\ cur' = [cur EXCEPT ![At(f)] = Tid(f)]
    /\ UNCHANGED <<net, world, pending, sent, task, asked, handed, got, calls>>

\* Slip: the chain of a task that is suspended here stays the current one.
StartKeepsChain(f) ==
    /\ pc[f] = "queued"
    /\ LoopFree(At(f))
    /\ Tid(f) \notin inFlight[At(f)]
    /\ pc' = [pc EXCEPT ![f] = "running"]
    /\ inFlight' = [inFlight EXCEPT ![At(f)] = @ \cup {Tid(f)}]
    /\ saved' = [saved EXCEPT ![f] = cur[At(f)]]
    /\ cur' = [cur EXCEPT ![At(f)] = IF @ = NoId THEN Tid(f) ELSE @]
    /\ UNCHANGED <<net, world, pending, sent, task, asked, handed, got, calls>>

\* handle_new_task: the id is taken, current_task_id is saved and replaced.
Start(f) ==
    /\ pc[f] = "queued"
    /\ LoopFree(At(f))
    /\ Tid(f) \notin inFlight[At(f)]
    /\ pc' = [pc EXCEPT ![f] = "running"]
    /\ inFlight' = [inFlight EXCEPT ![At(f)] = @ \cup {Tid(f)}]
    /\ saved' = [saved EXCEPT ![f] = cur[At(f)]]
    /\ cur' = [cur EXCEPT ![At(f)] = Tid(f)]
    /\ UNCHANGED <<net, world, pending, sent, task, asked, handed, got, calls>>

\* handle_new_task: the id is in flight, the refusal is sent as the answer.
Reject(f) ==
    /\ pc[f] = "queued"
    /\ LoopFree(At(f))
    /\ Tid(f) \in inFlight[At(f)]
    /\ pc' = [pc EXCEPT ![f] = "done"]
    /\ net' = net \cup Reply(f)
    /\ UNCHANGED <<world, tables, task, saved, asked, handed, got, calls>>

\* Slip: no new id when there is no current chain.
CallIdsOfChain(b) == LlmIds \cup {cur[b]}

\* The id execute gives a delegation: the one the LLM passes, else the bot's
\* current_task_id, else a new one.
CallIds(b) == LlmIds \cup (IF cur[b] = NoId THEN Fresh ELSE {cur[b]})

\* The delegation of t to a peer that f issues next.  A denied target (the bot
\* itself, a bot outside the whitelist) leaves everything as it is.
Call(f, to, t) ==
    [kind |-> "task", to |-> to, from |-> At(f), tid |-> t, src |-> f,
     call |-> calls[f] + 1]

\* execute up to the publish: from now on an answer may arrive, but only
\* Await makes the future known to the paho thread.
Delegate(f) ==
    /\ pc[f] = "running"
    /\ calls[f] < MaxCalls
    /\ \E to \in Peers[At(f)] \ {At(f)}, t \in CallIds(At(f)) :
          /\ net' = net \cup {Call(f, to, t)}
          /\ asked' = [asked EXCEPT ![f] = Call(f, to, t)]
          /\ sent' = [sent EXCEPT ![At(f)] = @ \cup {t}]
          /\ used' = used \cup {t}
    /\ calls' = [calls EXCEPT ![f] = @ + 1]
    /\ pc' = [pc EXCEPT ![f] = "sending"]
    /\ UNCHANGED <<injected, faults, crashes, pending, inFlight, cur, task, saved,
                   handed, got>>

\* execute when publish reports an error: it returns at once.  paho may have
\* kept the message and send it after the connection is back.
DelegateFails(f) ==
    /\ pc[f] = "running"
    /\ calls[f] < MaxCalls
    /\ faults < MaxFaults
    /\ \E to \in Peers[At(f)] \ {At(f)}, t \in CallIds(At(f)), kept \in BOOLEAN :
          /\ net' = IF kept THEN net \cup {Call(f, to, t)} ELSE net
          /\ sent' = [sent EXCEPT ![At(f)] = @ \cup {t}]
          /\ used' = used \cup {t}
    /\ calls' = [calls EXCEPT ![f] = @ + 1]
    /\ faults' = faults + 1
    /\ UNCHANGED <<injected, crashes, pending, inFlight, cur, pc, task, saved, asked,
                   handed, got>>

\* execute: the future is entered in _pending, whoever waited there is
\* overwritten, and the coroutine awaits it.
Await(f) ==
    /\ pc[f] = "sending"
    /\ pc' = [pc EXCEPT ![f] = "waiting"]
    /\ pending' = [pending EXCEPT ![At(f)] = [@ EXCEPT ![asked[f].tid] = f]]
    /\ UNCHANGED <<net, world, sent, inFlight, cur, task, saved, asked, handed, got, calls>>

\* A set_result that was scheduled runs: the coroutine that awaits the future
\* is woken.
Fill(f) ==
    /\ pc[f] = "waiting"
    /\ LoopFree(At(f))
    /\ handed[f] # NoMsg /\ got[f] = NoMsg
    /\ got' = [got EXCEPT ![f] = handed[f]]
    /\ handed' = [handed EXCEPT ![f] = NoMsg]
    /\ UNCHANGED <<net, world, tables, pc, task, saved, asked, calls>>

\* Slip: no finally clause.
LeaveFuture(f) ==
    /\ LoopFree(At(f))
    /\ pc' = [pc EXCEPT ![f] = "running"]
    /\ asked' = [asked EXCEPT ![f] = NoMsg]
    /\ handed' = [handed EXCEPT ![f] = NoMsg]
    /\ got' = [got EXCEPT ![f] = NoMsg]
    /\ UNCHANGED <<net, world, pending, sent, inFlight, cur, task, saved, calls>>

\* Slip: the coroutine has one future for all its delegations, so that what was
\* scheduled for the one that timed out is set for the next.
LeaveHanded(f) ==
    /\ LoopFree(At(f))
    /\ pc' = [pc EXCEPT ![f] = "running"]
    /\ pending' = [pending EXCEPT ![At(f)] = [@ EXCEPT ![asked[f].tid] = 0]]
    /\ asked' = [asked EXCEPT ![f] = NoMsg]
    /\ got' = [got EXCEPT ![f] = NoMsg]
    /\ UNCHANGED <<net, world, sent, inFlight, cur, task, saved, handed, calls>>

\* The coroutine goes on; the finally clause pops the id, whoever waits there.
\* A set_result that is still scheduled is for a future nobody awaits any more.
Leave(f) ==
    /\ LoopFree(At(f))
    /\ pc' = [pc EXCEPT ![f] = "running"]
    /\ pending' = [pending EXCEPT ![At(f)] = [@ EXCEPT ![asked[f].tid] = 0]]
    /\ asked' = [asked EXCEPT ![f] = NoMsg]
    /\ handed' = [handed EXCEPT ![f] = NoMsg]
    /\ got' = [got EXCEPT ![f] = NoMsg]
    /\ UNCHANGED <<net, world, sent, inFlight, cur, task, saved, calls>>

Resume(f) == pc[f] = "waiting" /\ got[f] # NoMsg /\ Leave(f)

\* Slip: the future is awaited without wait_for.
TimeoutNever(f) == FALSE

\* wait_for expires, also when the paho thread has just found the future not
\* done: what it handed over is then lost.  (An answer that was filled in is
\* lost as well; that step of the model is the same as Resume's.)
Timeout(f) == pc[f] = "waiting" /\ got[f] = NoMsg /\ Leave(f)

\* Slip: the id stays in _in_flight.
FinishKeepsId(f) ==
    /\ pc[f] = "running"
    /\ pc' = [pc EXCEPT ![f] = "done"]
    /\ cur' = [cur EXCEPT ![At(f)] = saved[f]]
    /\ saved' = [saved EXCEPT ![f] = NoId]
    /\ calls' = [calls EXCEPT ![f] = 0]
    /\ net' = net \cup Reply(f)
    /\ UNCHANGED <<world, pending, sent, inFlight, task, asked, handed, got>>

\* handle_new_task returns and handle_incoming sends the answer.
Finish(f) ==
    /\ pc[f] = "running"
    /\ pc' = [pc EXCEPT ![f] = "done"]
    /\ cur' = [cur EXCEPT ![At(f)] = saved[f]]
    /\ saved' = [saved EXCEPT ![f] = NoId]
    /\ inFlight' = [inFlight EXCEPT ![At(f)] = @ \ {Tid(f)}]
    /\ calls' = [calls EXCEPT ![f] = 0]
    /\ net' = net \cup Reply(f)
    /\ UNCHANGED <<world, pending, sent, task, asked, handed, got>>

-------------------------------------------------------------------------------
(* The environment.                                                        *)

\* The dashboard, or skaye_sv's ping loop: a task with a new id in the name of
\* a bot whose node does not know of it.
Inject ==
    /\ injected < MaxInject
    /\ \E r \in Requester, t \in Fresh : \E to \in Peers[r] \ {r} :
          /\ net' = net \cup {[kind |-> "task", to |-> to, from |-> r, tid |-> t,
                               src |-> 0, call |-> injected + 1]}
          /\ used' = used \cup {t}
    /\ injected' = injected + 1
    /\ UNCHANGED <<faults, crashes, tables, locals>>

\* The destination's clean session was down when m was published.
Lose(m) ==
    /\ m \in net
    /\ faults < MaxFaults
    /\ faults' = faults + 1
    /\ net' = net \ {m}
    /\ UNCHANGED <<used, injected, crashes, tables, locals>>

\* A bot's process dies and is started again with empty tables.
Crash(b) ==
    LET hit == {f \in Act : pc[f] \notin {"free", "done", "gone"} /\ At(f) = b}
    IN  /\ crashes[b] < MaxCrash
        /\ crashes' = [crashes EXCEPT ![b] = @ + 1]
        /\ pending' = [pending EXCEPT ![b] = [t \in Id |-> 0]]
        /\ sent' = [sent EXCEPT ![b] = {}]
        /\ inFlight' = [inFlight EXCEPT ![b] = {}]
        /\ cur' = [cur EXCEPT ![b] = NoId]
        /\ pc' = [f \in Act |-> IF f \in hit THEN "gone" ELSE pc[f]]
        /\ saved' = [f \in Act |-> IF f \in hit THEN NoId ELSE saved[f]]
        /\ asked' = [f \in Act |-> IF f \in hit THEN NoMsg ELSE asked[f]]
        /\ handed' = [f \in Act |-> IF f \in hit THEN NoMsg ELSE handed[f]]
        /\ got' = [f \in Act |-> IF f \in hit THEN NoMsg ELSE got[f]]
        /\ calls' = [f \in Act |-> IF f \in hit THEN 0 ELSE calls[f]]
        /\ UNCHANGED <<net, used, injected, faults, task>>

-------------------------------------------------------------------------------
Receive(m) == Consume(m) \/ Ignore(m) \/ Accept(m)

\* A step of the coroutine of f, or of the callback that fills its future.
Step(f) ==
    \/ Start(f) \/ Reject(f)
    \/ Delegate(f) \/ DelegateFails(f) \/ Await(f)
    \/ Fill(f) \/ Resume(f) \/ Timeout(f) \/ Finish(f)

Next ==
    \/ \E m \in net : Receive(m) \/ Lose(m)
    \/ \E f \in Act : Step(f)
    \/ Inject
    \/ \E b \in Bot : Crash(b)

Spec == Init /\ [][Next]_vars

\* The loop runs every ready coroutine, timers expire, an agent's turn has at
\* most max_steps steps.  Nothing is assumed of the broker or of the outside.
FairSpec == Spec /\ \A f \in Act : WF_vars(Step(f))

-------------------------------------------------------------------------------
(* What the protocol keeps to, whatever the traffic, the timeouts, the      *)
(* faults and the restarts.                                                *)

TypeOK ==
    /\ net \subseteq Msg
    /\ used \subseteq Id
    /\ injected \in Nat /\ faults \in Nat /\ crashes \in [Bot -> Nat]
    /\ pending \in [Bot -> [Id -> ActOrNone]]
    /\ sent \in [Bot -> SUBSET Id]
    /\ inFlight \in [Bot -> SUBSET Id]
    /\ cur \in [Bot -> Id \cup {NoId}]
    /\ pc \in [Act -> {"free", "queued", "running", "sending", "waiting", "done", "gone"}]
    /\ task \in [Act -> Msg \cup {NoMsg}]
    /\ saved \in [Act -> Id \cup {NoId}]
    /\ asked \in [Act -> Msg \cup {NoMsg}]
    /\ handed \in [Act -> Msg \cup {NoMsg}]
    /\ got \in [Act -> Msg \cup {NoMsg}]
    /\ calls \in [Act -> Nat]

\* _in_flight holds an id exactly while one activation of the bot works on it,
\* through every await, timeout and failure: the loop check of handle_new_task
\* neither forgets a suspended task nor refuses a delivered one for ever.
SlotsExact ==
    /\ \A f \in Act : Live(f) => Tid(f) \in inFlight[At(f)]
    /\ \A b \in Bot : \A t \in inFlight[b] :
          \E f \in Act : Live(f) /\ At(f) = b /\ Tid(f) = t
    /\ \A f, g \in Act :
          Live(f) /\ Live(g) /\ At(f) = At(g) /\ Tid(f) = Tid(g) => f = g

\* A future in _pending belongs to a coroutine of this bot that is awaiting it
\* now, under the id it delegated: no answer is handed to a coroutine that
\* timed out, finished, or died with the process.
PendingOwned ==
    \A b \in Bot, t \in Id :
        LET f == pending[b][t]
        IN  f # 0 => pc[f] = "waiting" /\ At(f) = b /\ asked[f].tid = t

\* A return is never answered: the activation that sent one was working on a
\* delegation, for another bot than its own, and the return goes to that bot.
NoEcho ==
    \A m \in net : m.kind = "return" =>
        /\ task[m.src].kind = "task"
        /\ m.to = task[m.src].from /\ m.to # At(m.src)

\* An answer that comes too late, or twice, is never run as a task, by an LLM
\* or otherwise, unless its bot forgot in a restart that it had asked.
ReturnRunOnlyAfterRestart ==
    \A f \in Act : pc[f] # "free" /\ task[f].kind = "return" => crashes[At(f)] > 0

\* However an answer races the timeout between the paho thread and the loop,
\* and whichever delegations of the task came before: a coroutine goes on with
\* a message for its own bot under the id it delegated last, and an answer it
\* goes on with is what another bot made of a delegation of this bot under
\* that id.
AnswersOwnId ==
    \A f \in Act : got[f] # NoMsg =>
        /\ pc[f] = "waiting"
        /\ got[f].to = At(f) /\ got[f].tid = asked[f].tid
        /\ got[f].kind = "return" =>
              LET g == got[f].src
              IN  /\ task[g].kind = "task" /\ task[g].from = At(f)
                  /\ Tid(g) = asked[f].tid /\ At(g) # At(f)

\* Every task that a bot accepted comes to an end, even when bots wait for one
\* another in a circle or answers are lost, unless the process dies.
EveryTaskEnds == \A f \in Act : pc[f] = "queued" ~> pc[f] \in {"done", "gone"}

\* The promise of ChainSlots is kept by _in_flight.
PhaseOf(f) ==
    CASE pc[f] = "free" -> "unused"
      [] pc[f] = "queued" -> "queued"
      [] Live(f) -> "active"
      [] pc[f] = "gone" -> "gone"
      [] OTHER -> "over"

Phases == [f \in Act |-> PhaseOf(f)]
Keys == [f \in Act |-> IF pc[f] = "free" THEN NoMsg ELSE <<At(f), Tid(f)>>]

Slots == INSTANCE ChainSlots WITH NoKey <- NoMsg, phase <- Phases, key <- Keys

\* A task that arrives while its id is suspended at the bot is refused, any
\* other is run (docs/protocol.md section 5, of the tasks the bot accepts).
SlotsPromise == Slots!Spec

-------------------------------------------------------------------------------
(* What holds in some configurations only.                                 *)

\* What execute returns as the result of a delegation is what that delegation
\* was answered with, and nothing else that carries the same id.
AnswersOwnCall ==
    \A f \in Act : got[f] # NoMsg =>
        /\ got[f].kind = "return"
        /\ task[got[f].src].src = f /\ task[got[f].src].call = calls[f]

\* A delegation of an id that is suspended at its target is refused there
\* (docs/protocol.md:94), so that it is never taken for an answer.
LoopIsRefused == \A f \in Act : got[f] # NoMsg => got[f].kind # "task"
===============================================================================
