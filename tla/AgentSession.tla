----------------------------- MODULE AgentSession -----------------------------
(***************************************************************************)
(* The agent loop of one bot (lis_harness/agent.py) on the sessions the    *)
(* node keeps, one per bot it talks with (tll_protocol_v2/node.py): what   *)
(* the turns append to the append-only logs (lis_harness/session.py), and  *)
(* what the language model is then asked with (adapters/deepseek.py).      *)
(*                                                                         *)
(* Every turn is a coroutine of the same event loop.  The model is called  *)
(* without giving the loop up; only a tool that delegates to another bot   *)
(* does, until its answer or its timeout (module Delegation).              *)
(*                                                                         *)
(* Left out here: the text of messages, the events of the log that are not *)
(* sent to the model, the event bus.                                       *)
(***************************************************************************)
EXTENDS Naturals, Sequences, FiniteSets

CONSTANTS
    Peer,      \* the bots that send tasks
    Turn,      \* the tasks received that an agent has to run
    From,      \* who sent a task
    MaxSteps,  \* AgentOptions.max_steps
    MaxCalls   \* bound: tool calls in one message of the model

ASSUME AgentSessionAssumption ==
    /\ From \in [Turn -> Peer]
    /\ MaxSteps \in Nat \ {0}
    /\ MaxCalls \in Nat

VARIABLES
    log,      \* node._sessions: what each peer's session sends to the model
    pc,       \* where a turn is
    step,     \* the step of its loop
    todo,     \* the calls of its last assistant message still to be run
    reason    \* how it ended; of the errors, "refused" names those the API's rule
              \* on calls and results causes

vars == <<log, pc, step, todo, reason>>

\* The ids that the model gives to the n calls of t's current step.
CallIds(t, n) == [i \in 1..n |-> <<t, step[t], i>>]

Id == Turn \X (1..MaxSteps) \X (1..MaxCalls)

Message(kind, t, ids) == [kind |-> kind, turn |-> t, ids |-> ids]

Entry == [kind : {"system", "user", "assistant", "result"}, turn : Turn, ids : Seq(Id)]

\* _session_for: the session of a turn is the one of the bot that sent the task.
Session(t) == From[t]

Appended(t, messages) == [log EXCEPT ![Session(t)] = @ \o messages]

\* No turn is between two awaits.
LoopFree == \A t \in Turn : pc[t] \notin {"ask", "tools"}

HasSystem(t) == \E i \in 1..Len(log[Session(t)]) : log[Session(t)][i].kind = "system"

\* The API's rule: the results of an assistant message's calls are the messages
\* that follow it at once, and there are no other results.
Window(s, i) == (i + 1)..(i + Len(s[i].ids))

Paired(s) ==
    LET Asks == {i \in 1..Len(s) : s[i].kind = "assistant"}
        Answers == {k \in 1..Len(s) : s[k].kind = "result"}
    IN  /\ \A i \in Asks :
              {s[k].ids : k \in Window(s, i) \cap Answers} = {<<s[i].ids[j]>> : j \in 1..Len(s[i].ids)}
        /\ \A k \in Answers : \E i \in Asks : k \in Window(s, i)

Init ==
    /\ log = [p \in Peer |-> <<>>]
    /\ pc = [t \in Turn |-> "queued"]
    /\ step = [t \in Turn |-> 0]
    /\ todo = [t \in Turn |-> <<>>]
    /\ reason = [t \in Turn |-> "none"]

-------------------------------------------------------------------------------
End(t, why) ==
    /\ pc' = [pc EXCEPT ![t] = "over"]
    /\ reason' = [reason EXCEPT ![t] = why]
    /\ todo' = [todo EXCEPT ![t] = <<>>]
    /\ UNCHANGED step

\* Slip: every agent injects its system prompt.
BeginAnew(t) ==
    /\ pc[t] = "queued"
    /\ LoopFree
    /\ log' = Appended(t, <<Message("system", t, <<>>), Message("user", t, <<>>)>>)
    /\ pc' = [pc EXCEPT ![t] = "ask"]
    /\ step' = [step EXCEPT ![t] = 1]
    /\ UNCHANGED <<todo, reason>>

\* run: the system prompt is injected unless the session has one, and the
\* first step appends the user's message.
Begin(t) ==
    /\ pc[t] = "queued"
    /\ LoopFree
    /\ log' = Appended(t,
                 (IF HasSystem(t) THEN <<>> ELSE <<Message("system", t, <<>>)>>)
                 \o <<Message("user", t, <<>>)>>)
    /\ pc' = [pc EXCEPT ![t] = "ask"]
    /\ step' = [step EXCEPT ![t] = 1]
    /\ UNCHANGED <<todo, reason>>

\* generate raises: the API is not reached, or it refuses messages that are not
\* paired.  The turn ends, what it appended stays.
Fail(t) == pc[t] = "ask" /\ End(t, "error") /\ UNCHANGED log

Refused(t) ==
    /\ pc[t] = "ask"
    /\ ~ Paired(log[Session(t)])
    /\ End(t, "refused")
    /\ UNCHANGED log

\* generate answers with a text and no call: the turn is completed.
Conclude(t) ==
    /\ pc[t] = "ask"
    /\ Paired(log[Session(t)])
    /\ log' = Appended(t, <<Message("assistant", t, <<>>)>>)
    /\ End(t, "completed")

\* Slip: of several calls only the first is run.
ChooseFirstOnly(t) ==
    /\ pc[t] = "ask"
    /\ Paired(log[Session(t)])
    /\ \E n \in 1..MaxCalls :
          /\ log' = Appended(t, <<Message("assistant", t, CallIds(t, n))>>)
          /\ todo' = [todo EXCEPT ![t] = CallIds(t, 1)]
    /\ pc' = [pc EXCEPT ![t] = "tools"]
    /\ UNCHANGED <<step, reason>>

\* generate answers with calls: they are run one after the other.
Choose(t) ==
    /\ pc[t] = "ask"
    /\ Paired(log[Session(t)])
    /\ \E n \in 1..MaxCalls :
          /\ log' = Appended(t, <<Message("assistant", t, CallIds(t, n))>>)
          /\ todo' = [todo EXCEPT ![t] = CallIds(t, n)]
    /\ pc' = [pc EXCEPT ![t] = "tools"]
    /\ UNCHANGED <<step, reason>>

\* A call's result, or the text of its failure, is appended.
Result(t) ==
    /\ log' = Appended(t, <<Message("result", t, <<Head(todo[t])>>)>>)
    /\ todo' = [todo EXCEPT ![t] = Tail(@)]
    /\ pc' = [pc EXCEPT ![t] = "tools"]
    /\ UNCHANGED <<step, reason>>

\* Slip: a tool that raises leaves no result.
RunToolOpen(t) ==
    /\ pc[t] = "tools"
    /\ todo[t] # <<>>
    /\ \/ Result(t)
       \/ /\ todo' = [todo EXCEPT ![t] = Tail(@)]
          /\ UNCHANGED <<log, pc, step, reason>>

\* A tool that runs in this process is over before the loop is given up.
RunTool(t) == pc[t] = "tools" /\ todo[t] # <<>> /\ Result(t)

\* A tool that delegates awaits the answer.
Delegate(t) ==
    /\ pc[t] = "tools"
    /\ todo[t] # <<>>
    /\ pc' = [pc EXCEPT ![t] = "await"]
    /\ UNCHANGED <<log, step, todo, reason>>

\* Slip: the delegation has no timeout.
ReturnNever(t) == FALSE

\* The delegation was answered, failed or timed out.
Return(t) == pc[t] = "await" /\ LoopFree /\ Result(t)

\* Slip: one step too many.
NextStepTooMany(t) ==
    /\ pc[t] = "tools"
    /\ todo[t] = <<>>
    /\ step[t] <= MaxSteps
    /\ pc' = [pc EXCEPT ![t] = "ask"]
    /\ step' = [step EXCEPT ![t] = @ + 1]
    /\ UNCHANGED <<log, todo, reason>>

NextStep(t) ==
    /\ pc[t] = "tools"
    /\ todo[t] = <<>>
    /\ step[t] < MaxSteps
    /\ pc' = [pc EXCEPT ![t] = "ask"]
    /\ step' = [step EXCEPT ![t] = @ + 1]
    /\ UNCHANGED <<log, todo, reason>>

\* The loop is left because the steps are used up.
Exhaust(t) ==
    /\ pc[t] = "tools"
    /\ todo[t] = <<>>
    /\ step[t] = MaxSteps
    /\ End(t, "max-steps")
    /\ UNCHANGED log

Run(t) ==
    \/ Begin(t) \/ Fail(t) \/ Refused(t) \/ Conclude(t) \/ Choose(t)
    \/ RunTool(t) \/ Delegate(t) \/ Return(t) \/ NextStep(t) \/ Exhaust(t)

Next == \E t \in Turn : Run(t)

Spec == Init /\ [][Next]_vars

\* The loop runs every ready coroutine and delegations time out.
FairSpec == Spec /\ \A t \in Turn : WF_vars(Run(t))

-------------------------------------------------------------------------------
TypeOK ==
    /\ log \in [Peer -> Seq(Entry)]
    /\ pc \in [Turn -> {"queued", "ask", "tools", "await", "over"}]
    /\ step \in [Turn -> 0..MaxSteps]
    /\ todo \in [Turn -> Seq(Id)]
    /\ \A t \in Turn : Len(todo[t]) <= MaxCalls
    /\ reason \in [Turn -> {"none", "completed", "max-steps", "error", "refused"}]

\* A session starts with its system prompt and has no other, whichever of the
\* peer's turns came first (agent.py: the stable prefix of the prompt cache).
OneSystemPrompt ==
    \A p \in Peer : \A i \in 1..Len(log[p]) : log[p][i].kind = "system" <=> i = 1

\* Where a turn's messages are in its session, and how many of them follow the i-th up to
\* the j-th: other turns of the same peer may have appended theirs in between.
Mine(t) == {i \in 1..Len(log[Session(t)]) : log[Session(t)][i].turn = t}

Places(t, kind) == {i \in Mine(t) : log[Session(t)][i].kind = kind}

Since(t, i, j) == Cardinality({l \in Mine(t) : i < l /\ l <= j})

CallsAt(t, i) == log[Session(t)][i].ids

\* The turn's k-th message after the i-th is the result of the i-th's k-th call.
Answered(t, i, k) ==
    \E j \in Places(t, "result") : Since(t, i, j) = k /\ CallsAt(t, j) = <<CallsAt(t, i)[k]>>

\* In a turn that is over, every call the model made has one result, in the
\* turn's own session and in the order of the calls, failures included.
CallsAnsweredInOrder ==
    \A t \in Turn : pc[t] = "over" =>
        /\ \A i \in Places(t, "assistant") : \A k \in 1..Len(CallsAt(t, i)) : Answered(t, i, k)
        /\ \A j \in Places(t, "result") : \E i \in Places(t, "assistant") :
              Since(t, i, j) \in 1..Len(CallsAt(t, i))

\* A turn of p was suspended while another one appended to the log.
Interrupted(p) ==
    \E i, j, k \in 1..Len(log[p]) :
        /\ i < j /\ j < k
        /\ log[p][i].turn = log[p][k].turn /\ log[p][i].turn # log[p][j].turn

\* Turns of different peers never disturb one another, and neither do turns of
\* one peer that follow one another: the API refuses a request only if a turn
\* of the same peer is suspended or was interrupted.
RefusedOnlyIfInterrupted ==
    \A t \in Turn : reason[t] = "refused" =>
        \/ Interrupted(Session(t))
        \/ \E u \in Turn \ {t} : Session(u) = Session(t) /\ todo[u] # <<>>

\* Every task an agent starts on comes to an end within max_steps.
EveryTurnEnds == \A t \in Turn : pc[t] = "queued" ~> pc[t] = "over"
===============================================================================
