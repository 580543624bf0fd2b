# TLA+ models of LISBotSystem

LISBotSystem runs a cluster of bots, each a process with its own language model, tools and
memory, that hand tasks to one another over MQTT. This directory holds TLA+ modules of the
protocol and of the parts whose correctness depends on order, timing or failure, the TLC
configurations that check them on small clusters, and TLAPS proofs that hold for clusters of
any size.

The second generation of the protocol (`src/tll_protocol_v2`, on the agent framework
`src/lis_harness`) is what the launchers start; the first one (`src/tll_protocol`, "v1" or
"legacy" below) is kept beside it. Both are modelled.

1. [The system](#1-the-system): inventory of components
2. [The modules](#2-the-modules): what is modelled, and how it corresponds to the code
3. [The runs](#3-the-runs): what is checked, with which bounds
4. [Where the code and its documents differ](#4-where-the-code-and-its-documents-differ)
5. [The proofs](#5-the-proofs)
6. [The plan](#6-the-plan)
7. [Not modelled](#7-not-modelled)

## 1. The system

A bot's process has two threads. paho's network thread decrypts what arrives and decides
whether it is the answer to something this bot asked or a new task; the asyncio loop runs one
coroutine per accepted task. Calls of the language model (`urllib`), local tools, approval
and compression block the loop: a task gives it up only while it awaits the answer of a
delegation. So tasks interleave at delegations and nowhere else, and the paho thread
interleaves with everything.

| component | state | operations | makes it correct |
|---|---|---|---|
| **transport** `transport.py` | `_pending`, `sent_tasks`, `current_task_id`, `current_trace` | `execute`, `handle_response` | an answer reaches the coroutine that asked; a future is set once; a delegation ends |
| **node** `node.py`, `start_v2.py` | `_in_flight`, `_sessions` | `handle_new_task`, `handle_incoming`, `on_incoming`, `_handle_delegate` | a task that is suspended is not run again; an answer is not run as a task, nor answered |
| **MQTT** `mqtt.py`, `core.py`, `security.py` | the connection | `connect`, `publish`, `_on_message` | none of its own: QoS 2, clean sessions, so that a bot that is down loses messages |
| **agent and sessions** `agent.py`, `session.py`, `deepseek.py` | one append-only log per peer | `run`, tool calls, projection of the log | each call has one result in its place; one system prompt; a turn ends |
| **task archive** `sv_tools.py` | a file per task, an index in memory | `add_task`, `_load_index` | the archive is what the bots reported, in whatever order |
| **registry, contacts** `bot_config.py`, `contact_tools.py`, `skaye_tools.py`, `report_sender.py`, `sv_tools.py` | `registered_bots.json` and its copy in `RegistryStore`; a `bot.yaml` per bot and its peers in memory | registration, handshake, `list_eiar_robots`, introductions, `add_eiar_peers`, `remove_peer`, `_reload_peers` | the whitelist in memory is the one on disk; EiAr and SaYi bots stay islands; a task of a matchmaker ends |
| **tools** `registry.py`, `loader.py`, `skill_loader.py`, `sentries.py` | registered tools, watches, modules | register, dispose, `reload_if_changed`, `ToolRuntime.execute` | a call runs the definition that is on disk; what cannot be loaded is not run |
| **governance, sandbox** `security/*` | modes, policies, approvals; processes and job objects | `pipeline.execute`, `_run_command`, `Job.spawn`, `Job.wait` | nothing runs beyond the mode that was granted; a command does not hold up the bot, nor outlive its call |
| **memory** `memory.py`, `rag.py` | summaries, knowledge base, retrieval index | `should_compress`, `compress`, `query` | what leaves the conversation is kept |
| **dashboard** `dashboard_v2.py` | files it reads | `send_task_as_sayi_sv` | its tasks are answered to the bot it speaks for |
| **v1 routing** `executor.py`, `bot.py`, `receiver.py`, `task_sender.py`, `hooks/` | route stack, pending queues, `outgoing_tasks` | execute, forward, return, review | a task is in one place and comes to its end |
| **v1 history** `history_manager.py`, `knowledge_base.py` | `history.jsonl`, summaries, `worldsmemory.json`, `knowledge_base.json` | `add_message`, `compress`, loading | what is cut from the history was saved before |
| **v1 console and events** `templates/start_sayi_sv.py`, `sv_node.py`, `dispatcher.py`, `dashboard_server.py` | the answer queue, results, the log queue, subscribers | `send_and_wait`, `send_chat`, `enqueue`, `add` | an answer is found under its task; viewers get events in order; nobody blocks the publishers |

How they interact. The dashboard publishes a task in the name of `sayi_sv`; its bot gets the
task as an envelope, `on_incoming` schedules `handle_incoming`, which calls
`handle_new_task`; the agent's turn runs in the session of the sender; a `task_create` call
of the model goes to `V2TLLTransport.execute`, which publishes and awaits a future that
`handle_response` fills from the other thread; the answer is the same task object, with the
asker still in `from_bot`, sent back by `handle_incoming`. Twice on this way a report of the
task is scheduled, which is itself a delegation, of `report_task` to `skaye_sv`.
Registration, handshakes and matchmaking are delegations too, whose tools write the `bot.yaml`
of the bot they run in, from which node and transport take their whitelist again. Each tool
call of the model, delegating or not, passes the hot reload of its module and the governance
pipeline. In v1, a task carries the stack of bots it has to return through, and each handler
of a bot sends it on, back, or to its end; what is logged on the way becomes an event for the
dashboard.

What is hard: an answer is recognised by its id alone, and one id serves a whole chain of
delegations, which may come back to a bot that already waits under it; one
`current_task_id` is shared by all tasks of a bot; late answers meet later delegations;
restarts forget who asked; tasks of one peer share a log; nearly every file is rewritten in
place, and what cannot be parsed counts as empty; a matchmaking writes files in three processes
one after the other; a reload takes a tool away before it has the new one; locks and bounded
queues meet in the dashboard. `PROJECT.json` lists each of these
under `hazards`, at the line where it bites, with the properties that watch it.

## 2. The modules

| module | about |
|---|---|
| `Delegation` | delegation between bots: transport, node and the paho thread |
| `ChainSlots` | what `Delegation` promises about one id at one bot, abstractly |
| `AgentSession` | the agent loop of one bot on the sessions of its peers |
| `TaskArchive` | the central archive that the bots of a chain report to |
| `Contacts` | registration and matchmaking: who may delegate to whom |
| `ToolCalls`, which extends `JobShell` | a bot's tool calls: hot reload, registry, governance, the shell sandbox |
| `RoutingV1` | the way of a v1 task through its bots and back |
| `Memory` | the history of a v1 bot and the memory of a v2 bot, with their compression |
| `Console`, which extends `EventStream` | v1: the terminal and chats of SaYi_SV, and the events on their way to the dashboard |
| `Delegation_proofs`, `AgentSession_proofs`, `TaskArchive_proofs`, `Contacts_proofs`, `ToolCalls_proofs`, `Memory_proofs`, `Console_proofs`, `RoutingV1_proofs` | theorems about the modules they are named for |
| `MCDelegation`, `MCAgentSession`, `MCContacts`, `MCToolCalls`, `MCRoutingV1`, `MCMemory`, `MCConsole` | instances for TLC |

Operators whose comment begins with *Slip* are variants of the definition below them, with a
bug that the code could have had. `PROJECT.json` pairs each with a property that finds it;
no specification uses them.

### Delegation

`Bot`, `Id`, the whitelist `Peers`, the bots without a model (`Headless`) and the bots in
whose name something outside sends (`Requester`) are parameters, with bounds `MaxAct`,
`MaxCalls`, `MaxInject`, `MaxFaults`, `MaxCrash`. A run of `handle_incoming` is an
*activation*, a number in `Act`. One step is what happens between two awaits, or what the
paho thread does with one message.

| in the model | in the code |
|---|---|
| `pending[b][t]` | `tll._pending`: the activation whose future is entered under the id |
| `sent[b]` | the ids in `tll.sent_tasks` |
| `inFlight[b]` | `node._in_flight` |
| `cur[b]`, `saved[f]` | `tll.current_task_id`, and the `prev_tid` of a coroutine |
| `handed[f]`, `got[f]` | the `set_result` that `call_soon_threadsafe` has scheduled for the future f awaits; its result |
| `asked[f]` | the local `task_id` and target of `execute` |
| `net` | messages published and not delivered; a set, so that any may come first |
| `Consume`, `Ignore`, `Accept` | `handle_response` is true; the id is in `sent_tasks`, or a bot without a model receives its own; `handle_incoming` is scheduled |
| `Fill` | the scheduled `set_result` runs; a second one raises, and its message is lost |
| `Start`, `Reject` | `handle_new_task` when the id is free, and when it is in flight |
| `Delegate`, `Await` | `execute` up to the publish, and from the entry in `_pending`: in between, the answer may arrive |
| `DelegateFails` | `publish` reports an error; paho may still send the message later |
| `Resume`, `Timeout` | the coroutine goes on; `finally` pops the id, *whoever waits there* |
| `Finish` | the rest of `handle_new_task`, `current_task_id` restored, the answer sent |
| `Inject` | `send_task_as_sayi_sv` and the ping loop of `skaye_sv`: both publish a task with a new id in the name of a bot whose transport does not learn of it |
| `Lose`, `Crash` | the destination's clean session was down; a process dies and starts with empty tables |

`handle_response` looks at the future in paho's thread and schedules `set_result` on the loop:
between the two (`Consume`, `Fill`) a second message may be taken as well, and is lost, or
`wait_for` may expire, and what was handed over is lost (`Leave`). For one message it is called
twice, as `on_return` and from `on_incoming`; every interleaving of the two with the loop has
the effect of one of the three actions. A denied target changes nothing and needs
no action. `Inject` follows the code of `send_task_as_sayi_sv`, which publishes to the
target; its docstring has the real `sayi_sv` delegate instead, so that the answer is awaited.
An envelope has three fields the code does not read, `kind`, `src` and `call`, with which the
properties tell an answer from a task and whose answer it is.

### ChainSlots

Section 5 of `docs/protocol.md` as a specification: an arrival under an id that is active at
its bot is refused, any other may run, and each is handled once, unless its bot dies (phase
`gone`). It does not say how a bot remembers the active ids. `Delegation` implements it
(`SlotsPromise`), an activation's phase being `PhaseOf` and its key the bot and the id.

### AgentSession

Turns of several peers in one process. `log` holds what each session sends to the model; text
is left out, and a message is its kind, its turn and the ids of its calls or the id it answers;
the layers of a system prompt count as one message. `Begin` is `run` up to the first request,
with the system prompt if the session has none; `Choose` and `Conclude` are the model's two
kinds of answer; `RunTool` is a tool that stays in the process, `Delegate` and `Return` one
that awaits another bot. `Refused` is the API's rejection of messages in which the results of
calls do not follow their calls, as the comments of `agent.py` and `deepseek.py` state the
rule; `Fail` is any other error of the request. Both end the turn, and what it appended stays
in the log.

### TaskArchive

A chain of bots, of which each may ask the next one. Every bot adds hops to the trace object
of its task and schedules two reports; both coroutines run after `handle_incoming` has
finished, so that both hold the hop of the answer. `Store` is `add_task`: logs and hops are
united with those in the file, all other fields are those of the report. `Tear` is a crash
between the truncation of the file and its rewriting. `arrived` exists for the properties
only: the reports that went into the file since it was last destroyed.

### Contacts

EiAr bots (workers), SaYi bots (interfaces) and Skaye bots (managers) start as strangers; a
Skaye bot knows skaye_sv and its partner SaYi. A bot that runs has two whitelists, the one in
its `bot.yaml` and the copy that node and transport use. One step is what happens between two
awaits of a coroutine, with the write of a file in it, which may fail or be cut short by the
end of the process.

A matchmaking is a task of a Skaye bot: a turn of its model, whose tools are the registry, the
two introductions and two tools for its own whitelist (`ToolCalls`). The steps are a text in
`skaye_996/bot.yaml`, which nothing enforces, and a failure, a refusal or a timeout is a text
among the others. So the model calls any tool in any order with any of the lists in `Lists`, as
often as `max_steps` allows, and no step ends the turn but its last. All delegations of a task
have its id, and an answer is taken by whichever is outstanding.

| in the model | in the code |
|---|---|
| `file[b]`, `whole[b]` | the peers in `bot.yaml`; whether the rest of the file is intact |
| `peers[b]`, `up` | `node.peers` and `tll.peers` of a running process |
| `reg`, `regFile` | `RegistryStore._bots` and `registered_bots.json` |
| `calls` | delegations of these tools and their answers, on their way |
| `job[t]` | where the turn of a task is, how many tools it has called |
| `Start`, `Record` | the report at the start (`report_sender.py`), `record_lis` |
| `List` | `list_eiar_robots`, before which skaye_sv notes the handshake and saves |
| `SvStart`, `Loaded` | `RegistryStore` and its `_load`, which takes a torn file for an empty one |
| `Written`, `WriteFails`, `SvTear` | `_save` of the registry: done; raised, before or after it truncated the file, and swallowed; cut short |
| `Begin`, `End`, `Delegate`, `Rewrite` | a turn of the agent: its begin and end, `task_create`, and `add_eiar_peers` or `remove_peer`, which removes any id |
| `Introduce` | `set_sayi_contact` and `set_eiar_contacts`, in the bot they are sent to |
| `Save`, `SaveFails`, `SaveDies` | `BotConfigManager` rewriting the file and `_reload_peers` after it |
| `Take`, `Timeout`, `Lose` | an answer, the end of `wait_for`, a message to nobody |
| `Stop`, `SvStop` | a process ends |

The handshakes that other messages to skaye_sv move rewrite the registry with what it holds,
like those of `List`.

### ToolCalls and JobShell

All calls of a bot run on one event loop, and a call gives it up only while an approval is
pending (`AwayFromLoop`, `LoopFree`). The model follows a call through `ToolRuntime.execute`:
`Begin`, `Import`, `Register` are `reload_if_changed` and `reload_tool`; `Resolve` is the head
of the pipeline, where the first listener that does not allow decides (`VerdictOn`); `Decide`
is the approval, whose mode goes to this call alone (`Resolved`); `Touch` and `Command` are the
file and shell backends, which compare the mode with what they are asked for. Source files are
edited at any time (`Edit`), also between the import of a module and the reading of its
modification time; such an edit is noted in `slip`. A content is its version and what becomes
of loading it (`Kind`).

`JobShell` has the processes of a command: the interpreter that the harness starts, the shell
that it starts, the command itself; the job object, what is in it, and the steps of `Job` and
`communicate` between which those processes go on. `OpenedRights` and `AssignRights` are the
rights that `popen_in_job` asks for and that the system demands of it. `Job.spawn` and
`Job.wait`, which nothing in the repository calls, are the calls in `Spawns`.

### RoutingV1

A message holds its task's route, the command and the count of delegations; a step is the
whole handler of one message (`Handled`), so that a handler is a set of possible outcomes,
built by the functions that the code calls: `Execute`, `Chat`, `Forward`, `ProcessReturn`,
`Answer`, and `Failed` with the error hook's ways back. These are named by their place on the
route, with 0 for the creator, and tried from the last place on while publications fail
(`HookWays`, `Before`). `outgoing`, `queue` and `callback` are the tables of a bot;
`calls` and `finals` count what the properties speak of. `Crash` empties them.

### Memory

A message is a number, and its knowledge is itself, so that what is remembered can be
compared with what was said. `Stages` is the order in which `compress` writes its files;
`Compress` with a stage n is a compression that a crash stops in that stage, with everything
that the file then may hold: a JSON file that is whole or torn, a history with some of its
lines, with an unfinished line, or without its last newline (`tail`). v1 and v2 bots differ in
`Coming` (a line, or a turn), `Stages`, and in that a session is not cut. `blank` holds
messages for which the language model made no points, and `torn` lines that cannot be read any
more. A summary is named by the second in which it is written, and where no call of the model
takes time (it is refused, or there is no model and the fallback makes the points) the last one
may have had the same name: `Beside` says what stays beside the new file, and `replaced` keeps
what was overwritten. Writes that raise while the bot goes on are not modelled, only writes that
a crash cuts short.

### Console and EventStream

`EventStream` follows an event: the dispatcher's bounded queue and thread, MQTT, the store with
its lock, a bounded queue and a thread per viewer. `EventStore.add` is `Add`, a `Put` for each
viewer, and `AddDone`, during all of which it holds the lock. An event may be lost, or come
twice after a reconnect (`Published`); it is known by its place in the store. `Console` adds
the terminal (`Ask`, `Send` or `SendFails`, `Get`, `GiveUp`) and the dashboard's chats
(`SendChat`). An answer is a task and a number: a task that fails (`Failing`) is sent back by
the error hook and again by `process_return`, and `outgoing_tasks`, which keeps it, lets every
answer in (`Arrive`). Answers are handled in a pool of threads in three steps: `Store` the
result, `Check` for a current queue, and `PutAnswer` into the queue that is current by then.

## 3. The runs

| run | configuration | shows |
|---|---|---|
| `interleaved` | s asks a, a and b may ask each other; 3 activations, 2 delegations each, 2 outside tasks | what a coroutine goes on with has the id it asked last, in every order of answers, timeouts and steps; `ChainSlots` implemented |
| `faults` | s asks a or b, which may ask each other; 4 activations, 1 delegation each, 1 outside task, 1 fault, 1 restart of each bot, a model that passes `i1` as `task_id` | the tables survive restarts; no answer is echoed, or run as a task by a bot that was not restarted; every task ends |
| `acyclic` | a whitelist without cycles; 4 activations, 1 delegation each, 2 outside tasks, 1 fault | each delegation gets its own answer |
| `loop_taken_for_answer` | a ring of three bots | violates `LoopIsRefused`: section 4 |
| `sessions` | two turns of p and one of q, 2 steps, 2 calls per message | one system prompt; results complete and in order; the API refuses only where turns of one peer overlap; every turn ends |
| `archive` | a chain of 3 bots, 1 lost report, 2 restarts of skaye_sv | the archive is the union of what arrived; round trips are whole; file and index agree |
| `contacts` | a matchmaker, 2 EiAr and 2 SaYi bots, 3 tool calls with lists of a SaYi bot, of both EiAr bots, or of skaye_sv; one EiAr bot is known at first and one contact set; 1 stop or failed write | whitelists are those of the files; islands stay; skaye_sv knows what its file holds; the task ends |
| `tools` | 4 calls of 2 tools of one module: a write outside of the workspace, a read, a command, a program under `Job.spawn`; 2 listeners; 2 edits | definitions are fresh; a tool is registered and watched, or neither; only a granted call goes beyond the base mode; the event loop comes free |
| `orphan` | a bot with full access, a command and two other calls | violates `NoOrphan`: section 4 |
| `routing` | one task among 3 bots, of which 2 have a language model; plans of 2 commands, 3 in all; 1 failing command, 1 failing publication, 1 crash | the task is in one place while all is well; it ends unless a message was lost; the archive callback comes once |
| `memory` | a v1 and a v2 bot, a window of 3 messages, 6 messages each, 2 crashes | what has to be remembered is in a summary, the knowledge base or the history |
| `console` | 2 questions, of which one may be answered twice, and a chat, 2 threads; 3 events, a viewer that subscribes twice, queues of 1 | types and bounds; an answer is taken once and after its question; none that was dealt with is missed; events once and in order |

**The bounds.** What can go wrong between delegations needs two coroutines of one bot: a first
one suspended and a second that arrives, delegates, or finishes. Three activations give that
with one more at the other bot, so that loops close (a asks b, b asks a); with two delegations
each, an answer can be late for the first and early for the second. Four are needed for a ring
of three bots and for the two chains of `acyclic`. Two ids: one shared by a chain, one for
another chain. One fault and one restart of each bot put a failure before, between and after
any two steps; a second one repeats the situation with fewer activations left. In
`AgentSession`, two turns of one peer overlap and the third, of another peer, shows that logs
do not mix; two steps and two calls give a call that is interrupted after its first result, and
a request after it. In `TaskArchive`, three bots have a first, an inner and a last one. In
`contacts`, three calls are a list or an entry in the own whitelist, an introduction of one
side and one of the other, or two of one side; two SaYi bots and a list of two EiAr bots are
enough for a mixture of contacts, and the list of skaye_sv for its removal; one trouble puts a
failure before, in or after any write. A second task of the matchmaker would share its loop and
nothing else; that at most one has it (`TypeOK`) is proved for any number. In `tools`, two
tools of one module and two edits give a reload of one between two reloads of the other, and an
edit within a reload; the write, the command and the program wait for their approvals while the
others run. In `routing`, three bots give a route with an inner bot, and two delegations the
limit of reviews; the second task of a bot shares nothing with the first but the process. In
`memory`, six messages with a window of three are two compressions, with a crash in each, or a
crash while the first line after it is appended. In `console`, two questions and one chat are
enough for an answer that comes after its question was given up, or into the next one's queue,
and two answers of a task (`MaxAnswers`) for the second one of an earlier question; more of
them meet the same queue. A viewer that comes back shows that its first subscription has left
nothing; with three events (`MaxEvents`) and queues of one the dispatcher drops, and an add
waits. All bounds are in the guards, and deadlock is not checked since a behaviour stops when
they are reached or when nobody has anything left to do.

**Fairness.** `EveryTaskEnds` assumes `WF_vars(Step(f))` for each activation: the asyncio loop
runs every ready coroutine, the timer of `wait_for` expires (`timeout_s` is set for every
delegation), and a turn of the agent has at most `max_steps` steps, so that a task does not
delegate for ever. Nothing is assumed of the broker, of paho or of the dashboard: every message
may stay undelivered. `EveryTurnEnds` assumes the same of the turns. `MatchmakingEnds` assumes
`WF_vars(Work(t))` for each task of a matchmaker, for the same reason: a ready coroutine, or
the timer of its delegation, and `max_steps`. `LoopComesFree` assumes that the thread of the
event loop runs what it can (`WF_vars(\E c \in Call : CallStep(c))`, with the timeout of
`communicate` among its steps); users may never answer, and processes never end. `TaskEnds`
assumes that messages are handled by a bot that runs and lost by one that does not; a bot that
has crashed need not start again. Of a viewer nothing can be assumed: its client may stop
reading at any time, and no liveness of the event store is claimed. `console`, `memory` and
`archive` have no liveness.

**What depends on the configuration.** `AnswersOwnCall` needs that a task delegates once, that
the model passes no id of its own, that the whitelist has no cycle and that no bot is
restarted. The code does not bring these about (`max_steps` is 10, `task_create` takes a
`task_id`, the whitelists in `bots/` have cycles), so the property is checked for that
configuration, no theorem claims it, and section 4 says what happens without them. What holds
in every configuration is `AnswersOwnId`: the id is right, and whoever answered had a task of
that id from this bot. Each condition is needed: on the whitelist of `acyclic`, TLC finds a
delegation with another's answer when a task delegates twice, when the model passes an id, and,
with five activations, when a and b are restarted once each; a whitelist with a cycle is the
subject of `loop_taken_for_answer`. `RefusedOnlyIfInterrupted` says where a request whose calls
lack results cannot come from: not from another peer, not from a failure of a tool, not from
the end by `max_steps`. `IslandsKept` speaks of whitelists that were so at first. `OnePlace`
and `TaskEnds` excuse tasks of which something failed or was dropped.

## 4. Where the code and its documents differ

Two disagreements are checked, each by a run that violates what a document says:

* **A loop is taken for an answer** (`LoopIsRefused`, run `loop_taken_for_answer`).
  `docs/protocol.md:94` says a delegation whose id is suspended at its target is refused. On
  the ring a, b, c, a waits under the chain's id when c's delegation with that id arrives;
  `handle_response` looks at the id alone, so c's *task* becomes the result of a's delegation
  to b and `_in_flight` is never consulted.
* **A command outlives its call** (`NoOrphan`, run `orphan`). `popen_in_job` opens the
  interpreter's process without the right that `AssignProcessToJobObject` demands and ignores
  the outcome (`winjob.py:399`), so that the job that is to end all processes of a call stays
  empty; on a timeout the interpreter alone is killed. `winjob.py:197` says that no orphan is
  left.

The following are remarks: what reading and modelling the code has shown beside these. The
models contain the behaviour, and no run is about it.

Delegation and archive:

* `docs/protocol.md:92` has `current_task_id` keep one id along a chain. It is saved and
  restored around awaits by tasks that do not nest (`node.py:322`): two tasks start at a bot,
  the first ends while the second waits, and restores the empty id it found; the second then
  delegates under a new one.
* `sent_tasks` is never emptied, so a bot that has once delegated an id drops every later task
  with it; `docs/protocol.md:94` and `node.py:80` allow an id that is not suspended.
* `handle_response` says that a message was consumed when it has scheduled `set_result`: a
  second message in between raises `InvalidStateError` on the loop, and one that `wait_for`
  overtakes is set on a future that nobody awaits. Both are lost without a word.
* After a timeout, the next delegation of the task has the same id and gets the late answer of
  the first, although a delegation returns its own (`adapters/tll_transport.py:8-9`). Hence
  the condition of `AnswersOwnCall`.
* A bot that was restarted has forgotten what it asked, and runs the answer as a task
  (`ReturnRunOnlyAfterRestart`). Where two bots of a chain do so the chain is gone down twice
  under one id, at the same time, and the task of the one is taken for the answer that the
  other awaits.
* Two tasks of one peer share a session: the second asks the model while a call of the first
  has no result, which `agent.py:157` and `deepseek.py:166-167` exclude.
* The archive shows the result of the report that came last, which may be one of a bot further
  down the chain (`start_v2.py:280`, `docs/protocol.md:140`: that of the conversation).

Registry and contacts:

* `start_v2.py:188` and `docs/protocol.md:129` have pings move `last_handshake`. The answer to
  a ping keeps skaye_sv as its `from_bot`, so it never counts for the bot that answers.
* `report_sender.py` and `docs/protocol.md:121` say that reports do not need the whitelist;
  `execute` checks it for them too.
* `bot_config.py:3` keeps the partners of the present only. When an EiAr bot is given to a
  second SaYi bot, the first is not told and goes on listing it (`bot_config.py:58`), although
  every step was made and none failed.
* `sv_tools.py:22` has registrations persisted. `_save` truncates the file at every registration
  and handshake; when it raises, or the process dies, no registration is on disk until the next
  write, and bots report at their start only. `RegistryKnowsFile` says that what *is* on disk is
  not lost in another way.
* A step of a matchmaking that fails or is not answered in time is a text to the model, and
  nothing keeps it from the next step: a SaYi bot may be told of an EiAr bot that was not told
  of it. `remove_peer` removes any id, also skaye_sv or the partner, after which the matchmaker
  cannot ask them again.
* All steps have one id, so the late answer of a step that timed out is taken for that of the
  next one.
* A write of the registry that fails leaves `RegistryStore` and its file different, and is
  reported to nobody. A `bot.yaml` that was torn comes back with its peers and nothing else.
* `register_contact_tool` of `start_v2.py` is never called.

Tools and sandbox:

* A reload that fails leaves the tool neither registered nor watched, until the process is
  restarted; the comment at `loader.py:188` has the old module stay usable.
* The modification time is read after the import, so an edit in between is not noticed before
  the next one; a file that disappears there leaves a tool that is registered and not watched.
  A tool's backend is never reloaded.
* `_run_command` holds the event loop until its timeout. After the kill it calls `communicate`
  again without a timeout (`jobshell.py:149-150`), which the model takes for one step.
  `InProcessShell` does not check where it reads. A v2 node installs no reload hook, approves
  everything and runs with full access.
* `Job.spawn`, when the assignment fails, terminates an empty job and leaves its suspended
  process; `Job.wait` reports exit code 0 for a process that is gone. Nothing calls them.

v1:

* A command that fails is answered by the error hook and by `process_return` again, in spite
  of the comment at `executor.py:183`: a delegation may have two returns and a task two ends.
  That is why `OnePlace` speaks of tasks of which nothing failed.
* `RoutingV1` is narrower than the code at two points: a plan does not name the bot that makes
  it (`Plans`), and a message is lost only where its receiver is down (`Lose`), although
  `send_once` may also report a success for what was not published.
* `outgoing_tasks` is never emptied (`bot.py:559` says it is), so that a task that is
  delegated back to a bot it has left is dropped with a warning, and ends nowhere.
* When the model's client fails, it returns no points, and the half of the history is cut with
  an empty summary; the fallback that `history_manager.py:229` and `:234` provide is not
  reached. `compress_min_turns`, documented there, is not read. A bot's knowledge base is
  loaded once, while `compress` writes through one of its own.
* `history_manager.py:270` exports the points of all summaries. Their files are named by the
  second and opened with `w` (`history_manager.py:200`, `memory.py:135`), so the second
  compression within a second replaces the first one's. The points are in the knowledge base
  still, unless a crash kept them from it: that is what `RememberedIfAnswered` says.
* A v2 session is compressed again each turn once it is long: always its first half, which
  stays in it. The retrieval index does not see what is added after its start.
* Answers to chats, to the registration and to questions that were given up go into the
  queue of the question that waits now (`start_sayi_sv.py:52`); between the check and the put
  the queue may be gone, which is logged as an error. So does the second answer of an earlier
  question that failed: `AnswerIsFresh` says that it is another answer, not that it answers the
  question.
* `send_and_wait` makes its queue before its `try` (`start_sayi_sv.py:59`): when sending raises,
  the queue stays, and collects answers that nobody reads.
* `EventStore.add` holds its lock while it waits for room, and `wfile.write` has no timeout: a
  viewer that left with a full queue, or an open one whose client stops reading, stops the
  store for good. `StreamInOrder` holds there, and nothing more is claimed. The dispatcher
  drops what does not fit, and loses at `stop()` what is queued.

## 5. The proofs

`Delegation_proofs` proves, for every cluster, whitelist and bound that
`DelegationAssumption` and `NoMsgAssumption` allow (the whitelist names bots, `Requester` is
among the bots without a model, `NoId` is no id, `NoMsg` is no message):

| theorem | says |
|---|---|
| `TypeCorrect` | `[]TypeOK` |
| `SlotsAreExact` | `[]SlotsExact`: an id is in `_in_flight` exactly while one coroutine works on it |
| `PendingIsOwned` | `[]PendingOwned`: an entry of `_pending` belongs to a coroutine that awaits it |
| `AnswersHaveTheirId` | `[]AnswersOwnId`: what a coroutine goes on with is for its bot, under the id it asked last, and an answer is one to a delegation of this bot |
| `AnswersAreNotEchoed` | `[]NoEcho`: an answer is not answered |
| `ReturnsRunOnlyAfterRestart` | `[]ReturnRunOnlyAfterRestart` |
| `SlotsArePromised` | `SlotsPromise`: `Delegation` implements `ChainSlots` |

The argument. `TypeInv` adds to `TypeOK` that an activation that is not free has a task; it
is inductive, and every other proof uses it to know that `At(f)` is a bot and `Tid(f)` an id.
`SlotsExact` and `PendingOwned` are inductive with it. `SlotsExact` needs its third part, that
no two live activations of a bot share an id: otherwise the first to finish would discard the
id of the second. `PendingOwned` does not need that an activation has only one entry:
`finally` may pop the entry of another waiter, which takes an owner away and never leaves a
wrong one.

`NoEcho` and `ReturnRunOnlyAfterRestart` are not inductive. `AnswerInv` adds three facts:
every id a bot has asked for is among its `sent_tasks` as long as the bot was not restarted,
whatever travels as an answer answers a task, and outside tasks come in the name of a bot
without a model. Then an answer that finds no waiter is dropped, by `sent_tasks` or by the
check of `handle_incoming` for bots without a model, unless a restart emptied them; the
theorem's `crashes[At(f)] > 0` is that exception.

`AnswersOwnId` speaks of futures that are filled; `HandedInv` says the same of what the paho
thread has handed over (`Fits`). A message is handed to the activation that `_pending` names,
which waits under the message's id (`PendingOwned`), and it stays with it only as long as that
activation waits for the same delegation. That an answer answers a delegation of this bot is
`Answered`, of every message on its way, from `AnswerInv`.

For the refinement, the initial states map to those of `ChainSlots`, and each step maps to a
step or a stutter: `Accept` to `Arrive`, `Start` to `Admit`, `Reject` to `Refuse`, `Finish` to
`End`, `Crash` to `Stop`, everything else leaves phases and keys alone. `Admit` and `Refuse`
are where `SlotsExact` is used: the code looks at `_in_flight`, the promise at the live
activations.

`TaskArchive_proofs` proves, for a chain of any length and any number of lost reports and
restarts, given that `NoFile` and `Torn` are not the contents of an archive:

| theorem | says |
|---|---|
| `ArchiveTypes` | `[]TypeOK` |
| `ArchiveIsTheUnion` | `[]ArchiveIsUnion`: order and repetition of reports leave no mark |
| `RoundTripIsShown` | `[]RoundTripShown`: requests up to a bot, and its answer |
| `IndexIsTheFiles` | `[]IndexAgrees`: the list in memory tells what the file tells |

`ArchiveIsUnion` and `IndexAgrees` are inductive with the types. `RoundTripShown` speaks of
what was merged; it follows from `TraceInv`, which speaks of every bot and every report on its
way: the trace that reaches a bot has the requests before it, a bot at work has added its own,
a report that is scheduled comes from a bot that is over and has added its answer. That a bot
is asked once (`TraceInv`'s first part) keeps the trace of a bot that is over from being
replaced.

`Contacts_proofs` proves, for any number of bots in each family, any whitelists in the files
at first, any tasks and any tool calls in them with any lists, any number of stops and failed
writes, given `ContactsAssumption` (the families are disjoint, skaye_sv is in none, lists are
finite):

| theorem | says |
|---|---|
| `ContactTypes` | `[]TypeOK` |
| `WhitelistsAreFiles` | `[]WhitelistIsFile`: a running bot delegates by what its `bot.yaml` holds, unless a failed write destroyed it |
| `IslandsStay` | `IslandsKept` at first implies `[]IslandsKept` |
| `RegistryIsNotBehind` | `[]RegistryKnowsFile`: skaye_sv knows what its file holds |

`TypeInv` adds to the types what each kind of message brings (`Fits`, `Brought`): one contact
to an EiAr bot, a list of `Lists` to a SaYi bot; and that two tasks that think are of different
bots. With it, `WhitelistIsFile` and `IslandsKept` are inductive; `Writers` and
`OneFileIsSaved` reduce every step that touches a file to one write, and `IntroducedIsWhole`
says that a SaYi bot is only ever given one list in place of another. `RegistryKnowsFile` is
inductive alone: a rewrite begins with what is in memory, and only what is written, or a start,
changes the file or the memory.

`AgentSession_proofs` proves, for any number of peers, turns, steps and calls per message
(`AgentSessionAssumption`: a turn has a peer, and `max_steps` is not 0):

| theorem | says |
|---|---|
| `TypeCorrect` | `[]TypeOK` |
| `SessionsKeepTheirPrompt` | `[]OneSystemPrompt`: the system prompt comes first, and once |
| `CallsGetTheirResults` | `[]CallsAnsweredInOrder`: one result per call, in order, whatever other turns append between |
| `RefusedOnlyWhereTurnsMeet` | `[]RefusedOnlyIfInterrupted` |

`CallsAnsweredInOrder` speaks of turns that are over. `CallInv` speaks of all: a turn that has
no calls left to run has its results complete, one that has some left has an *open* message,
its last one with calls, and the results so far are those of the calls it has no longer to
run (`Open`). Positions are counted in a turn's own messages (`Since`), so that what other
turns append does not count; `Appends` says once what each action appends. `RefusalInv` rests
on the loop: a turn that has it wrote the last message of its session (`HasLoop`), hence a
request that finds a call without its result was overtaken by another turn of the peer.

`ToolCalls_proofs` proves, for any number of tools, calls, listeners and edits, given
`ToolCallsAssumption` (each call has a tool and each tool a source; `None` is no mode, no
content and no number):

| theorem | says |
|---|---|
| `TypeCorrect` | `[]TypeOK` |
| `OnlyGrantedGoBeyond` | `[]BeyondBaseOnlyIfGranted`: only a call whose own approval was granted goes beyond the base mode |
| `DefinitionsAreFresh` | `[]FreshDefinition`: what runs is not older than what the reload check found |
| `WatchedIffRegistered` | `[]RegisteredAndWatched` |

`GrantInv` adds that a mode above the base was granted to this call and for this mode
(`OwnMode`), which separates the calls that wait for an approval at the same time.
`ReloadInv` says what is true between the disposal of a tool and its new registration
(`Reloading`): the tool is neither registered nor watched, and what was imported is what the
file holds, unless the file was edited since (`slip`). That at most one call has the loop, a
part of `TypeOK`, keeps a second reload from coming between. `JobShell`'s steps are among
those of these proofs; they change none of the tables of the registry.

`Memory_proofs` proves, for any number of bots and messages, any threshold and any number of
crashes (`MemoryAssumption`: a bot is v1 or v2):

| theorem | says |
|---|---|
| `TypeCorrect` | `[]TypeOK` |
| `NothingIsForgotten` | `[]RememberedIfAnswered`: nothing that the model made points of is lost |

`MemoryInv` says more than the property and is inductive. For v1, that each message has been in
a summary (`Ever`, with those that were overwritten), or is in the history, among the lines
torn, or among those the model made no points of, for bots that are down too and with the
knowledge files left out: these come from the summaries (`SummarisedFirst`). For v2, that the
half that compression took has been in a summary. Since a summary may overwrite the last one,
this is not enough for the property: `KnownAll` says that as long as nothing has crashed the
knowledge base holds all that any summary held. The proof is about the order of `Stages`: a
summary is stored before anything else is written (`SummaryComesFirst`), so a crash in a later
stage cuts from the history only what was in it (`CompressCuts`), and a compression that comes
to its end has written the knowledge base (`KnowledgeComesLast`). The lemmas about halves and
stretches of sequences stand for the slices of `history_manager.py`.

`Console_proofs` proves, for any number of events, viewers, questions, chats and threads and
queues of any size, given `EventStreamAssumption` and `ConsoleAssumption` (questions are not
chats; `None` is no task), and any number of answers of the tasks that may fail:

| theorem | says |
|---|---|
| `TypeCorrect` | `[]TypeOK`, with the bounds of the queues and of the pool |
| `EventsInOrder` | `[]StreamInOrder`: a viewer gets every event since its subscription, once, in order |
| `AnswersAreFresh` | `[]AnswerIsFresh`: the terminal gets no answer that was dealt with before it asked, and none twice |
| `AnswersAreNotMissed` | `[]AnswerNotMissed`: what was dealt with is found under its task, and whoever waits for it has something in the queue |

`StreamInv` follows the add that is under way: `Subscribed` says who is subscribed and whom
the add has yet to serve, each once, and nobody when the lock is free; `StreamInOrder`
counts the event such a viewer is about to get to what it is owed (`Pending`). `AnswerInv` says
that an answer is in one queue, at one place in it, and handed out once (`Answers`), that a
question that was not asked has nothing in its queue (`NotAsked`), and that whoever is waited
for has the current queue, before its question is sent (`Waits`): that a thread sees a queue
when it checks for one, and puts the answer into it, follows. `ResultsKept` is the other half of
`AnswerNotMissed`.

`RoutingV1_proofs` proves, for any bots and tasks, routes of any length, and any bounds of
plans, reviews, failures and crashes, given `RoutingAssumption` (tasks are created by bots, and
bots have the language models):

| theorem | says |
|---|---|
| `TypeCorrect` | `[]TypeOK`: among others, the archive callback is called once at most, and a message counts no more delegations than were planned |
| `TasksAreInOnePlace` | `[]OnePlace` |

A step is a whole handler, so the proof follows the handler and not the step: `Fine` says what
is true of the outcome of a handler at every point of it, `Working` that nothing was sent yet,
`Done` that one message was sent from which everybody who is on the route, or has commands
queued, is reached (`Passed`), or that the task is at its end. Each function of the executor has
a lemma (`ForwardDone`, `FailedWorks`, `ChatRuns`, `AnswerDone`, `ReturnDone`), and
`HandledDone` puts them together. `Passed` is stated of handlers in which nothing failed
(`Whole`): a failed one answers twice. For `TypeOK`, `Counted` weighs the delegations behind a
message, with the commands that still wait in the queues of all bots, against those that were
planned. That a task's commands end with its queues empty needs that a bot only has commands
queued for what it has sent (`PlaceInv`): a task that comes as new finds none.

Only model-checked: liveness (`EveryTaskEnds`, `EveryTurnEnds`, `MatchmakingEnds`,
`LoopComesFree`, `TaskEnds`), which the prover does not reach, and
`AnswersOwnCall`, whose conditions the code does not bring about. Every other invariant and
refinement of a passing run is the subject of a theorem.

## 6. The plan

Built, in this order: `Delegation` with `ChainSlots`, since everything else travels on it;
`AgentSession`, the other place where coroutines interleave; `TaskArchive`, where messages
meet in an order nobody chose; `Contacts`, which decides who may delegate to whom; `ToolCalls`
with `JobShell`, what a delegated task may do; then the legacy generation, `RoutingV1`,
`Memory` and `Console` with `EventStream`.

Next: writes that raise in `Memory`, as in `Contacts`; `AnswersOwnCall` with several delegations
of a task where none times out; plans that name their own bot in `RoutingV1`.

## 7. Not modelled

* Building a node from its files, connecting and its retries, serving pages, starting
  processes: sequences of library calls without shared state.
* `_process_new` and `serve` of `node.py`: an older loop without the `sent_tasks` check, which
  nothing calls.
* Encryption: `security.py` is a call of a library, and keys do not change what a handler does
  with an envelope it can read.
* What tasks compute: text, tools around files, media and web pages, prompts, the scoring of
  retrieval and its index of embeddings.
* Local archive files and the events log, which are only appended to.
* `dump` and `restore` of sessions, which only tests call.
* The base class of the transport dispatches in memory and checks the declared tools of a
  peer; the v2 class replaces both, so the model has no such check.
* The v1 skills `grant_permission` and `update_eiar_access`, which edit a `bot.yaml` through
  their bot object: v2 calls skills without one, and they answer with an error. The
  `grant_permission` of v2 only answers.
* The loader of skills, which registers once at the start, and the sentries; quotas of memory
  and processor time of a job, which only end processes early.
* The v1 registry (`bots/skaye_sv/skills/record_lis`): its module is loaded several times, by
  the skill, by the ping scheduler and by imports, and every copy has a memory and a lock of
  its own and writes the same file, so that registrations can be overwritten although its
  docstring promises otherwise. The launchers of `bots/` start v2, where `RegistryStore` (in
  `Contacts`) has taken its place.
* v1: the reload of `bot.yaml` before a command is sent, access lists (a refusal is a failed
  command), the archive file, the pings of skaye_sv.
