------------------------------ MODULE TaskArchive ------------------------------
(***************************************************************************)
(* The central archive of one task (sv_tools.py, TaskArchiveStore): every  *)
(* bot of a chain of delegations reports what it did to skaye_sv (node.py, *)
(* start_v2.py), which merges the reports of a task id in one file and     *)
(* keeps a summary of it in memory.                                        *)
(*                                                                         *)
(* Bot 1 is asked by the dashboard and may ask bot 2, which may ask bot 3, *)
(* and so on: Bots is the length of the chain.  How the delegations work   *)
(* is in the module Delegation; here a bot goes on with an answer or after *)
(* its timeout.  The reports travel under ids of their own and reach       *)
(* skaye_sv in any order, or not at all.                                   *)
(***************************************************************************)
EXTENDS Naturals

CONSTANTS
    Bots,         \* the bots that the task may reach
    MaxLost,      \* bound: reports that are lost
    MaxRestarts,  \* bound: restarts of skaye_sv
    NoFile,       \* there is no file, or no entry in the index
    Torn          \* the file is not the JSON of a task

ASSUME TaskArchiveAssumption ==
    Bots \in Nat \ {0} /\ MaxLost \in Nat /\ MaxRestarts \in Nat

Bot == 1..Bots

\* The hops of a trace: bot i - 1 asks bot i, bot i returns to it.
Hop == [action : {"ask", "return"}, bot : Bot]
Asks(i) == [action |-> "ask", bot |-> i]
Returns(i) == [action |-> "return", bot |-> i]

\* What a file holds: the bots whose tool logs are in it, the hops, and whose
\* report was the last one.
Content == [logs : SUBSET Bot, trace : SUBSET Hop, last : [bot : Bot, at : Nat]]

ASSUME NoFileAssumption == NoFile \notin Content /\ Torn \notin Content

VARIABLES
    stage,     \* how far the task is at each bot
    trace,     \* the trace object of the task at each bot
    due,       \* the scheduled report coroutines: <<bot, first or second>>
    sent,      \* the reports on their way
    clock,     \* the time, advanced by every report
    lost,      \* how many reports were lost
    file,      \* task_archive/<id>.json: no file, unreadable, or its contents
    index,     \* _index: the entry of the task, made of the last report
    restarts,  \* how often skaye_sv was restarted
    arrived    \* the reports that were merged, for the properties only

bots == <<stage, trace, due>>
archive == <<file, index, restarts, arrived>>
vars == <<stage, trace, due, sent, clock, lost, file, index, restarts, arrived>>

Readable == file \notin {NoFile, Torn}

Init ==
    /\ stage = [i \in Bot |-> IF i = 1 THEN "sent" ELSE "idle"]
    /\ trace = [i \in Bot |-> {}]
    /\ due = {} /\ sent = {} /\ clock = 0 /\ lost = 0
    /\ file = NoFile /\ index = NoFile
    /\ restarts = 0 /\ arrived = {}

-------------------------------------------------------------------------------
(* The bots.                                                               *)

\* handle_new_task: the hop to this bot is added to the trace it received.
Receive(i) ==
    /\ stage[i] = "sent"
    /\ stage' = [stage EXCEPT ![i] = "working"]
    /\ trace' = [trace EXCEPT ![i] = @ \cup {Asks(i)}]
    /\ UNCHANGED <<due, sent, clock, lost, archive>>

\* Slip: the last bot of the chain asks a bot beyond it.
DelegateAnywhere(i) ==
    /\ stage[i] = "working"
    /\ stage' = [j \in Bot |-> CASE j = i -> "waiting" [] j = i + 1 -> "sent" [] OTHER -> stage[j]]
    /\ trace' = [j \in Bot |-> IF j \in {i, i + 1} THEN trace[i] \cup {Asks(i + 1)} ELSE trace[j]]
    /\ UNCHANGED <<due, sent, clock, lost, archive>>

\* _build_real_task: the hop is added to the trace, which goes with the task.
Delegate(i) ==
    /\ i < Bots
    /\ stage[i] = "working"
    /\ stage' = [stage EXCEPT ![i] = "waiting", ![i + 1] = "sent"]
    /\ trace' = [trace EXCEPT ![i] = @ \cup {Asks(i + 1)},
                              ![i + 1] = trace[i] \cup {Asks(i + 1)}]
    /\ UNCHANGED <<due, sent, clock, lost, archive>>

\* The answer is there, or the delegation has timed out.
Resume(i) ==
    /\ stage[i] = "waiting"
    /\ stage' = [stage EXCEPT ![i] = "back"]
    /\ UNCHANGED <<trace, due, sent, clock, lost, archive>>

\* Slip: the answer goes out without its hop.
FinishUntraced(i) ==
    /\ stage[i] \in {"working", "back"}
    /\ stage' = [stage EXCEPT ![i] = "over"]
    /\ due' = due \cup {<<i, 1>>, <<i, 2>>}
    /\ UNCHANGED <<trace, sent, clock, lost, archive>>

\* _handle_task_inner schedules a report; before it runs, handle_incoming adds
\* the hop of the answer, sends it and schedules a second report.
Finish(i) ==
    /\ stage[i] \in {"working", "back"}
    /\ stage' = [stage EXCEPT ![i] = "over"]
    /\ trace' = [trace EXCEPT ![i] = @ \cup {Returns(i)}]
    /\ due' = due \cup {<<i, 1>>, <<i, 2>>}
    /\ UNCHANGED <<sent, clock, lost, archive>>

\* _do_report_task_to_sv: the payload is made when its coroutine runs.  Its
\* logs are those of the tools that this bot called.
Report(d) ==
    /\ d \in due
    /\ due' = due \ {d}
    /\ clock' = clock + 1
    /\ sent' = sent \cup {[bot |-> d[1], at |-> clock + 1, trace |-> trace[d[1]],
                           logs |-> {d[1]}]}
    /\ UNCHANGED <<stage, trace, lost, archive>>

\* The delegation of a report fails: the error is printed.
Lose(r) ==
    /\ r \in sent
    /\ lost < MaxLost
    /\ lost' = lost + 1
    /\ sent' = sent \ {r}
    /\ UNCHANGED <<bots, clock, archive>>

-------------------------------------------------------------------------------
(* skaye_sv.                                                               *)

Latest(r) == [bot |-> r.bot, at |-> r.at]

\* Slip: a report replaces what is archived.
MergedOver(r) == [logs |-> r.logs, trace |-> r.trace, last |-> Latest(r)]

\* add_task: logs and hops that are archived already are not added again, every
\* other field is the one of the report.  An unreadable file counts as none.
Merged(r) ==
    [logs |-> r.logs \cup (IF Readable THEN file.logs ELSE {}),
     trace |-> r.trace \cup (IF Readable THEN file.trace ELSE {}),
     last |-> Latest(r)]

\* Slip: the summary of the first report stays.
StoreOnce(r) ==
    /\ r \in sent
    /\ sent' = sent \ {r}
    /\ file' = Merged(r)
    /\ index' = IF index = NoFile THEN Latest(r) ELSE index
    /\ arrived' = arrived \cup {r}
    /\ UNCHANGED <<bots, clock, lost, restarts>>

Store(r) ==
    /\ r \in sent
    /\ sent' = sent \ {r}
    /\ file' = Merged(r)
    /\ index' = Latest(r)
    /\ arrived' = arrived \cup {r}
    /\ UNCHANGED <<bots, clock, lost, restarts>>

\* _load_index: the summary is that of the file, if it can be read.
Loaded(contents) == IF contents \in {NoFile, Torn} THEN NoFile ELSE contents.last

Restart ==
    /\ restarts < MaxRestarts
    /\ restarts' = restarts + 1
    /\ index' = Loaded(file)
    /\ UNCHANGED <<bots, sent, clock, lost, file, arrived>>

\* The process dies while it writes the file, which was truncated.
Tear(r) ==
    /\ r \in sent
    /\ restarts < MaxRestarts
    /\ restarts' = restarts + 1
    /\ sent' = sent \ {r}
    /\ file' = Torn
    /\ index' = Loaded(Torn)
    /\ arrived' = {}
    /\ UNCHANGED <<bots, clock, lost>>

Next ==
    \/ \E i \in Bot : Receive(i) \/ Delegate(i) \/ Resume(i) \/ Finish(i)
    \/ \E d \in due : Report(d)
    \/ \E r \in sent : Lose(r) \/ Store(r) \/ Tear(r)
    \/ Restart

Spec == Init /\ [][Next]_vars

-------------------------------------------------------------------------------
TypeOK ==
    /\ stage \in [Bot -> {"idle", "sent", "working", "waiting", "back", "over"}]
    /\ trace \in [Bot -> SUBSET Hop]
    /\ due \subseteq Bot \X {1, 2}
    /\ \A r \in sent \cup arrived :
          r.bot \in Bot /\ r.at \in 1..clock /\ r.trace \subseteq Hop /\ r.logs \subseteq Bot
    /\ file \in Content \cup {NoFile, Torn}
    /\ clock \in Nat /\ lost \in Nat /\ restarts \in Nat

\* Whatever the order in which reports arrive, and however often a bot reports,
\* the file has the logs and the hops of all the reports that were merged since
\* it was last destroyed, and nothing else.
ArchiveIsUnion ==
    IF Readable
    THEN /\ file.logs = UNION {r.logs : r \in arrived}
         /\ file.trace = UNION {r.trace : r \in arrived}
    ELSE arrived = {}

\* Every bot of which a report was merged is in the archive with its whole
\* part: the request that reached it, through all bots before it, and its answer.
RoundTripShown ==
    \A r \in arrived :
        /\ \A i \in 1..r.bot : Asks(i) \in file.trace
        /\ Returns(r.bot) \in file.trace

\* The list of tasks and the file of a task tell the same, also after restarts.
IndexAgrees == index = Loaded(file)
===============================================================================
