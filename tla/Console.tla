------------------------------- MODULE Console -------------------------------
(***************************************************************************)
(* The console of the legacy cluster.  SaYi_SV (templates/start_sayi_sv.py *)
(* on sv_node.py) asks the bots: in its own terminal it waits for the      *)
(* answer, through the one queue _current_queue; for the dashboard it      *)
(* sends a chat and does not wait: the dashboard asks for the result later *)
(* by the task's id.  A task that fails is sent back more than once, by    *)
(* the hook of its error and by process_return, and since outgoing_tasks   *)
(* keeps it, each of its answers is handled, by a pool of threads.  What   *)
(* the bot logs makes events, which the dashboard shows (EventStream): one *)
(* for every answer that is handled stands for all of them.                *)
(***************************************************************************)
EXTENDS EventStream

CONSTANTS
    Question,  \* the questions of the terminal
    Chat,      \* the chats of the dashboard, and the registration that start() sends
    Workers,   \* the threads of the pool
    Failing,   \* the tasks that may fail
    MaxAnswers \* bound: the answers to a task that may fail

Task == Question \cup Chat
Answer == (Task \X {1}) \cup (Failing \X (2..MaxAnswers))
None == "none"

ASSUME ConsoleAssumption ==
    /\ Question \cap Chat = {} /\ None \notin Task /\ Failing \subseteq Task
    /\ Workers \in Nat /\ MaxAnswers \in Nat

VARIABLES
    task,    \* "new", "out", "unsent" (sending it raised)
    answer,  \* "none", "back" (it has arrived), "stored", "seen", "done"
    asking,  \* the question the terminal waits for, None
    current, \* _current_queue: the queue of a question, None
    box,     \* the answers in a question's queue
    before,  \* the answers that were dealt with when a question was asked
    got,     \* the answer that a question got, to whichever task; none if it was given up
    results  \* task_results: the tasks that have a result

consoleVars == <<task, answer, asking, current, box, before, got, results>>
allVars == <<consoleVars, streamVars>>

ConsoleInit ==
    /\ task = [t \in Task |-> "new"] /\ answer = [m \in Answer |-> "none"]
    /\ asking = None /\ current = None
    /\ box = [q \in Question |-> <<>>] /\ before = [q \in Question |-> {}]
    /\ got = [q \in Question |-> {}]
    /\ results = {}

\* Slip: a queue that is there is used again.
QueueKept(q) == IF current = None THEN q ELSE current
\* The queue of a question is new, and its own.
QueueOf(q) == q

\* send_and_wait: a new queue becomes the current one ...
Ask(q) ==
    /\ asking = None /\ task[q] = "new"
    /\ asking' = q /\ current' = QueueOf(q)
    /\ before' = [before EXCEPT ![q] = {m \in Answer : answer[m] = "done"}]
    /\ UNCHANGED <<task, answer, box, got, results, streamVars>>

\* ... and the question is sent.
Send(q) ==
    /\ asking = q /\ task[q] = "new" /\ task' = [task EXCEPT ![q] = "out"]
    /\ UNCHANGED <<answer, asking, current, box, before, got, results, streamVars>>

\* If that raises (send_command reads the configuration again), nobody waits, and the queue
\* stays the current one: this is before the try.
SendFails(q) ==
    /\ asking = q /\ task[q] = "new" /\ task' = [task EXCEPT ![q] = "unsent"]
    /\ asking' = None
    /\ UNCHANGED <<answer, current, box, before, got, results, streamVars>>

\* send_chat, for the dashboard (or the registration).
SendChat(t) ==
    /\ t \in Chat /\ task[t] = "new" /\ task' = [task EXCEPT ![t] = "out"]
    /\ UNCHANGED <<answer, asking, current, box, before, got, results, streamVars>>

\* One more answer to a task arrives.
Arrive(m) ==
    /\ task[m[1]] = "out" /\ answer[m] = "none"
    /\ \A n \in 1..(m[2] - 1) : answer[<<m[1], n>>] # "none"
    /\ answer' = [answer EXCEPT ![m] = "back"]
    /\ UNCHANGED <<task, asking, current, box, before, got, results, streamVars>>

\* handle_task in a thread of the pool: the result is stored under the task's id.
Busy == {m \in Answer : answer[m] \in {"stored", "seen"}}

Store(m) ==
    /\ answer[m] = "back" /\ Cardinality(Busy) < Workers
    /\ answer' = [answer EXCEPT ![m] = "stored"] /\ results' = results \cup {m[1]}
    /\ UNCHANGED <<task, asking, current, box, before, got>> /\ Enqueue

\* Slip: an answer to a task that has a result is passed over, now that it always has one.
WaitedForNew(m) == current # None /\ m[1] \notin results
\* Then: is there a current queue?
WaitedFor(m) == current # None

Check(m) ==
    /\ answer[m] = "stored"
    /\ answer' = [answer EXCEPT ![m] = IF WaitedFor(m) THEN "seen" ELSE "done"]
    /\ UNCHANGED <<task, asking, current, box, before, got, results, streamVars>>

\* Then the answer is put into the current queue, whosever it is now; if there is none any
\* more, the call fails, and the error is logged.
PutAnswer(m) ==
    /\ answer[m] = "seen" /\ answer' = [answer EXCEPT ![m] = "done"]
    /\ box' = IF current = None THEN box ELSE [box EXCEPT ![current] = Append(@, m)]
    /\ UNCHANGED <<task, asking, current, before, got, results, streamVars>>

\* The terminal's thread takes the first answer of the current queue, or gives up; there is
\* no current queue any more.
Get(q) ==
    /\ asking = q /\ task[q] = "out" /\ box[current] # <<>>
    /\ got' = [got EXCEPT ![q] = {Head(box[current])}]
    /\ box' = [box EXCEPT ![current] = Tail(@)]
    /\ asking' = None /\ current' = None
    /\ UNCHANGED <<task, answer, before, results, streamVars>>

GiveUp(q) ==
    /\ asking = q /\ task[q] = "out" /\ box[current] = <<>>
    /\ asking' = None /\ current' = None
    /\ UNCHANGED <<task, answer, box, before, got, results, streamVars>>

ConsoleNext ==
    \/ \E q \in Question : Ask(q) \/ Send(q) \/ SendFails(q) \/ Get(q) \/ GiveUp(q)
    \/ \E t \in Task : SendChat(t)
    \/ \E m \in Answer : Arrive(m) \/ Store(m) \/ Check(m) \/ PutAnswer(m)

Init == StreamInit /\ ConsoleInit
Next == ConsoleNext \/ (StreamNext /\ UNCHANGED consoleVars)
Spec == Init /\ [][Next]_allVars
-----------------------------------------------------------------------------
(* Properties.                                                             *)

TypeOK ==
    /\ StreamTypeOK
    /\ task \in [Task -> {"new", "out", "unsent"}]
    /\ answer \in [Answer -> {"none", "back", "stored", "seen", "done"}]
    /\ asking \in Question \cup {None} /\ current \in Question \cup {None}
    /\ \A q \in Question : box[q] \in Seq(Answer) /\ got[q] \subseteq Answer
    /\ results \subseteq Task /\ Cardinality(Busy) <= Workers

\* What a question of the terminal gets may be the answer to another task, also the second
\* answer to an earlier question that failed, but never one that had been dealt with when
\* the question was asked, and none is taken twice: a question's queue is its own and begins
\* empty, also after a send that raised and left its queue (send_and_wait).
AnswerIsFresh ==
    \A q \in Question :
        /\ got[q] \cap before[q] = {}
        /\ \A r \in Question \ {q} : got[q] \cap got[r] = {}

\* An answer that has been dealt with is not lost: it is found under its task's id, by which
\* the dashboard asks (get_task_result), and while the terminal waits for that task, there is
\* something in the queue it waits at, whatever other answers the threads put there and
\* whichever question failed before (send_and_wait makes the queue before it sends).
AnswerNotMissed ==
    \A m \in Answer : answer[m] = "done" =>
        m[1] \in results /\ (asking = m[1] => box[asking] # <<>>)
=============================================================================
