------------------------------ MODULE JobShell ------------------------------
(***************************************************************************)
(* A command in the shell sandbox (security/backends/jobshell.py) and the  *)
(* Windows job object meant to govern its processes (winjob.py).           *)
(*                                                                         *)
(* A command runs in three processes: a Python interpreter that the        *)
(* harness starts, the shell that the interpreter starts, and the command. *)
(* Job.spawn starts a program of its own, suspended until it is in the     *)
(* job.  The steps of the processes and those of the harness interleave.   *)
(*                                                                         *)
(* Left out: quotas on memory, processor time and the number of processes, *)
(* which only end processes early; the text of the output.                 *)
(***************************************************************************)
EXTENDS Naturals

CONSTANTS
    Call,   \* the calls of tools
    Spawns  \* those that use Job.spawn and Job.wait instead of the shell backend

ASSUME JobShellAssumption == Spawns \subseteq Call

VARIABLES
    at,      \* where a call is
    life,    \* life[c][p]: what became of a process of c
    member,  \* the processes of c that were put in its job
    handle,  \* c holds an open handle of its job
    code,    \* the exit code that its program or its interpreter reports
    result   \* what the call answered

shell == <<at, life, member, handle, code, result>>

Process == {"python", "shell", "command", "program"}
Codes == {"none", "zero", "other"}

\* The steps of a call in this module, in which its coroutine keeps the event loop.
JobSteps == {"run", "open", "assign", "resume", "wait", "started", "opened", "close"}

\* What OpenProcess is asked for, and what AssignProcessToJobObject demands.
OpenedRights == {"terminate", "query"}
AssignRights == {"terminate", "set_quota"}

Running(c) == {p \in Process : life[c][p] = "runs"}
Lives(c) == {p \in Process : life[c][p] \in {"runs", "held"}}

\* What becomes of c's processes if those in S end.
Ended(c, S) == [p \in Process |-> IF p \in S /\ p \in Lives(c) THEN "ended" ELSE life[c][p]]

ShellInit ==
    /\ life = [c \in Call |-> [p \in Process |-> "none"]]
    /\ member = [c \in Call |-> {}]
    /\ handle = [c \in Call |-> FALSE]
    /\ code = [c \in Call |-> "none"]
    /\ result = [c \in Call |-> "none"]

Goto(c, from, to) == at[c] = from /\ at' = [at EXCEPT ![c] = to]

Finish(c, r) ==
    /\ at' = [at EXCEPT ![c] = "done"]
    /\ result' = [result EXCEPT ![c] = r]

-----------------------------------------------------------------------------
(* The harness.                                                            *)

\* __enter__: a new job with its limits, or the system refuses.
Enter(c) ==
    /\ at[c] = "run"
    /\ \/ /\ Goto(c, "run", "open")
          /\ handle' = [handle EXCEPT ![c] = TRUE]
          /\ UNCHANGED result
       \/ Finish(c, "error") /\ UNCHANGED handle
    /\ UNCHANGED <<life, member, code>>

\* The process is created: running from its first instruction, by Popen, or suspended.
Create(c) ==
    /\ Goto(c, "open", "assign")
    /\ life' = IF c \in Spawns THEN [life EXCEPT ![c]["program"] = "held"]
                               ELSE [life EXCEPT ![c]["python"] = "runs"]
    /\ UNCHANGED <<member, handle, code, result>>

\* No process: the exception leaves the with block.
CreateFails(c) ==
    /\ at[c] = "open"
    /\ Finish(c, "error")
    /\ handle' = [handle EXCEPT ![c] = FALSE]
    /\ UNCHANGED <<life, member, code>>

\* popen_in_job: the outcome of the assignment is ignored.
Assign(c) ==
    /\ c \notin Spawns
    /\ Goto(c, "assign", "wait")
    /\ member' = IF AssignRights \subseteq OpenedRights
                 THEN [member EXCEPT ![c] = @ \cup ({"python"} \cap Lives(c))]
                 ELSE member
    /\ UNCHANGED <<life, handle, code, result>>

\* spawn: into the job, and only then resumed.
SpawnAssign(c) ==
    /\ c \in Spawns
    /\ Goto(c, "assign", "resume")
    /\ member' = [member EXCEPT ![c] = @ \cup {"program"}]
    /\ UNCHANGED <<life, handle, code, result>>

\* The job is terminated, which the process is not in: it stays as it is, suspended.
SpawnAssignFails(c) ==
    /\ c \in Spawns /\ at[c] = "assign"
    /\ life' = [life EXCEPT ![c] = Ended(c, member[c])]
    /\ Finish(c, "error")
    /\ handle' = [handle EXCEPT ![c] = FALSE]
    /\ UNCHANGED <<member, code>>

Resume(c) ==
    /\ Goto(c, "resume", "started")
    /\ life' = [life EXCEPT ![c]["program"] = "runs"]
    /\ UNCHANGED <<member, handle, code, result>>

\* wait opens the process by its id: one that has ended already counts as exit code 0.
OpenPid(c) ==
    /\ at[c] = "started"
    /\ IF life[c]["program"] = "runs"
       THEN Goto(c, "started", "opened") /\ UNCHANGED result
       ELSE Goto(c, "started", "close") /\ result' = [result EXCEPT ![c] = "ok"]
    /\ UNCHANGED <<life, member, handle, code>>

Outcome(c) == IF code[c] = "zero" THEN "ok" ELSE "failed"

\* communicate, or WaitForSingleObject, sees the end of its process.
Returns(c) ==
    /\ \/ Goto(c, "wait", "close") /\ life[c]["python"] = "ended"
       \/ Goto(c, "opened", "close") /\ life[c]["program"] = "ended"
    /\ result' = [result EXCEPT ![c] = Outcome(c)]
    /\ UNCHANGED <<life, member, handle, code>>

\* Slip: no time limit on communicate.
TimeoutOfSpawn(c) ==
    /\ Goto(c, "opened", "close") /\ life[c]["program"] = "runs"
    /\ life' = [life EXCEPT ![c] = Ended(c, member[c])]
    /\ result' = [result EXCEPT ![c] = "timeout"]
    /\ UNCHANGED <<member, handle, code>>

\* The time is over: the interpreter is killed, or every process of the job.
Timeout(c) ==
    /\ \/ Goto(c, "wait", "close") /\ life[c]["python"] = "runs"
       \/ Goto(c, "opened", "close") /\ life[c]["program"] = "runs"
    /\ life' = [life EXCEPT ![c] = Ended(c, IF c \in Spawns THEN member[c] ELSE {"python"})]
    /\ result' = [result EXCEPT ![c] = "timeout"]
    /\ UNCHANGED <<member, handle, code>>

\* __exit__: the last handle of the job, which was set up to kill on close.  Of the
\* processes only those that outlive their call are remembered.
Close(c) ==
    /\ Goto(c, "close", "done")
    /\ handle' = [handle EXCEPT ![c] = FALSE]
    /\ life' = [life EXCEPT ![c] = [p \in Process |->
                    IF p \in Lives(c) \ member[c] THEN life[c][p] ELSE "none"]]
    /\ member' = [member EXCEPT ![c] = {}]
    /\ code' = [code EXCEPT ![c] = "none"]
    /\ UNCHANGED result

-----------------------------------------------------------------------------
(* The processes.  A child belongs to the job of its parent.               *)

Born(c, child, parent) ==
    /\ life[c][parent] = "runs" /\ life[c][child] = "none"
    /\ life' = [life EXCEPT ![c][child] = "runs"]
    /\ member' = IF parent \in member[c] THEN [member EXCEPT ![c] = @ \cup {child}]
                                         ELSE member
    /\ UNCHANGED <<at, handle, code, result>>

Ends(c, p, e) ==
    /\ life[c][p] = "runs"
    /\ life' = [life EXCEPT ![c] = Ended(c, {p})]
    /\ code' = [code EXCEPT ![c] = e]
    /\ UNCHANGED <<at, member, handle, result>>

ShellBegins(c) == Born(c, "shell", "python")
CommandBegins(c) == Born(c, "command", "shell")
ProgramEnds(c) == \E e \in {"zero", "other"} : Ends(c, "program", e)

\* The interpreter still waits for the shell, unless it gave up before.
CommandEnds(c) ==
    \E e \in {"zero", "other"} :
        Ends(c, "command", IF life[c]["shell"] = "runs" THEN e ELSE code[c])
ShellEnds(c) == life[c]["command"] = "ended" /\ Ends(c, "shell", code[c])

\* subprocess.run in the interpreter gives up: it kills the shell, and goes on waiting
\* for the command to close its output.
InnerTimeout(c) ==
    /\ life[c]["python"] = "runs" /\ life[c]["command"] \in {"none", "runs"}
    /\ Ends(c, "shell", "other")
PythonEnds(c) ==
    /\ life[c]["shell"] = "ended" /\ life[c]["command"] # "runs"
    /\ Ends(c, "python", code[c])

HarnessStep(c) ==
    \/ Enter(c) \/ Create(c) \/ CreateFails(c) \/ Assign(c) \/ SpawnAssign(c)
    \/ SpawnAssignFails(c) \/ Resume(c) \/ OpenPid(c) \/ Returns(c) \/ Timeout(c) \/ Close(c)
\* What goes on after the outcome is known is not followed any further.
ProcessStep(c) ==
    /\ result[c] = "none"
    /\ \/ ShellBegins(c) \/ CommandBegins(c) \/ CommandEnds(c) \/ ShellEnds(c)
       \/ InnerTimeout(c) \/ PythonEnds(c) \/ ProgramEnds(c)

-----------------------------------------------------------------------------
(* Properties.                                                             *)

\* What JobLimits says of kill_on_close: no orphan is left, at the end of a call none of
\* its processes lives on.
NoOrphan == \A c \in Call : at[c] = "done" => Lives(c) = {}
=============================================================================
