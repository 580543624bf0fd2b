------------------------------ MODULE ToolCalls ------------------------------
(***************************************************************************)
(* Calls of tools, as ToolRuntime.execute (lis_harness/registry.py) runs   *)
(* them: the hot reload of the tool's module (loader.py) before each call, *)
(* the tool and its backend from the registry, the governance pipeline     *)
(* (security/pipeline.py) with the approval it may wait for, the policy    *)
(* (policy.py), and the shell backend, whose commands are in JobShell.     *)
(*                                                                         *)
(* All calls are coroutines of one event loop: a call gives it up only     *)
(* while it waits for an approval.  Source files change at any time.       *)
(***************************************************************************)
EXTENDS JobShell, Sequences

CONSTANTS
    Tool,       \* the tools that the loader's YAML declares
    Source,     \* the source files of their modules
    SourceOf,   \* the file of each tool; tools may share one
    ToolOf,     \* the tool that each call names
    Op,         \* what each call asks the shell for: "write", "read", "command"
    Outside,    \* the calls whose path is outside of the workspace
    Listeners,  \* the verdict of each pre-execute listener on each call
    DefaultMode, SessionMode, \* the resolver's modes; None: the session overrides nothing
    None,
    MaxEdits    \* bound: changes of each source file

Mode == {"read-only", "workspace-write", "danger-full-access"}
Verdict == [decision : {"allow", "deny"}] \cup [decision : {"ask"}, mode : Mode \cup {None}]

\* What importing a version and calling its create does: "good" defines the tool, "stray"
\* does with a backend that does not exist, "broken" fails in the import, in create or by
\* what it returns, "deleted" is no file at all.
Kind == {"good", "stray", "broken", "deleted"}

Content == [ver : 0..MaxEdits, kind : Kind]

ASSUME ToolCallsAssumption ==
    /\ SourceOf \in [Tool -> Source]
    /\ ToolOf \in [Call -> Tool]
    /\ Op \in [Call -> {"write", "read", "command"}]
    /\ Outside \subseteq Call
    /\ Listeners \in Seq([Call -> Verdict])
    /\ DefaultMode \in Mode /\ SessionMode \in Mode \cup {None}
    /\ None \notin Nat /\ None \notin Mode /\ None \notin Content
    /\ MaxEdits \in Nat

VARIABLES
    file,   \* the content of each source file: its version, and what becomes of loading it
    tool,   \* the registered definition of a tool, as the content it was made from, or None
    watch,  \* the version that the loader took the modification time of, or None
    new,    \* the definition that the reload in progress has made
    mode,   \* the mode that a call runs with
    grant,  \* the outcome of a call's approval
    did,    \* the calls whose effect took place
    found,  \* the version of its source that the loader's stat found for a call
    slip    \* the tools that have an edit no reload will notice; see Edit

loader == <<tool, watch, new>>
vars == <<shell, file, loader, mode, grant, did, found, slip>>

\* resolve: what an approval escalated to, if anything, over the session's and the default.
BaseMode == IF SessionMode = None THEN DefaultMode ELSE SessionMode
Resolved(escalation) == IF escalation = None THEN BaseMode ELSE escalation

\* The outcomes of an approval.
Outcomes == {"allowed-once", "rejected", "cancelled"}

AwayFromLoop == {"idle", "ask", "done"}
\* Slip: calls run beside each other, on threads of their own.
LoopFreeAlways == TRUE
LoopFree == \A c \in Call : at[c] \in AwayFromLoop

Init ==
    /\ at = [c \in Call |-> "idle"]
    /\ ShellInit
    /\ file = [s \in Source |-> [ver |-> 0, kind |-> "good"]]
    /\ tool = [t \in Tool |-> [ver |-> 0, kind |-> "good"]]
    /\ watch = [t \in Tool |-> 0]
    /\ new = None
    /\ mode = [c \in Call |-> Resolved(None)]
    /\ grant = [c \in Call |-> "none"]
    /\ did = {}
    /\ found = [c \in Call |-> None]
    /\ slip = {}

-----------------------------------------------------------------------------
(* Hot reload.                                                             *)

\* The tools that the call in a reload has imported, and not yet registered and stat'ed.
InLoad == {ToolOf[c] : c \in {d \in Call : at[d] = "made"}}

\* Somebody edits, restores or deletes a source file.  Between the import and the stat of
\* a reload the loader will take the old content for the new.  While an operation of the
\* shell runs an edit makes no difference, and is put off to its end.
Edit(s, k) ==
    /\ file[s].ver < MaxEdits
    /\ \A c \in Call : at[c] \notin JobSteps \cup {"execute"}
    /\ file' = [file EXCEPT ![s] = [ver |-> file[s].ver + 1, kind |-> k]]
    /\ slip' = slip \cup {t \in InLoad : SourceOf[t] = s}
    /\ UNCHANGED <<shell, loader, mode, grant, did, found>>

\* changed_since: a newer modification time, or no file.
Changed(t) ==
    LET f == file[SourceOf[t]] IN watch[t] # None /\ (f.ver > watch[t] \/ f.kind = "deleted")

\* Slip: a reload disposes every tool of the module.
DisposedAll(t) == [u \in Tool |-> IF SourceOf[u] = SourceOf[t] THEN None ELSE tool[u]]
Disposed(t) == [tool EXCEPT ![t] = None]

\* reload_if_changed: a tool whose source changed is disposed first.
Begin(c) ==
    LET t == ToolOf[c] IN
    /\ at[c] = "idle" /\ LoopFree
    /\ found' = [found EXCEPT ![c] = file[SourceOf[t]].ver]
    /\ IF Changed(t)
       THEN Goto(c, "idle", "import") /\ tool' = Disposed(t) /\ slip' = slip \ {t}
       ELSE Goto(c, "idle", "resolve") /\ UNCHANGED <<tool, slip>>
    /\ UNCHANGED <<life, member, handle, code, result, file, watch, new, mode, grant, did>>

\* reload_tool: the module is executed again and its factory called.  If that fails the
\* watch is given up, and the exception ends the call.
Import(c) ==
    LET f == file[SourceOf[ToolOf[c]]] IN
    /\ at[c] = "import"
    /\ watch' = [watch EXCEPT ![ToolOf[c]] = None]
    /\ IF f.kind \in {"good", "stray"}
       THEN Goto(c, "import", "made") /\ new' = f /\ UNCHANGED result
       ELSE Finish(c, "error") /\ UNCHANGED new
    /\ UNCHANGED <<life, member, handle, code, file, tool, mode, grant, did, found, slip>>

\* Slip: the version is noted only when the tool is first loaded.
RegisterBlind(c) ==
    /\ at[c] = "made" /\ Goto(c, "made", "resolve")
    /\ tool' = [tool EXCEPT ![ToolOf[c]] = new]
    /\ new' = None
    /\ UNCHANGED <<life, member, handle, code, result, file, watch, mode, grant, did, found, slip>>

\* _load_tool: the definition is registered; then the modification time is read.
Register(c) ==
    LET t == ToolOf[c]
        f == file[SourceOf[t]]
    IN
    /\ at[c] = "made"
    /\ tool' = [tool EXCEPT ![t] = new]
    /\ IF f.kind = "deleted"
       THEN Finish(c, "error") /\ UNCHANGED watch
       ELSE Goto(c, "made", "resolve") /\ watch' = [watch EXCEPT ![t] = f.ver] /\ UNCHANGED result
    /\ new' = None
    /\ UNCHANGED <<life, member, handle, code, file, mode, grant, did, found, slip>>

-----------------------------------------------------------------------------
(* Governance.                                                             *)

\* The first verdict that is not to allow decides, and without one the call is allowed.
VerdictOn(c) ==
    LET Objections == {i \in 1..Len(Listeners) : Listeners[i][c].decision # "allow"}
        first == CHOOSE i \in Objections : \A j \in Objections : i <= j
    IN  IF Objections = {} THEN [decision |-> "allow"] ELSE Listeners[first][c]

\* ToolRuntime.execute and the head of ExecutionPipeline.execute: the tool and its backend
\* from the registry, then the verdict.  Without them the exception ends the call.
Resolve(c) ==
    LET t == tool[ToolOf[c]] IN
    /\ at[c] = "resolve"
    /\ IF t = None \/ (t # None /\ t.kind = "stray") THEN Finish(c, "error")
       ELSE \/ VerdictOn(c).decision = "deny" /\ Finish(c, "denied")
            \/ VerdictOn(c).decision = "ask" /\ Goto(c, "resolve", "ask") /\ UNCHANGED result
            \/ VerdictOn(c).decision = "allow" /\ Goto(c, "resolve", "execute") /\ UNCHANGED result
    /\ found' = [found EXCEPT ![c] = None]
    /\ UNCHANGED <<life, member, handle, code, file, loader, mode, grant, did, slip>>

\* Slip: the mode that was granted is kept in the pipeline, for the calls that follow too.
DecideForAll(c) ==
    /\ LoopFree
    /\ Goto(c, "ask", "execute")
    /\ grant' = [grant EXCEPT ![c] = "allowed-once"]
    /\ mode' = [d \in Call |-> Resolved(VerdictOn(c).mode)]
    /\ UNCHANGED <<life, member, handle, code, result, file, loader, did, found, slip>>

\* The approval is decided.  Only this call gets the mode that was asked for; one that is
\* not allowed ends.
Decide(c) ==
    /\ LoopFree
    /\ at[c] = "ask"
    /\ \E o \in Outcomes :
        /\ grant' = [grant EXCEPT ![c] = o]
        /\ IF o = "allowed-once"
           THEN /\ Goto(c, "ask", "execute")
                /\ mode' = [mode EXCEPT ![c] = Resolved(VerdictOn(c).mode)]
                /\ UNCHANGED result
           ELSE Finish(c, "denied") /\ UNCHANGED mode
    /\ UNCHANGED <<life, member, handle, code, file, loader, did, found, slip>>

\* allows_write_to and allows_read, with a workspace root that is set.
Allows(c) ==
    \/ mode[c] = "danger-full-access"
    \/ c \notin Outside /\ (Op[c] = "read" \/ mode[c] = "workspace-write")

\* _handle_write and _handle_read: refused, done, or failed in the system.
Touch(c) ==
    /\ at[c] = "execute" /\ Op[c] # "command"
    /\ \/ ~Allows(c) /\ Finish(c, "denied") /\ UNCHANGED did
       \/ Allows(c) /\ Finish(c, "ok") /\ did' = did \cup {c}
       \/ Allows(c) /\ Finish(c, "failed") /\ UNCHANGED did
    /\ UNCHANGED <<life, member, handle, code, file, loader, mode, grant, found, slip>>

\* _run_command: only with full access.  The rest is in JobShell.
Command(c) ==
    /\ at[c] = "execute" /\ Op[c] = "command"
    /\ IF mode[c] = "danger-full-access"
       THEN Goto(c, "execute", "run") /\ did' = did \cup {c} /\ UNCHANGED result
       ELSE Finish(c, "denied") /\ UNCHANGED did
    /\ UNCHANGED <<life, member, handle, code, file, loader, mode, grant, found, slip>>

InShell(A) == A /\ UNCHANGED <<file, loader, mode, grant, did, found, slip>>

CallStep(c) ==
    \/ Begin(c) \/ Import(c) \/ Register(c) \/ Resolve(c) \/ Touch(c) \/ Command(c)
    \/ InShell(HarnessStep(c))

Next ==
    \/ \E c \in Call : CallStep(c) \/ Decide(c) \/ InShell(ProcessStep(c))
    \/ \E s \in Source, k \in Kind : Edit(s, k)

Spec == Init /\ [][Next]_vars

\* The event loop's thread runs what can run; the user may never answer, the files may never
\* change, and a process may never end.
FairSpec == Spec /\ WF_vars(\E c \in Call : CallStep(c))

-----------------------------------------------------------------------------
(* Properties.                                                             *)

TypeOK ==
    /\ at \in [Call -> AwayFromLoop \cup {"import", "made", "resolve", "execute"} \cup JobSteps]
    /\ life \in [Call -> [Process -> {"none", "held", "runs", "ended"}]]
    /\ member \in [Call -> SUBSET Process]
    /\ handle \in [Call -> BOOLEAN]
    /\ code \in [Call -> Codes]
    /\ result \in [Call -> {"none", "ok", "failed", "error", "denied", "timeout"}]
    /\ file \in [Source -> Content]
    /\ tool \in [Tool -> Content \cup {None}]
    /\ watch \in [Tool -> 0..MaxEdits \cup {None}]
    /\ new \in Content \cup {None}
    /\ mode \in [Call -> Mode]
    /\ grant \in [Call -> {"none"} \cup Outcomes]
    /\ did \subseteq Call
    /\ found \in [Call -> 0..MaxEdits \cup {None}]
    /\ slip \subseteq Tool
    /\ \A c, d \in Call : at[c] \notin AwayFromLoop /\ at[d] \notin AwayFromLoop => c = d

\* A call runs a definition that is not older than the source its reload check found, unless
\* somebody edited the file between an import and the stat after it (ToolRuntime.execute).
FreshDefinition ==
    \A c \in Call :
        LET t == ToolOf[c] IN
        at[c] = "resolve" /\ tool[t] # None => tool[t].ver >= found[c] \/ t \in slip

\* Between calls, a tool that lost its registration has lost its watch too, so that it stays
\* lost; one that is registered is watched, unless its file was deleted during the reload.
RegisteredAndWatched ==
    LoopFree => \A t \in Tool : IF tool[t] = None THEN watch[t] = None
                                                ELSE watch[t] # None \/ t \in slip

\* What goes beyond the base mode (a path outside of the workspace, a write in read-only
\* mode, a command) is done only by a call whose own approval was granted, for that mode.
BeyondBaseOnlyIfGranted ==
    \A c \in did :
        \/ grant[c] = "allowed-once" /\ VerdictOn(c).mode = mode[c]
        \/ BaseMode = "danger-full-access"
        \/ Op[c] # "command" /\ c \notin Outside /\ (Op[c] = "read" \/ BaseMode # "read-only")

\* No call keeps the event loop, on which all sessions of the bot wait, for good, even if
\* its command never ends (_run_command blocks the loop in communicate).
LoopComesFree == []<>LoopFree
=============================================================================
