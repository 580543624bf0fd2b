--------------------------- MODULE ToolCalls_proofs ---------------------------
(***************************************************************************)
(* Theorems about ToolCalls, for any number of calls, tools that share     *)
(* source files, listeners and edits of the files.                         *)
(***************************************************************************)
EXTENDS ToolCalls, FiniteSetTheorems, TLAPS

-----------------------------------------------------------------------------
(* Strengthenings, by name.                                                *)

\* A call waits for an approval only if a listener asked for one.
AskedFor == \A c \in Call : at[c] = "ask" => VerdictOn(c).decision = "ask"

TypeInv == TypeOK /\ AskedFor

Undecided == {"idle", "import", "made", "resolve", "ask"}

\* A mode other than the base mode is the one that the call itself was granted; what had
\* its effect has been decided on before.
OwnMode ==
    /\ \A c \in Call :
        mode[c] = BaseMode \/ (grant[c] = "allowed-once" /\ VerdictOn(c).mode = mode[c])
    /\ \A c \in Call : at[c] \in Undecided => mode[c] = BaseMode
    /\ \A c \in did : at[c] \in JobSteps \cup {"done"}

GrantInv == OwnMode /\ BeyondBaseOnlyIfGranted

\* What is between the disposal of a tool and its new registration.
Reloading(c) ==
    LET t == ToolOf[c]
        f == file[SourceOf[t]]
    IN
    /\ at[c] = "import" => tool[t] = None /\ found[c] <= f.ver
    /\ at[c] = "made" =>
        /\ tool[t] = None /\ watch[t] = None /\ new \in Content
        /\ found[c] <= new.ver /\ new.kind # "deleted"
        /\ new = f \/ t \in slip

\* A call whose check is done, and that has not got its tool yet, has what it found.
Checked(c) == at[c] \in {"import", "made", "resolve"} => found[c] \in 0..MaxEdits

\* A watch is a version that the file had, and the tool is that version or a later one.
Watched(t) ==
    watch[t] # None =>
        /\ watch[t] <= file[SourceOf[t]].ver
        /\ tool[t] # None => tool[t].ver >= watch[t] \/ t \in slip

\* RegisteredAndWatched also holds while the loop is busy, but for the tool in an import.
Registered(t) ==
    \/ IF tool[t] = None THEN watch[t] = None ELSE watch[t] # None \/ t \in slip
    \/ tool[t] = None /\ \E c \in Call : at[c] = "import" /\ ToolOf[c] = t

ReloadInv ==
    /\ FreshDefinition
    /\ \A c \in Call : Reloading(c) /\ Checked(c)
    /\ \A t \in Tool : Watched(t) /\ Registered(t)

-----------------------------------------------------------------------------
(* Operators.                                                              *)

\* A set of numbers that is not empty has a smallest one.
LEMMA Smallest ==
    ASSUME NEW S \in SUBSET Nat, S # {}
    PROVE  \E i \in S : \A j \in S : i <= j
  <1> DEFINE T == {1..i : i \in S}
  <1>1. T # {}
    OBVIOUS
  <1>2. \A i \in S : 1..i \in FiniteSubsetsOf(Nat)
    <2>1. \A i \in S : 1..i \in SUBSET Nat
      OBVIOUS
    <2>2. \A i \in S : IsFiniteSet(1..i)
      BY FS_Interval
    <2>. QED
      BY <2>1, <2>2 DEF FiniteSubsetsOf
  <1>3. T \subseteq FiniteSubsetsOf(Nat)
    BY <1>2
  <1>4. PICK x \in T : \A y \in T : <<y, x>> \notin StrictSubsetOrdering(Nat)
    <2>. HIDE DEF T
    <2>. QED
      BY <1>1, <1>3, WFMin, FS_StrictSubsetOrderingWellFounded
  <1>5. PICK i \in S : x = 1..i
    BY <1>4
  <1>6. ASSUME NEW j \in S, j < i
        PROVE  FALSE
    <2>1. i \in 1..i /\ i \notin 1..j
      BY <1>6
    <2>2. 1..j \subseteq 1..i /\ 1..j # 1..i /\ 1..j \in SUBSET Nat /\ 1..i \in SUBSET Nat
      BY <2>1, <1>6
    <2>3. <<1..j, x>> \in StrictSubsetOrdering(Nat)
      BY <2>2, <1>5 DEF StrictSubsetOrdering
    <2>. QED
      BY <2>3, <1>4
  <1>. QED
    BY <1>6

\* The verdict on a call is one of a listener, or to allow it: the first objection exists.
LEMMA VerdictIsVerdict ==
    ASSUME NEW c \in Call
    PROVE  VerdictOn(c) \in Verdict
  <1> DEFINE Objections == {i \in 1..Len(Listeners) : Listeners[i][c].decision # "allow"}
  <1>1. \A i \in 1..Len(Listeners) : Listeners[i][c] \in Verdict
    BY ToolCallsAssumption
  <1>2. CASE Objections = {}
    BY <1>2 DEF VerdictOn, Verdict
  <1>3. CASE Objections # {}
    <2>1. Objections \in SUBSET Nat
      OBVIOUS
    <2>2. \E i \in Objections : \A j \in Objections : i <= j
      <3>. HIDE DEF Objections
      <3>. QED
        BY <1>3, <2>1, Smallest
    <2>3. (CHOOSE i \in Objections : \A j \in Objections : i <= j) \in 1..Len(Listeners)
      <3>1. (CHOOSE i \in Objections : \A j \in Objections : i <= j) \in Objections
        <4>. HIDE DEF Objections
        <4>. QED
          BY <2>2
      <3>. QED
        BY <3>1
    <2>. QED
      BY <1>1, <1>3, <2>3 DEF VerdictOn
  <1>. QED
    BY <1>2, <1>3

\* A mode that was asked for, over the base mode.
LEMMA ModeIsMode ==
    ASSUME NEW c \in Call, VerdictOn(c).decision = "ask"
    PROVE  /\ Resolved(VerdictOn(c).mode) \in Mode
           /\ Resolved(VerdictOn(c).mode) \in {BaseMode, VerdictOn(c).mode}
  <1>1. VerdictOn(c).mode \in Mode \cup {None}
    BY VerdictIsVerdict DEF Verdict
  <1>. QED
    BY <1>1, ToolCallsAssumption DEF Resolved, BaseMode

-----------------------------------------------------------------------------
(* What the steps of a command do.                                         *)

ShellTypes ==
    /\ life \in [Call -> [Process -> {"none", "held", "runs", "ended"}]]
    /\ member \in [Call -> SUBSET Process]
    /\ handle \in [Call -> BOOLEAN]
    /\ code \in [Call -> Codes]
    /\ result \in [Call -> {"none", "ok", "failed", "error", "denied", "timeout"}]

\* A call that is away stays so for good once it is over, and the others where they are.
Moves(c, To) == \E to \in To : at' = [at EXCEPT ![c] = to]

LEMMA EndedIsLife ==
    ASSUME ShellTypes, NEW c \in Call, NEW S
    PROVE  Ended(c, S) \in [Process -> {"none", "held", "runs", "ended"}]
  BY DEF Ended, ShellTypes

LEMMA HarnessSteps ==
    ASSUME ShellTypes, NEW c \in Call, HarnessStep(c)
    PROVE  ShellTypes' /\ at[c] \in JobSteps /\ Moves(c, JobSteps \cup {"done"})
  <1> USE DEF ShellTypes, Moves, JobSteps, Goto, Finish
  <1>1. CASE Enter(c)
    BY <1>1 DEF Enter
  <1>2. CASE Create(c)
    BY <1>2 DEF Create, Process
  <1>3. CASE CreateFails(c)
    BY <1>3 DEF CreateFails
  <1>4. CASE Assign(c)
    BY <1>4 DEF Assign, Process
  <1>5. CASE SpawnAssign(c)
    BY <1>5 DEF SpawnAssign, Process
  <1>6. CASE SpawnAssignFails(c)
    BY <1>6, EndedIsLife DEF SpawnAssignFails
  <1>7. CASE Resume(c)
    BY <1>7 DEF Resume, Process
  <1>8. CASE OpenPid(c)
    BY <1>8 DEF OpenPid
  <1>9. CASE Returns(c)
    BY <1>9 DEF Returns, Outcome
  <1>10. CASE Timeout(c)
    BY <1>10, EndedIsLife DEF Timeout
  <1>11. CASE Close(c)
    BY <1>11 DEF Close, Codes
  <1>. QED
    BY <1>1, <1>2, <1>3, <1>4, <1>5, <1>6, <1>7, <1>8, <1>9, <1>10, <1>11 DEF HarnessStep

LEMMA ProcessSteps ==
    ASSUME ShellTypes, NEW c \in Call, ProcessStep(c)
    PROVE  ShellTypes' /\ UNCHANGED at
  <1>1. ASSUME NEW p \in Process, NEW e \in Codes, Ends(c, p, e)
        PROVE  ShellTypes' /\ UNCHANGED at
    BY <1>1, EndedIsLife DEF Ends, ShellTypes
  <1>2. ASSUME NEW p \in Process, NEW q \in Process, Born(c, p, q)
        PROVE  ShellTypes' /\ UNCHANGED at
    BY <1>2 DEF Born, ShellTypes
  <1>3. code[c] \in Codes
    BY DEF ShellTypes
  <1>4. CASE ShellBegins(c) \/ CommandBegins(c)
    BY <1>4, <1>2 DEF ShellBegins, CommandBegins, Process
  <1>5. CASE CommandEnds(c)
    <2>1. PICK e \in {"zero", "other"} :
                Ends(c, "command", IF life[c]["shell"] = "runs" THEN e ELSE code[c])
      BY <1>5 DEF CommandEnds
    <2>. QED
      BY <2>1, <1>1, <1>3 DEF Process, Codes
  <1>6. CASE ShellEnds(c) \/ InnerTimeout(c) \/ PythonEnds(c) \/ ProgramEnds(c)
    BY <1>6, <1>1, <1>3 DEF ShellEnds, InnerTimeout, PythonEnds, ProgramEnds, Process, Codes
  <1>. QED
    BY <1>4, <1>5, <1>6 DEF ProcessStep
-----------------------------------------------------------------------------
(* Types.                                                                  *)

Places == AwayFromLoop \cup {"import", "made", "resolve", "execute"} \cup JobSteps

OneBusy == \A c, d \in Call : at[c] \notin AwayFromLoop /\ at[d] \notin AwayFromLoop => c = d

LoaderTypes ==
    /\ file \in [Source -> Content]
    /\ tool \in [Tool -> Content \cup {None}]
    /\ watch \in [Tool -> 0..MaxEdits \cup {None}]
    /\ new \in Content \cup {None}
    /\ found \in [Call -> 0..MaxEdits \cup {None}]
    /\ slip \subseteq Tool

GovernanceTypes ==
    /\ mode \in [Call -> Mode]
    /\ grant \in [Call -> {"none"} \cup Outcomes]
    /\ did \subseteq Call

LEMMA TypeParts ==
    TypeOK <=> /\ at \in [Call -> Places] /\ OneBusy
               /\ ShellTypes /\ LoaderTypes /\ GovernanceTypes
  BY DEF TypeOK, Places, OneBusy, ShellTypes, LoaderTypes, GovernanceTypes

LEMMA NextTypeParts ==
    (at' \in [Call -> Places] /\ OneBusy' /\ ShellTypes' /\ LoaderTypes' /\ GovernanceTypes')
    => TypeOK'
  BY DEF TypeOK, Places, OneBusy, ShellTypes, LoaderTypes, GovernanceTypes

LEMMA TypeInit == Init => TypeInv
  <1>. SUFFICES ASSUME Init
                PROVE  TypeInv
    OBVIOUS
  <1>1. at \in [Call -> Places] /\ OneBusy /\ AskedFor
    BY DEF Init, Places, OneBusy, AwayFromLoop, AskedFor
  <1>2. ShellTypes
    BY DEF Init, ShellInit, ShellTypes, Codes
  <1>3. LoaderTypes
    BY ToolCallsAssumption DEF Init, LoaderTypes, Content, Kind
  <1>4. GovernanceTypes
    BY ToolCallsAssumption DEF Init, GovernanceTypes, Resolved, BaseMode
  <1>. QED
    BY <1>1, <1>2, <1>3, <1>4, TypeParts DEF TypeInv

\* A call that has the event loop, or takes it when it is free, goes somewhere.
LEMMA OneMoves ==
    ASSUME TypeInv, NEW c \in Call, at[c] \notin AwayFromLoop \/ LoopFree,
           NEW To \in SUBSET Places, Moves(c, To),
           "ask" \in To => VerdictOn(c).decision = "ask"
    PROVE  at' \in [Call -> Places] /\ OneBusy' /\ AskedFor'
  <1>1. at \in [Call -> Places] /\ OneBusy /\ AskedFor
    BY TypeParts DEF TypeInv
  <1>2. PICK to \in To : at' = [at EXCEPT ![c] = to]
    BY DEF Moves
  <1>3. \A d \in Call \ {c} : at[d] \in AwayFromLoop
    BY <1>1 DEF OneBusy, LoopFree
  <1>. QED
    BY <1>1, <1>2, <1>3 DEF OneBusy, AskedFor

LEMMA LoaderSteps ==
    ASSUME TypeInv, NEW c \in Call, Begin(c) \/ Import(c) \/ Register(c)
    PROVE  TypeInv'
  <1>1. at \in [Call -> Places] /\ OneBusy /\ ShellTypes /\ LoaderTypes /\ GovernanceTypes
    BY TypeParts DEF TypeInv
  <1>2. ToolOf[c] \in Tool /\ SourceOf[ToolOf[c]] \in Source
    BY ToolCallsAssumption
  <1>3. file[SourceOf[ToolOf[c]]] \in Content /\ file[SourceOf[ToolOf[c]]].ver \in 0..MaxEdits
    BY <1>1, <1>2 DEF LoaderTypes, Content
  <1>4. UNCHANGED <<life, member, handle, code, file, mode, grant, did>>
    BY DEF Begin, Import, Register
  <1>5. GovernanceTypes'
    BY <1>1, <1>4 DEF GovernanceTypes
  <1>6. ShellTypes'
    BY <1>1, <1>4 DEF ShellTypes, Begin, Import, Register, Finish
  <1>7. LoaderTypes'
    <2>1. CASE Begin(c)
      BY <2>1, <1>1, <1>2, <1>3 DEF Begin, LoaderTypes, Disposed
    <2>2. CASE Import(c)
      BY <2>2, <1>1, <1>2, <1>3 DEF Import, LoaderTypes
    <2>3. CASE Register(c)
      BY <2>3, <1>1, <1>2, <1>3 DEF Register, LoaderTypes
    <2>. QED
      BY <2>1, <2>2, <2>3
  <1>8. Moves(c, {"import", "resolve", "made", "done"})
    BY DEF Begin, Import, Register, Goto, Finish, Moves
  <1>9. at[c] \notin AwayFromLoop \/ LoopFree
    BY DEF Begin, Import, Register, AwayFromLoop
  <1>10. at' \in [Call -> Places] /\ OneBusy' /\ AskedFor'
    <2>1. {"import", "resolve", "made", "done"} \in SUBSET Places
      BY DEF Places, AwayFromLoop
    <2>. QED
      BY <2>1, <1>8, <1>9, OneMoves
  <1>. QED
    BY <1>5, <1>6, <1>7, <1>10, NextTypeParts DEF TypeInv

LEMMA GovernanceSteps ==
    ASSUME TypeInv, NEW c \in Call, Resolve(c) \/ Decide(c) \/ Touch(c) \/ Command(c)
    PROVE  TypeInv'
  <1>1. at \in [Call -> Places] /\ OneBusy /\ ShellTypes /\ LoaderTypes /\ GovernanceTypes
           /\ AskedFor
    BY TypeParts DEF TypeInv
  <1>2. UNCHANGED <<life, member, handle, code, file, loader, slip>>
    BY DEF Resolve, Decide, Touch, Command
  <1>3. ShellTypes'
    BY <1>1, <1>2 DEF ShellTypes, Resolve, Decide, Touch, Command, Finish
  <1>4. LoaderTypes'
    <2>1. found' \in [Call -> 0..MaxEdits \cup {None}]
      BY <1>1 DEF LoaderTypes, Resolve, Decide, Touch, Command
    <2>. QED
      BY <2>1, <1>1, <1>2 DEF LoaderTypes, loader
  <1>5. GovernanceTypes'
    <2>1. CASE Decide(c)
      <3>1. Resolved(VerdictOn(c).mode) \in Mode
        BY <2>1, <1>1, ModeIsMode DEF Decide, AskedFor
      <3>. QED
        BY <2>1, <3>1, <1>1 DEF Decide, GovernanceTypes
    <2>2. CASE ~Decide(c)
      BY <2>2, <1>1 DEF Resolve, Touch, Command, GovernanceTypes
    <2>. QED
      BY <2>1, <2>2
  <1>6. at' \in [Call -> Places] /\ OneBusy' /\ AskedFor'
    <2>1. at[c] \notin AwayFromLoop \/ LoopFree
      BY DEF Resolve, Decide, Touch, Command, AwayFromLoop
    <2>2. {"ask", "done"} \in SUBSET Places /\ {"execute", "run", "done"} \in SUBSET Places
      BY DEF Places, AwayFromLoop, JobSteps
    <2>3. \/ Moves(c, {"ask", "done"}) /\ VerdictOn(c).decision = "ask"
          \/ Moves(c, {"execute", "run", "done"})
      BY DEF Resolve, Decide, Touch, Command, Goto, Finish, Moves
    <2>4. CASE Moves(c, {"ask", "done"}) /\ VerdictOn(c).decision = "ask"
      BY <2>1, <2>2, <2>4, OneMoves
    <2>5. CASE Moves(c, {"execute", "run", "done"})
      BY <2>1, <2>2, <2>5, OneMoves
    <2>. QED
      BY <2>3, <2>4, <2>5
  <1>. QED
    BY <1>3, <1>4, <1>5, <1>6, NextTypeParts DEF TypeInv

LEMMA ShellSteps ==
    ASSUME TypeInv, NEW c \in Call, InShell(HarnessStep(c)) \/ InShell(ProcessStep(c))
    PROVE  TypeInv'
  <1>1. at \in [Call -> Places] /\ OneBusy /\ ShellTypes /\ LoaderTypes /\ GovernanceTypes
           /\ AskedFor
    BY TypeParts DEF TypeInv
  <1>2. UNCHANGED <<file, loader, mode, grant, did, found, slip>>
    BY DEF InShell
  <1>3. LoaderTypes' /\ GovernanceTypes'
    BY <1>1, <1>2 DEF LoaderTypes, GovernanceTypes, loader
  <1>4. CASE InShell(HarnessStep(c))
    <2>1. ShellTypes' /\ at[c] \in JobSteps /\ Moves(c, JobSteps \cup {"done"})
      BY <1>4, <1>1, HarnessSteps DEF InShell
    <2>2. /\ JobSteps \cup {"done"} \in SUBSET Places
          /\ at[c] \notin AwayFromLoop
          /\ "ask" \notin JobSteps \cup {"done"}
      BY <2>1 DEF Places, AwayFromLoop, JobSteps
    <2>3. at' \in [Call -> Places] /\ OneBusy' /\ AskedFor'
      BY <2>1, <2>2, OneMoves
    <2>. QED
      BY <2>1, <2>3, <1>3, NextTypeParts DEF TypeInv
  <1>5. CASE InShell(ProcessStep(c))
    <2>1. ShellTypes' /\ UNCHANGED at
      BY <1>5, <1>1, ProcessSteps DEF InShell
    <2>. QED
      BY <2>1, <1>1, <1>3, NextTypeParts DEF TypeInv, OneBusy, AskedFor
  <1>. QED
    BY <1>4, <1>5

LEMMA TypeEdit ==
    ASSUME TypeInv, NEW s \in Source, NEW k \in Kind, Edit(s, k)
    PROVE  TypeInv'
  <1>1. at \in [Call -> Places] /\ OneBusy /\ ShellTypes /\ LoaderTypes /\ GovernanceTypes
           /\ AskedFor
    BY TypeParts DEF TypeInv
  <1>2. UNCHANGED <<shell, loader, mode, grant, did, found>>
    BY DEF Edit
  <1>3. file' \in [Source -> Content] /\ slip' \subseteq Tool
    <2>1. file[s].ver \in 0..MaxEdits
      BY <1>1 DEF LoaderTypes, Content
    <2>2. file[s].ver + 1 \in 0..MaxEdits
      BY <2>1, ToolCallsAssumption DEF Edit
    <2>3. InLoad \subseteq Tool
      BY ToolCallsAssumption DEF InLoad
    <2>. QED
      BY <2>2, <2>3, <1>1 DEF Edit, LoaderTypes, Content
  <1>. QED
    BY <1>1, <1>2, <1>3, NextTypeParts
    DEF TypeInv, ShellTypes, LoaderTypes, GovernanceTypes, OneBusy, AskedFor, shell, loader

LEMMA TypeNext == TypeInv /\ [Next]_vars => TypeInv'
  <1>. SUFFICES ASSUME TypeInv, [Next]_vars
                PROVE  TypeInv'
    OBVIOUS
  <1>1. CASE \E c \in Call : CallStep(c) \/ Decide(c) \/ InShell(ProcessStep(c))
    BY <1>1, LoaderSteps, GovernanceSteps, ShellSteps DEF CallStep
  <1>2. CASE \E s \in Source, k \in Kind : Edit(s, k)
    BY <1>2, TypeEdit
  <1>3. CASE UNCHANGED vars
    BY <1>3 DEF vars, shell, loader, TypeInv, TypeOK, AskedFor
  <1>. QED
    BY <1>1, <1>2, <1>3 DEF Next

LEMMA TypesHold == Spec => []TypeInv
  BY TypeInit, TypeNext, PTL DEF Spec

\* Types, and one call at most has the event loop, whatever the calls, the processes of
\* their commands, the user and the editors of the tools do (ToolRuntime.execute is not
\* left by a coroutine but for an approval).
THEOREM TypeCorrect == Spec => []TypeOK
  <1>1. TypeInv => TypeOK
    BY DEF TypeInv
  <1>. QED
    BY <1>1, TypesHold, PTL
-----------------------------------------------------------------------------
(* What is done beyond the base mode.                                      *)

LEMMA GrantInit == Init => GrantInv
  BY DEF Init, GrantInv, OwnMode, BeyondBaseOnlyIfGranted, Undecided, Resolved

\* A step of a call that decides on nothing and has no effect.
LEMMA GrantKept ==
    ASSUME TypeInv, GrantInv, NEW c \in Call, UNCHANGED <<mode, grant, did>>,
           NEW To, Moves(c, To),
           \/ at[c] \in JobSteps /\ To \subseteq JobSteps \cup {"done"}
           \/ at[c] \notin JobSteps \cup {"done"} /\ (at[c] \in Undecided \/ To \cap Undecided = {})
    PROVE  GrantInv'
  <1>1. PICK to \in To : at' = [at EXCEPT ![c] = to]
    BY DEF Moves
  <1>2. at \in [Call -> Places] /\ GovernanceTypes
    BY TypeParts DEF TypeInv
  <1>3. BeyondBaseOnlyIfGranted'
    BY DEF GrantInv, BeyondBaseOnlyIfGranted
  <1>4. OwnMode'
    BY <1>1, <1>2 DEF GrantInv, OwnMode, Undecided, JobSteps, GovernanceTypes
  <1>. QED
    BY <1>3, <1>4 DEF GrantInv

LEMMA GrantByDecide ==
    ASSUME TypeInv, GrantInv, NEW c \in Call, Decide(c)
    PROVE  GrantInv'
  <1>1. at \in [Call -> Places] /\ GovernanceTypes /\ AskedFor
    BY TypeParts DEF TypeInv
  <1>2. at[c] = "ask" /\ c \notin did /\ mode[c] = BaseMode
    BY DEF Decide, GrantInv, OwnMode, Undecided, JobSteps
  <1>3. Resolved(VerdictOn(c).mode) \in {BaseMode, VerdictOn(c).mode}
    BY <1>1, <1>2, ModeIsMode DEF AskedFor
  <1>4. /\ at' = [at EXCEPT ![c] = "execute"] \/ at' = [at EXCEPT ![c] = "done"]
        /\ \/ grant' = [grant EXCEPT ![c] = "allowed-once"]
              /\ mode' = [mode EXCEPT ![c] = Resolved(VerdictOn(c).mode)]
           \/ (\E o \in Outcomes : grant' = [grant EXCEPT ![c] = o]) /\ mode' = mode
        /\ did' = did
    BY DEF Decide, Goto, Finish
  <1>5. OwnMode'
    BY <1>1, <1>2, <1>3, <1>4 DEF OwnMode, GrantInv, GovernanceTypes, Undecided, JobSteps
  <1>6. BeyondBaseOnlyIfGranted'
    BY <1>1, <1>2, <1>4 DEF BeyondBaseOnlyIfGranted, GrantInv, GovernanceTypes
  <1>. QED
    BY <1>5, <1>6 DEF GrantInv

LEMMA GrantByEffect ==
    ASSUME TypeInv, GrantInv, NEW c \in Call, Touch(c) \/ Command(c)
    PROVE  GrantInv'
  <1>1. at \in [Call -> Places] /\ GovernanceTypes
    BY TypeParts DEF TypeInv
  <1>2. at[c] = "execute" /\ UNCHANGED <<mode, grant>>
    BY DEF Touch, Command, Goto
  <1>3. \/ at' = [at EXCEPT ![c] = "run"]
        \/ at' = [at EXCEPT ![c] = "done"]
    BY DEF Touch, Command, Goto, Finish
  <1>4. \/ did' = did
        \/ /\ did' = did \cup {c}
           /\ \/ Op[c] # "command" /\ Allows(c)
              \/ mode[c] = "danger-full-access"
    BY DEF Touch, Command
  <1>5. OwnMode'
    BY <1>1, <1>2, <1>3, <1>4 DEF OwnMode, GrantInv, GovernanceTypes, Undecided, JobSteps
  <1>6. BeyondBaseOnlyIfGranted'
    BY <1>2, <1>4 DEF BeyondBaseOnlyIfGranted, GrantInv, OwnMode, Allows
  <1>. QED
    BY <1>5, <1>6 DEF GrantInv

LEMMA GrantNext == TypeInv /\ GrantInv /\ [Next]_vars => GrantInv'
  <1>. SUFFICES ASSUME TypeInv, GrantInv, [Next]_vars
                PROVE  GrantInv'
    OBVIOUS
  <1>. USE DEF GrantInv, OwnMode, BeyondBaseOnlyIfGranted
  <1>1. ASSUME NEW c \in Call, Begin(c) \/ Import(c) \/ Register(c) \/ Resolve(c)
        PROVE  GrantInv'
    <2>1. at[c] \in Undecided /\ UNCHANGED <<mode, grant, did>> /\ Moves(c, Places)
      BY <1>1 DEF Begin, Import, Register, Resolve, Goto, Finish, Moves, Undecided, Places,
                  AwayFromLoop
    <2>2. at[c] \notin JobSteps \cup {"done"}
      BY <2>1 DEF Undecided, JobSteps
    <2>. QED
      BY <2>1, <2>2, GrantKept
  <1>2. ASSUME NEW c \in Call, InShell(HarnessStep(c)) \/ InShell(ProcessStep(c))
        PROVE  GrantInv'
    <2>1. ShellTypes /\ UNCHANGED <<mode, grant, did>>
      BY <1>2, TypeParts DEF TypeInv, InShell
    <2>2. CASE HarnessStep(c)
      <3>1. at[c] \in JobSteps /\ Moves(c, JobSteps \cup {"done"})
        BY <2>1, <2>2, HarnessSteps
      <3>. QED
        BY <2>1, <3>1, GrantKept
    <2>3. CASE ProcessStep(c)
      <3>1. UNCHANGED at
        BY <2>1, <2>3, ProcessSteps
      <3>. QED
        BY <2>1, <3>1
    <2>. QED
      BY <1>2, <2>2, <2>3 DEF InShell
  <1>3. ASSUME NEW s \in Source, NEW k \in Kind, Edit(s, k)
        PROVE  GrantInv'
    BY <1>3 DEF Edit, shell
  <1>4. CASE UNCHANGED vars
    BY <1>4 DEF vars, shell
  <1>. QED
    BY <1>1, <1>2, <1>3, <1>4, GrantByDecide, GrantByEffect DEF Next, CallStep

\* A call goes beyond the base mode only after its own approval was granted, for the mode
\* that was asked for: the mode of one call never reaches another, whatever the listeners
\* say and however the calls interleave at their approvals (ExecutionPipeline.execute).
THEOREM OnlyGrantedGoBeyond == Spec => []BeyondBaseOnlyIfGranted
  <1>1. GrantInv => BeyondBaseOnlyIfGranted
    BY DEF GrantInv
  <1>. QED
    BY <1>1, TypesHold, GrantInit, GrantNext, PTL DEF Spec

-----------------------------------------------------------------------------
(* The definitions that run.                                               *)

\* Where a call is between the check of its tool and its verdict.
Loading == {"import", "made", "resolve"}

LEMMA ReloadInit == Init => ReloadInv
  <1>. SUFFICES ASSUME Init
                PROVE  ReloadInv
    OBVIOUS
  <1>1. FreshDefinition /\ \A c \in Call : Reloading(c) /\ Checked(c)
    BY DEF Init, FreshDefinition, Reloading, Checked
  <1>2. ASSUME NEW t \in Tool
        PROVE  Watched(t) /\ Registered(t)
    <2>1. tool[t] = [ver |-> 0, kind |-> "good"] /\ watch[t] = 0
             /\ file[SourceOf[t]] = [ver |-> 0, kind |-> "good"]
      BY ToolCallsAssumption DEF Init
    <2>2. tool[t] # None /\ watch[t] # None
      BY <2>1, ToolCallsAssumption DEF Content, Kind
    <2>. QED
      BY <2>1, <2>2 DEF Watched, Registered
  <1>. QED
    BY <1>1, <1>2 DEF ReloadInv

\* A step that touches neither the loader nor a call in it.
LEMMA ReloadKept ==
    ASSUME ReloadInv, UNCHANGED <<file, loader, slip>>, at \in [Call -> Places],
           found \in [Call -> 0..MaxEdits \cup {None}],
           \A c \in Call : at'[c] \in Loading => at'[c] = at[c] /\ found'[c] = found[c],
           \A c \in Call : at[c] = "import" => at'[c] = "import"
    PROVE  ReloadInv'
  <1>1. FreshDefinition'
    BY DEF ReloadInv, FreshDefinition, Loading, loader
  <1>2. \A c \in Call : Reloading(c)' /\ Checked(c)'
    BY DEF ReloadInv, Reloading, Checked, Loading, loader
  <1>3. \A t \in Tool : Watched(t)' /\ Registered(t)'
    BY DEF ReloadInv, Watched, Registered, Loading, loader
  <1>. QED
    BY <1>1, <1>2, <1>3 DEF ReloadInv

LEMMA ReloadByBegin ==
    ASSUME TypeInv, ReloadInv, NEW c \in Call, Begin(c)
    PROVE  ReloadInv'
  <1> DEFINE t == ToolOf[c]
             f == file[SourceOf[t]]
  <1>1. at \in [Call -> Places] /\ LoaderTypes
    BY TypeParts DEF TypeInv
  <1>2. t \in Tool /\ f \in Content /\ f.ver \in 0..MaxEdits
    BY <1>1, ToolCallsAssumption DEF LoaderTypes, Content
  <1>3. \A d \in Call : at[d] \notin Loading
    BY DEF Begin, LoopFree, AwayFromLoop, Loading
  <1>4. UNCHANGED <<file, watch, new>> /\ found' = [found EXCEPT ![c] = f.ver]
    BY DEF Begin
  <1>5. CASE Changed(t)
    <2>1. at' = [at EXCEPT ![c] = "import"] /\ tool' = [tool EXCEPT ![t] = None]
             /\ slip' = slip \ {t}
      BY <1>5 DEF Begin, Goto, Disposed
    <2>2. FreshDefinition'
      BY <1>1, <1>3, <2>1 DEF FreshDefinition, Loading
    <2>3. \A d \in Call : Reloading(d)' /\ Checked(d)'
      BY <1>1, <1>2, <1>3, <1>4, <2>1 DEF Reloading, Checked, Loading, LoaderTypes
    <2>4. \A u \in Tool : Watched(u)'
      BY <1>1, <1>2, <1>4, <2>1 DEF ReloadInv, Watched, LoaderTypes
    <2>5. \A u \in Tool : Registered(u)'
      <3>1. tool'[t] = None /\ at'[c] = "import" /\ ToolOf[c] = t
        BY <1>1, <1>2, <2>1 DEF LoaderTypes
      <3>2. \A u \in Tool \ {t} : Registered(u)'
        BY <1>1, <1>3, <1>4, <2>1 DEF ReloadInv, Registered, Loading, LoaderTypes
      <3>. QED
        BY <3>1, <3>2 DEF Registered
    <2>. QED
      BY <2>2, <2>3, <2>4, <2>5 DEF ReloadInv
  <1>6. CASE ~Changed(t)
    <2>1. at' = [at EXCEPT ![c] = "resolve"] /\ UNCHANGED <<tool, slip>>
      BY <1>6 DEF Begin, Goto
    <2>2. tool[t] # None => tool[t].ver >= f.ver \/ t \in slip
      <3>1. CASE watch[t] = None
        BY <3>1, <1>2, <1>3 DEF ReloadInv, Registered, Loading
      <3>2. CASE watch[t] # None /\ tool[t] # None
        <4>1. watch[t] \in 0..MaxEdits /\ tool[t] \in Content
          BY <1>1, <1>2, <3>2 DEF LoaderTypes
        <4>2. tool[t].ver \in 0..MaxEdits
          BY <4>1 DEF Content
        <4>3. f.ver <= watch[t]
          BY <1>6, <1>2, <3>2, <4>1 DEF Changed
        <4>4. tool[t].ver >= watch[t] \/ t \in slip
          BY <1>2, <3>2 DEF ReloadInv, Watched
        <4>. QED
          BY <4>1, <4>2, <4>3, <4>4, <1>2
      <3>. QED
        BY <3>1, <3>2
    <2>3. FreshDefinition'
      BY <1>1, <1>3, <1>4, <2>1, <2>2 DEF FreshDefinition, Loading, LoaderTypes
    <2>4. \A d \in Call : Reloading(d)' /\ Checked(d)'
      BY <1>1, <1>2, <1>3, <1>4, <2>1 DEF Reloading, Checked, Loading, LoaderTypes
    <2>5. \A u \in Tool : Watched(u)' /\ Registered(u)'
      BY <1>1, <1>3, <1>4, <2>1 DEF ReloadInv, Watched, Registered, Loading
    <2>. QED
      BY <2>3, <2>4, <2>5 DEF ReloadInv
  <1>. QED
    BY <1>5, <1>6

LEMMA ReloadByImport ==
    ASSUME TypeInv, ReloadInv, NEW c \in Call, Import(c)
    PROVE  ReloadInv'
  <1> DEFINE t == ToolOf[c]
             f == file[SourceOf[t]]
  <1>1. at \in [Call -> Places] /\ OneBusy /\ LoaderTypes
    BY TypeParts DEF TypeInv
  <1>2. t \in Tool /\ f \in Content
    BY <1>1, ToolCallsAssumption DEF LoaderTypes, Content
  <1>3. at[c] = "import" /\ \A d \in Call \ {c} : at[d] \notin Loading
    BY <1>1 DEF Import, OneBusy, AwayFromLoop, Loading
  <1>4. UNCHANGED <<file, tool, slip, found>> /\ watch' = [watch EXCEPT ![t] = None]
    BY DEF Import
  <1>5. \/ at' = [at EXCEPT ![c] = "made"] /\ new' = f /\ f.kind # "deleted"
        \/ at' = [at EXCEPT ![c] = "done"] /\ new' = new
    BY DEF Import, Goto, Finish
  <1>6. tool[t] = None /\ found[c] <= f.ver
    BY <1>3 DEF ReloadInv, Reloading
  <1>7. FreshDefinition'
    BY <1>1, <1>3, <1>5 DEF FreshDefinition, Loading
  <1>8. \A d \in Call : Reloading(d)' /\ Checked(d)'
    <2>1. \A d \in Call \ {c} : at'[d] \notin Loading
      BY <1>1, <1>3, <1>5
    <2>2. Reloading(c)' /\ Checked(c)'
      BY <1>1, <1>2, <1>3, <1>4, <1>5, <1>6 DEF ReloadInv, Reloading, Checked, LoaderTypes
    <2>. QED
      BY <2>1, <2>2 DEF Reloading, Checked, Loading
  <1>9. \A u \in Tool : Watched(u)'
    BY <1>1, <1>4 DEF ReloadInv, Watched, LoaderTypes
  <1>10. \A u \in Tool : Registered(u)'
    BY <1>1, <1>2, <1>3, <1>4, <1>6 DEF ReloadInv, Registered, Loading, LoaderTypes
  <1>. QED
    BY <1>7, <1>8, <1>9, <1>10 DEF ReloadInv

LEMMA ReloadByRegister ==
    ASSUME TypeInv, ReloadInv, NEW c \in Call, Register(c)
    PROVE  ReloadInv'
  <1> DEFINE t == ToolOf[c]
             f == file[SourceOf[t]]
  <1>1. at \in [Call -> Places] /\ OneBusy /\ LoaderTypes
    BY TypeParts DEF TypeInv
  <1>2. t \in Tool /\ f \in Content /\ f.ver \in 0..MaxEdits /\ f.ver # None
    BY <1>1, ToolCallsAssumption DEF LoaderTypes, Content
  <1>3. at[c] = "made" /\ \A d \in Call \ {c} : at[d] \notin Loading
    BY <1>1 DEF Register, OneBusy, AwayFromLoop, Loading
  <1>4. UNCHANGED <<file, slip, found>> /\ tool' = [tool EXCEPT ![t] = new]
    BY DEF Register
  <1>5. \/ f.kind = "deleted" /\ at' = [at EXCEPT ![c] = "done"] /\ watch' = watch
        \/ at' = [at EXCEPT ![c] = "resolve"] /\ watch' = [watch EXCEPT ![t] = f.ver]
    BY DEF Register, Goto, Finish
  <1>6. /\ watch[t] = None /\ new \in Content /\ new # None /\ new.ver \in 0..MaxEdits
        /\ found[c] <= new.ver /\ new.kind # "deleted"
        /\ new = f \/ t \in slip
    BY <1>3, ToolCallsAssumption DEF ReloadInv, Reloading, Content
  <1>7. found[c] \in 0..MaxEdits
    BY <1>3 DEF ReloadInv, Checked
  <1>8. tool'[t] = new /\ \A u \in Tool \ {t} : tool'[u] = tool[u] /\ watch'[u] = watch[u]
    BY <1>1, <1>2, <1>4, <1>5 DEF LoaderTypes
  <1>9. \A d \in Call \ {c} : at'[d] \notin Loading
    BY <1>1, <1>3, <1>5
  <1>10. at'[c] \in {"done", "resolve"}
    BY <1>1, <1>5
  <1>11. FreshDefinition'
    <2>1. tool'[ToolOf[c]].ver >= found'[c]
      BY <1>4, <1>6, <1>7, <1>8
    <2>. QED
      BY <2>1, <1>9 DEF FreshDefinition, Loading
  <1>12. \A d \in Call : Reloading(d)' /\ Checked(d)'
    BY <1>4, <1>7, <1>9, <1>10 DEF Reloading, Checked, Loading
  <1>13. \A u \in Tool : Watched(u)'
    <2>1. Watched(t)'
      <3>1. CASE watch' = watch
        BY <3>1, <1>6 DEF Watched
      <3>2. CASE watch' = [watch EXCEPT ![t] = f.ver]
        <4>1. watch'[t] = f.ver
          BY <3>2, <1>1, <1>2 DEF LoaderTypes
        <4>2. new.ver >= f.ver \/ t \in slip
          BY <1>2, <1>6
        <4>. QED
          BY <4>1, <4>2, <1>2, <1>4, <1>8 DEF Watched
      <3>. QED
        BY <3>1, <3>2, <1>5
    <2>2. \A u \in Tool \ {t} : Watched(u)'
      BY <1>4, <1>8 DEF ReloadInv, Watched
    <2>. QED
      BY <2>1, <2>2
  <1>14. \A u \in Tool : Registered(u)'
    <2>1. Registered(t)'
      <3>1. CASE f.kind = "deleted"
        BY <3>1, <1>4, <1>6, <1>8 DEF Registered
      <3>2. CASE watch' = [watch EXCEPT ![t] = f.ver]
        <4>1. watch'[t] # None
          BY <3>2, <1>1, <1>2 DEF LoaderTypes
        <4>. QED
          BY <4>1, <1>6, <1>8 DEF Registered
      <3>. QED
        BY <3>1, <3>2, <1>5
    <2>2. \A u \in Tool \ {t} : Registered(u)'
      BY <1>3, <1>4, <1>8 DEF ReloadInv, Registered, Loading
    <2>. QED
      BY <2>1, <2>2
  <1>. QED
    BY <1>11, <1>12, <1>13, <1>14 DEF ReloadInv

LEMMA ReloadByEdit ==
    ASSUME TypeInv, ReloadInv, NEW s \in Source, NEW k \in Kind, Edit(s, k)
    PROVE  ReloadInv'
  <1>1. at \in [Call -> Places] /\ LoaderTypes
    BY TypeParts DEF TypeInv
  <1>2. UNCHANGED <<at, tool, watch, new, found>> /\ slip \subseteq slip'
    BY DEF Edit, shell, loader
  <1>3. \A u \in Source : file[u].ver \in Nat /\ file'[u].ver \in Nat
                            /\ file[u].ver <= file'[u].ver /\ (u # s => file'[u] = file[u])
    <2>1. \A u \in Source : file[u].ver \in Nat
      BY <1>1, ToolCallsAssumption DEF LoaderTypes, Content
    <2>. QED
      BY <2>1, <1>1 DEF Edit, LoaderTypes
  <1>4. \A t \in Tool : SourceOf[t] \in Source
    BY ToolCallsAssumption
  <1>5. \A c \in Call : ToolOf[c] \in Tool
    BY ToolCallsAssumption
  <1>6. FreshDefinition'
    BY <1>2 DEF ReloadInv, FreshDefinition
  <1>7. ASSUME NEW c \in Call
        PROVE  Reloading(c)' /\ Checked(c)'
    <2>1. Checked(c)'
      BY <1>2 DEF ReloadInv, Checked
    <2>2. at[c] = "import" => (found[c] \in Nat /\ found[c] <= file'[SourceOf[ToolOf[c]]].ver)
      BY <1>3, <1>4, <1>5, ToolCallsAssumption DEF ReloadInv, Reloading, Checked
    <2>3. at[c] = "made" /\ SourceOf[ToolOf[c]] = s => ToolOf[c] \in slip'
      BY <1>5 DEF Edit, InLoad
    <2>. QED
      BY <2>1, <2>2, <2>3, <1>2, <1>3, <1>4, <1>5 DEF ReloadInv, Reloading
  <1>8. ASSUME NEW t \in Tool
        PROVE  Watched(t)' /\ Registered(t)'
    <2>1. Registered(t)'
      BY <1>2 DEF ReloadInv, Registered
    <2>2. watch[t] # None => (watch[t] \in Nat /\ watch[t] <= file'[SourceOf[t]].ver)
      BY <1>1, <1>3, <1>4, ToolCallsAssumption DEF ReloadInv, Watched, LoaderTypes
    <2>. QED
      BY <2>1, <2>2, <1>2 DEF ReloadInv, Watched
  <1>. QED
    BY <1>6, <1>7, <1>8 DEF ReloadInv

LEMMA ReloadNext == TypeInv /\ ReloadInv /\ [Next]_vars => ReloadInv'
  <1>. SUFFICES ASSUME TypeInv, ReloadInv, [Next]_vars
                PROVE  ReloadInv'
    OBVIOUS
  <1>1. at \in [Call -> Places] /\ found \in [Call -> 0..MaxEdits \cup {None}] /\ ShellTypes
    BY TypeParts DEF TypeInv, LoaderTypes
  <1>2. ASSUME NEW c \in Call, Resolve(c) \/ Decide(c) \/ Touch(c) \/ Command(c)
        PROVE  ReloadInv'
    <2>1. UNCHANGED <<file, loader, slip>>
      BY <1>2 DEF Resolve, Decide, Touch, Command
    <2>2. found' = [found EXCEPT ![c] = None] \/ found' = found
      BY <1>2 DEF Resolve, Decide, Touch, Command
    <2>3. at[c] # "import" /\ Moves(c, {"ask", "execute", "run", "done"})
      BY <1>2 DEF Resolve, Decide, Touch, Command, Goto, Finish, Moves
    <2>. QED
      BY <2>1, <2>2, <2>3, <1>1, ReloadKept DEF Moves, Loading
  <1>3. ASSUME NEW c \in Call, InShell(HarnessStep(c)) \/ InShell(ProcessStep(c))
        PROVE  ReloadInv'
    <2>1. UNCHANGED <<file, loader, slip, found>>
      BY <1>3 DEF InShell
    <2>2. CASE HarnessStep(c)
      <3>1. at[c] \in JobSteps /\ Moves(c, JobSteps \cup {"done"})
        BY <1>1, <2>2, HarnessSteps
      <3>. QED
        BY <2>1, <3>1, <1>1, ReloadKept DEF Moves, Loading, JobSteps
    <2>3. CASE ProcessStep(c)
      <3>1. UNCHANGED at
        BY <1>1, <2>3, ProcessSteps
      <3>. QED
        BY <2>1, <3>1, <1>1, ReloadKept
    <2>. QED
      BY <1>3, <2>2, <2>3 DEF InShell
  <1>4. CASE UNCHANGED vars
    BY <1>4, <1>1, ReloadKept DEF vars, shell
  <1>. QED
    BY <1>2, <1>3, <1>4, ReloadByBegin, ReloadByImport, ReloadByRegister, ReloadByEdit
    DEF Next, CallStep

LEMMA ReloadHolds == Spec => []ReloadInv
  BY TypesHold, ReloadInit, ReloadNext, PTL DEF Spec

\* A call runs a definition that is not older than the source its reload check found, but
\* for an edit between an import and the stat after it, with any number of tools in a
\* module and of calls that reload them (ToolRuntime.execute, reload_if_changed).
THEOREM DefinitionsAreFresh == Spec => []FreshDefinition
  <1>1. ReloadInv => FreshDefinition
    BY DEF ReloadInv
  <1>. QED
    BY <1>1, ReloadHolds, PTL

\* Between calls a tool that is registered is watched and one that is not is not: a reload
\* that fails leaves nothing behind that a later check would take for a loaded tool
\* (reload_tool, _load_tool).
THEOREM WatchedIffRegistered == Spec => []RegisteredAndWatched
  <1>1. ReloadInv => RegisteredAndWatched
    BY DEF ReloadInv, RegisteredAndWatched, Registered, LoopFree, AwayFromLoop
  <1>. QED
    BY <1>1, ReloadHolds, PTL
=============================================================================
