--------------------------- MODULE Contacts_proofs ---------------------------
(***************************************************************************)
(* Theorems about Contacts, for clusters of any size, any number of tasks  *)
(* and of tool calls in them, whatever the models choose, and any number   *)
(* of processes that stop and writes that fail.                            *)
(***************************************************************************)
EXTENDS Contacts, FiniteSetTheorems, TLAPS

\* What the two introductions may bring.
Brought(tool, to, S) ==
    /\ tool = "set_sayi_contact" => to \in Eiar /\ \E x \in Contact : S = {x}
    /\ tool = "set_eiar_contacts" => to \in Sayi /\ S \in Lists

Fits(c) ==
    /\ c.from \in Contact /\ c.to \in Contact /\ c.arg \in SUBSET Contact
    /\ c.tool = "record_lis" => c.from \in Bot
    /\ Brought(c.tool, c.to, c.arg)

JobInv ==
    /\ job \in [Task -> Job]
    /\ \A t \in Task : Active(t) => Owner[t] \in up
    /\ \A t, u \in Task :
          job[t].at = "think" /\ job[u].at = "think" /\ Owner[t] = Owner[u] => t = u

BotTypes ==
    /\ file \in [Bot -> SUBSET Contact]
    /\ whole \in [Bot -> BOOLEAN]
    /\ up \subseteq Bot
    /\ peers \in [Bot -> SUBSET Contact]
    /\ trouble \in 0..MaxTrouble

RegTypes == reg \subseteq Bot /\ regFile \subseteq Bot /\ svUp \in BOOLEAN
CallsFit == \A c \in calls : Fits(c)

TypeInv == BotTypes /\ RegTypes /\ CallsFit /\ JobInv

-----------------------------------------------------------------------------
(* Types.                                                                  *)

LEMMA TypeInit == Init => TypeInv
  <1>. SUFFICES ASSUME Init PROVE TypeInv
    OBVIOUS
  <1>1. BotTypes /\ RegTypes /\ CallsFit
    BY ContactsAssumption DEF Init, BotTypes, RegTypes, CallsFit, Contact, Bot
  <1>2. \A t \in Task : job[t] \in Job /\ job[t].at = "idle" /\ job[t].steps = 0
    BY ContactsAssumption DEF Init, Job
  <1>3. job \in [Task -> Job]
    BY <1>2 DEF Init
  <1>. QED
    BY <1>1, <1>2, <1>3 DEF TypeInv, JobInv, Active

\* What a tool saves, and what becomes of it.
Saved(b, S) == Save(b, S) \/ SaveFails(b) \/ SaveDies(b, S)

LEMMA GoneTypes ==
    ASSUME BotTypes, NEW b \in Bot, Gone(b)
    PROVE  up' \subseteq Bot /\ peers' \in [Bot -> SUBSET Contact] /\ trouble' \in 0..MaxTrouble
  BY ContactsAssumption DEF Gone, BotTypes

LEMMA SavedTypes ==
    ASSUME BotTypes, NEW b \in Bot, NEW S \in SUBSET Contact, Saved(b, S)
    PROVE  BotTypes'
  <1>1. CASE Save(b, S)
    BY <1>1 DEF Save, BotTypes
  <1>2. CASE SaveFails(b)
    <2>1. trouble' \in 0..MaxTrouble /\ UNCHANGED <<up, peers>>
      BY <1>2, ContactsAssumption DEF SaveFails, BotTypes
    <2>2. file' \in [Bot -> SUBSET Contact] /\ whole' \in [Bot -> BOOLEAN]
      BY <1>2 DEF SaveFails, BotTypes
    <2>. QED
      BY <2>1, <2>2 DEF BotTypes
  <1>3. CASE SaveDies(b, S)
    <2>1. up' \subseteq Bot /\ peers' \in [Bot -> SUBSET Contact] /\ trouble' \in 0..MaxTrouble
      BY <1>3, GoneTypes DEF SaveDies
    <2>. QED
      BY <1>3, <2>1 DEF SaveDies, BotTypes
  <1>. QED
    BY <1>1, <1>2, <1>3 DEF Saved

\* A process ends and takes its tasks with it.
LEMMA GoneJobs ==
    ASSUME JobInv, NEW b \in Bot, Gone(b)
    PROVE  JobInv'
  <1>1. job' = Killed(b) /\ up' = up \ {b}
    BY DEF Gone
  <1>2. \A t \in Task : \/ job'[t] = job[t] /\ (Active(t) => Owner[t] # b)
                        \/ job'[t] = [job[t] EXCEPT !.at = "over"]
    BY <1>1 DEF Killed
  <1>3. \A t \in Task : job[t] \in Job
    BY DEF JobInv
  <1>4. \A j \in Job : [j EXCEPT !.at = "over"] \in Job /\ [j EXCEPT !.at = "over"].at = "over"
    BY DEF Job
  <1>5. \A t \in Task : job'[t] \in Job /\ (job'[t] = job[t] \/ job'[t].at = "over")
    BY <1>2, <1>3, <1>4
  <1>9. job' \in [Task -> Job]
    BY <1>1, <1>5 DEF Killed
  <1>7. ASSUME NEW t \in Task, Active(t)' PROVE Owner[t] \in up'
    <2>1. job'[t].at # "over"
      BY <1>7 DEF Active
    <2>2. job'[t] = job[t] /\ (Active(t) => Owner[t] # b)
      BY <1>2, <1>3, <1>4, <2>1
    <2>. QED
      BY <1>1, <1>7, <2>2 DEF JobInv, Active
  <1>8. \A t, u \in Task :
          job'[t].at = "think" /\ job'[u].at = "think" /\ Owner[t] = Owner[u] => t = u
    BY <1>5 DEF JobInv
  <1>. QED
    BY <1>9, <1>7, <1>8 DEF JobInv

\* A task of a running bot is moved, to thinking only if it has the loop.
LEMMA JobMoved ==
    ASSUME JobInv, NEW t \in Task, NEW i \in Job, job' = [job EXCEPT ![t] = i], up' = up,
           Owner[t] \in up,
           i.at = "think" => job[t].at = "think" \/ LoopFree(Owner[t])
    PROVE  JobInv'
  <1>1. job' \in [Task -> Job] /\ job'[t] = i /\ \A u \in Task \ {t} : job'[u] = job[u]
    BY DEF JobInv
  <1>3. \A u \in Task : Active(u)' => Owner[u] \in up'
    BY <1>1 DEF JobInv, Active
  <1>4. ASSUME NEW u \in Task, u # t, i.at = "think", job[u].at = "think"
        PROVE  Owner[t] # Owner[u]
    BY <1>4 DEF JobInv, LoopFree
  <1>5. \A u, v \in Task :
          job'[u].at = "think" /\ job'[v].at = "think" /\ Owner[u] = Owner[v] => u = v
    BY <1>1, <1>4 DEF JobInv
  <1>. QED
    BY <1>1, <1>3, <1>5 DEF JobInv

LEMMA JobStays ==
    ASSUME JobInv, job' = job, up \subseteq up'
    PROVE  JobInv'
  BY DEF JobInv, Active
-----------------------------------------------------------------------------
(* Bots and the registry.                                                  *)

LEMMA TypeBots ==
    ASSUME TypeInv, NEW b \in Bot, Start(b) \/ Stop(b)
    PROVE  TypeInv'
  <1>1. CASE Start(b)
    <2>1. CallsFit'
      <3> DEFINE m == Call("record_lis", b, Sv, {}, None, 0)
      <3>1. Fits(m)
        BY DEF Fits, Brought, Call, Contact
      <3>. QED
        BY <1>1, <3>1 DEF Start, TypeInv, CallsFit, Fits, Brought
    <2>2. JobInv'
      BY <1>1, JobStays DEF Start, TypeInv
    <2>. QED
      BY <1>1, <2>1, <2>2 DEF Start, TypeInv, BotTypes, RegTypes, registry
  <1>2. CASE Stop(b)
    <2>1. up' \subseteq Bot /\ peers' \in [Bot -> SUBSET Contact] /\ trouble' \in 0..MaxTrouble
      BY <1>2, GoneTypes DEF Stop, TypeInv
    <2>2. JobInv'
      BY <1>2, GoneJobs DEF Stop, TypeInv
    <2>. QED
      BY <1>2, <2>1, <2>2
      DEF Stop, TypeInv, BotTypes, RegTypes, CallsFit, Fits, Brought, registry
  <1>. QED
    BY <1>1, <1>2

\* Nothing but the registry and the calls changes.
LEMMA TypeRest ==
    ASSUME TypeInv, UNCHANGED <<bots, job>>, trouble' \in 0..MaxTrouble, RegTypes', CallsFit'
    PROVE  TypeInv'
  BY DEF TypeInv, BotTypes, JobInv, Active, bots

LEMMA TypeTrouble ==
    ASSUME BotTypes, trouble' = trouble \/ (trouble < MaxTrouble /\ trouble' = trouble + 1)
    PROVE  trouble' \in 0..MaxTrouble
  BY ContactsAssumption DEF BotTypes

LEMMA FewerCalls ==
    ASSUME CallsFit, calls' \subseteq calls
    PROVE  CallsFit'
  BY DEF CallsFit, Fits, Brought

LEMMA TypeSv ==
    ASSUME TypeInv, SvStart \/ SvStop
    PROVE  TypeInv'
  <1>1. RegTypes' /\ UNCHANGED <<bots, job, calls>>
    BY DEF SvStart, SvStop, Loaded, TypeInv, RegTypes
  <1>2. trouble' \in 0..MaxTrouble
    BY TypeTrouble DEF SvStart, SvStop, TypeInv
  <1>. QED
    BY <1>1, <1>2, FewerCalls, TypeRest DEF TypeInv

LEMMA TypeRegistry ==
    ASSUME TypeInv, NEW c \in calls, Record(c) \/ List(c)
    PROVE  TypeInv'
  <1>0. Fits(c)
    BY DEF TypeInv, CallsFit
  <1>1. CASE Record(c)
    <2>1. c.from \in Bot
      BY <1>0, <1>1 DEF Record, Fits
    <2>2. RegTypes'
      BY <1>1, <2>1 DEF Record, Written, WriteFails, SvTear, TypeInv, RegTypes
    <2>3. trouble' \in 0..MaxTrouble
      BY <1>1, TypeTrouble DEF Record, Written, WriteFails, SvTear, TypeInv
    <2>. QED
      BY <1>1, <2>2, <2>3, TypeRest, FewerCalls DEF Record, TypeInv
  <1>2. CASE List(c)
    <2>1. RegTypes'
      BY <1>2 DEF List, Written, WriteFails, SvTear, registry, TypeInv, RegTypes
    <2>2. trouble' \in 0..MaxTrouble
      BY <1>2, TypeTrouble DEF List, Written, WriteFails, SvTear, TypeInv
    <2>3. Fits(Answer(c))
      BY <1>0 DEF Fits, Brought, Answer, Call
    <2>4. CallsFit'
      BY <1>2, <2>3 DEF List, TypeInv, CallsFit, Fits, Brought
    <2>. QED
      BY <1>2, <2>1, <2>2, <2>4, TypeRest DEF List
  <1>. QED
    BY <1>1, <1>2

\* The peers that an introduction leaves in the file of the bot it is for.
LEMMA IntroducedPeers ==
    ASSUME TypeInv, NEW c \in calls, Introduce(c)
    PROVE  /\ c.to \in Bot /\ Fits(c)
           /\ Rewritten(c.to, Family(c.tool), c.arg) \in SUBSET Contact
           /\ Saved(c.to, Rewritten(c.to, Family(c.tool), c.arg))
  <1>1. c.to \in Bot /\ Fits(c)
    BY DEF Introduce, TypeInv, BotTypes, CallsFit
  <1>. QED
    BY <1>1 DEF Introduce, Fits, Rewritten, Saved, TypeInv, BotTypes

LEMMA TypeIntroduce ==
    ASSUME TypeInv, NEW c \in calls, Introduce(c)
    PROVE  TypeInv'
  <1> DEFINE S == Rewritten(c.to, Family(c.tool), c.arg)
  <1>1. c.to \in Bot /\ Fits(c) /\ BotTypes'
    BY IntroducedPeers, SavedTypes DEF TypeInv
  <1>2. Fits(Answer(c))
    BY <1>1 DEF Fits, Brought, Answer, Call
  <1>3. calls' \subseteq calls \cup {Answer(c)}
    BY DEF Introduce
  <1>4. CallsFit'
    BY <1>2, <1>3 DEF TypeInv, CallsFit, Fits, Brought
  <1>5. JobInv'
    <2>1. CASE SaveDies(c.to, S)
      BY <1>1, <2>1, GoneJobs DEF SaveDies, TypeInv
    <2>2. CASE UNCHANGED <<job, up>>
      BY <2>2, JobStays DEF TypeInv
    <2>. QED
      BY <2>1, <2>2 DEF Introduce, Save, SaveFails
  <1>. QED
    BY <1>1, <1>4, <1>5 DEF Introduce, registry, TypeInv, RegTypes
-----------------------------------------------------------------------------
(* Tasks.                                                                  *)

\* What the tools of a task are called with.
LEMMA ToolCallFits ==
    ASSUME NEW k \in Skaye, NEW c \in ToolCalls(k)
    PROVE  /\ c.tool \in {"list_eiar_robots", "set_sayi_contact", "set_eiar_contacts",
                          "add_eiar_peers", "remove_peer"}
           /\ c.to \in Contact /\ c.arg \in SUBSET Contact
           /\ Brought(c.tool, c.to, c.arg)
  <1>1. \A S \in Lists : S \in SUBSET Contact
                        /\ (Cardinality(S) = 1 => \E x \in Contact : S = {x})
    BY ContactsAssumption, FS_Singleton
  <1>. QED
    BY <1>1, ContactsAssumption DEF ToolCalls, Brought, Contact, Bot

\* A task that thinks has the loop: its tool call is counted, and it thinks on or waits.
LEMMA CountedTypes ==
    ASSUME TypeInv, NEW t \in Task, NEW at \in {"think", "wait"},
           job[t].at = "think", job[t].steps < MaxSteps, Counted(t, at), up' = up
    PROVE  JobInv'
  <1>1. PICK i : i = [at |-> at, steps |-> job[t].steps + 1]
    OBVIOUS
  <1>2. job[t].steps \in 0..MaxSteps /\ Owner[t] \in up
    BY DEF TypeInv, JobInv, Job, Active
  <1>3. i \in Job
    BY <1>1, <1>2, ContactsAssumption DEF Job
  <1>4. job' = [job EXCEPT ![t] = i]
    BY <1>1 DEF Counted, TypeInv, JobInv
  <1>. QED
    BY <1>2, <1>3, <1>4, JobMoved DEF TypeInv

LEMMA TypeDelegate ==
    ASSUME TypeInv, NEW t \in Task, job[t].at = "think", job[t].steps < MaxSteps,
           NEW c \in ToolCalls(Owner[t]), Delegate(t, c)
    PROVE  TypeInv'
  <1>0. UNCHANGED <<bots, registry, trouble>>
    BY DEF Delegate
  <1>1. Owner[t] \in Skaye /\ Owner[t] \in Contact
    BY ContactsAssumption DEF Contact, Bot
  <1>2. BotTypes' /\ RegTypes'
    BY <1>0 DEF TypeInv, BotTypes, RegTypes, bots, registry
  <1>3. JobInv'
    <2>1. \E at \in {"think", "wait"} : Counted(t, at)
      BY DEF Delegate
    <2>. QED
      BY <1>0, <2>1, CountedTypes DEF bots
  <1>4. CallsFit'
    <2> DEFINE m == Call(c.tool, Owner[t], c.to, c.arg, t, job[t].steps + 1)
    <2>1. Fits(m)
      BY <1>1, ToolCallFits DEF Fits, Call, Brought
    <2>2. calls' \subseteq calls \cup {m}
      BY DEF Delegate
    <2>. QED
      BY <2>1, <2>2 DEF TypeInv, CallsFit, Fits, Brought
  <1>. QED
    BY <1>2, <1>3, <1>4 DEF TypeInv

\* A Skaye bot's tools rewrite its own file.
LEMMA RewrittenPeers ==
    ASSUME TypeInv, NEW t \in Task, NEW c \in ToolCalls(Owner[t]), Rewrite(t, c)
    PROVE  Owner[t] \in Bot /\ \E S \in SUBSET Contact : Saved(Owner[t], S)
  <1>1. Owner[t] \in Bot /\ Owner[t] \in Skaye
    BY ContactsAssumption DEF Bot
  <1>2. \A D : Rewritten(Owner[t], D, {}) \in SUBSET Contact
    BY <1>1 DEF Rewritten, TypeInv, BotTypes
  <1>3. Rewritten(Owner[t], {}, c.arg) \in SUBSET Contact
    BY <1>1, ToolCallFits DEF Rewritten, TypeInv, BotTypes
  <1>. QED
    BY <1>1, <1>2, <1>3 DEF Rewrite, Saved

LEMMA TypeRewrite ==
    ASSUME TypeInv, NEW t \in Task, job[t].at = "think", job[t].steps < MaxSteps,
           NEW c \in ToolCalls(Owner[t]), Rewrite(t, c)
    PROVE  TypeInv'
  <1>1. BotTypes' /\ Owner[t] \in Bot
    BY RewrittenPeers, SavedTypes DEF TypeInv
  <1>2. JobInv'
    <2>1. Gone(Owner[t]) \/ (Counted(t, "think") /\ up' = up)
      BY DEF Rewrite, Save, SaveFails, SaveDies
    <2>. QED
      BY <1>1, <2>1, GoneJobs, CountedTypes DEF TypeInv
  <1>. QED
    BY <1>1, <1>2, FewerCalls DEF Rewrite, TypeInv, RegTypes, registry

\* A task begins, ends, or goes on with an answer or without one.
LEMMA TurnTypes ==
    ASSUME TypeInv, NEW t \in Task, NEW at \in {"think", "over"},
           job' = [job EXCEPT ![t].at = at], up' = up, Owner[t] \in up,
           at = "think" => job[t].at = "think" \/ LoopFree(Owner[t])
    PROVE  JobInv'
  <1>1. PICK i : i = [job[t] EXCEPT !.at = at]
    OBVIOUS
  <1>2. i \in Job /\ i.at = at
    BY <1>1 DEF TypeInv, JobInv, Job
  <1>3. job' = [job EXCEPT ![t] = i]
    BY <1>1 DEF TypeInv, JobInv
  <1>. QED
    BY <1>2, <1>3, JobMoved DEF TypeInv

LEMMA TypeWork ==
    ASSUME TypeInv, NEW t \in Task, Begin(t) \/ Work(t)
    PROVE  TypeInv'
  <1>1. CASE UseTool(t)
    BY <1>1, TypeDelegate, TypeRewrite DEF UseTool
  <1>2. ASSUME UNCHANGED <<bots, registry, trouble>>, calls' \subseteq calls, JobInv'
        PROVE  TypeInv'
    BY <1>2, FewerCalls DEF TypeInv, BotTypes, RegTypes, bots, registry
  <1>3. Owner[t] \in up \/ Begin(t) \/ ~Active(t)
    BY DEF TypeInv, JobInv
  <1>4. CASE Begin(t)
    BY <1>2, <1>4, TurnTypes DEF Begin, bots
  <1>5. CASE End(t)
    BY <1>2, <1>3, <1>5, TurnTypes DEF End, Active, Begin, bots
  <1>6. CASE Timeout(t)
    BY <1>2, <1>3, <1>6, TurnTypes DEF Timeout, Active, Begin, bots
  <1>7. ASSUME NEW c \in calls, Take(t, c) PROVE TypeInv'
    BY <1>2, <1>3, <1>7, TurnTypes DEF Take, Active, Begin, bots
  <1>. QED
    BY <1>1, <1>4, <1>5, <1>6, <1>7 DEF Work

LEMMA TypeNext == TypeInv /\ [Next]_vars => TypeInv'
  <1>. SUFFICES ASSUME TypeInv, [Next]_vars PROVE TypeInv'
    OBVIOUS
  <1>1. CASE UNCHANGED vars
    BY <1>1 DEF vars, bots, registry, TypeInv, BotTypes, RegTypes, CallsFit, Fits, Brought,
                JobInv, Active
  <1>2. ASSUME NEW c \in calls, Lose(c) PROVE TypeInv'
    <2>1. trouble' = trouble /\ UNCHANGED <<bots, job, registry>> /\ calls' \subseteq calls
      BY <1>2 DEF Lose
    <2>2. RegTypes' /\ trouble' \in 0..MaxTrouble
      BY <2>1 DEF RegTypes, registry, TypeInv, BotTypes
    <2>. QED
      BY <2>1, <2>2, FewerCalls, TypeRest DEF TypeInv
  <1>. QED
    BY <1>1, <1>2, TypeBots, TypeSv, TypeWork, TypeRegistry, TypeIntroduce DEF Next

LEMMA TypeInvariant == Spec => []TypeInv
  BY TypeInit, TypeNext, PTL DEF Spec

LEMMA OneThinks ==
    ASSUME NEW T, \A t, u \in T : t = u
    PROVE  Cardinality(T) <= 1
  <1>1. CASE T = {}
    BY <1>1, FS_EmptySet
  <1>2. CASE T # {}
    <2>1. PICK t : t \in T
      BY <1>2
    <2>2. T = {t}
      BY <2>1
    <2>3. Cardinality({t}) = 1
      BY FS_Singleton
    <2>. QED
      BY <2>2, <2>3
  <1>. QED
    BY <1>1, <1>2

\* Bots, registry, messages and tasks keep their types: a task that is not over belongs to a
\* bot that runs, and one task at most has the loop of a bot, through every delegation,
\* timeout and stop (node.py, transport.py).
THEOREM ContactTypes == Spec => []TypeOK
  <1>1. TypeInv => TypeOK
    <2>. SUFFICES ASSUME TypeInv PROVE TypeOK
      OBVIOUS
    <2>1. \A k \in Skaye :
             Cardinality({t \in Task : Owner[t] = k /\ job[t].at = "think"}) <= 1
      <3>. TAKE k \in Skaye
      <3>1. \A t, u \in {t \in Task : Owner[t] = k /\ job[t].at = "think"} : t = u
        BY DEF TypeInv, JobInv
      <3>. QED
        BY <3>1, OneThinks
    <2>. QED
      BY <2>1 DEF TypeOK, TypeInv, BotTypes, RegTypes, CallsFit, Fits, JobInv
  <1>. QED
    BY <1>1, TypeInvariant, PTL
-----------------------------------------------------------------------------
(* Files and whitelists.  A bot.yaml changes by the tools only.            *)

LEMMA Writers ==
    ASSUME TypeInv, [Next]_vars
    PROVE  \/ UNCHANGED <<file, whole>>
           \/ \E k \in Skaye, S \in SUBSET Contact : Saved(k, S)
           \/ \E c \in calls : Introduce(c)
  <1>1. ASSUME NEW t \in Task, UseTool(t), ~UNCHANGED <<file, whole>>
        PROVE  \E k \in Skaye, S \in SUBSET Contact : Saved(k, S)
    <2>1. PICK c \in ToolCalls(Owner[t]) : Rewrite(t, c)
      BY <1>1 DEF UseTool, Delegate, bots
    <2>. QED
      BY <1>1, <2>1, RewrittenPeers, ContactsAssumption DEF UseTool
  <1>. QED
    BY <1>1 DEF Next, vars, Start, Stop, SvStart, SvStop, Begin, Work, End, Timeout, Take,
                Record, List, Lose, bots

\* A tool changes the file of its own bot, to what it saves, or destroys it.
LEMMA OneFileIsSaved ==
    ASSUME TypeInv, NEW b \in Bot, NEW S \in SUBSET Contact, Saved(b, S)
    PROVE  /\ \A x \in Bot : whole'[x] => whole[x]
           /\ \A x \in Bot \ {b} : file'[x] = file[x] /\ whole'[x] = whole[x]
           /\ whole'[b] => file'[b] \in {S, file[b]}
  BY DEF Saved, Save, SaveFails, SaveDies, TypeInv, BotTypes

LEMMA WhitelistNext == TypeInv /\ WhitelistIsFile /\ [Next]_vars => WhitelistIsFile'
  <1>. SUFFICES ASSUME TypeInv, WhitelistIsFile, [Next]_vars PROVE WhitelistIsFile'
    OBVIOUS
  <1>1. ASSUME NEW b \in Bot, NEW S \in SUBSET Contact, Saved(b, S)
        PROVE  WhitelistIsFile'
    <2>1. CASE Save(b, S)
      BY <2>1 DEF Save, WhitelistIsFile, TypeInv, BotTypes
    <2>2. CASE SaveFails(b)
      BY <2>2 DEF SaveFails, WhitelistIsFile, TypeInv, BotTypes
    <2>3. CASE SaveDies(b, S)
      BY <2>3 DEF SaveDies, Gone, WhitelistIsFile, TypeInv, BotTypes
    <2>. QED
      BY <1>1, <2>1, <2>2, <2>3 DEF Saved
  <1>2. ASSUME NEW b \in Bot, Start(b) \/ Stop(b) PROVE WhitelistIsFile'
    BY <1>2 DEF Start, Stop, Gone, WhitelistIsFile, TypeInv, BotTypes
  <1>3. ASSUME UNCHANGED bots PROVE WhitelistIsFile'
    BY <1>3 DEF bots, WhitelistIsFile
  <1>4. ASSUME NEW t \in Task, UseTool(t) PROVE WhitelistIsFile'
    <2>1. CASE \E c \in ToolCalls(Owner[t]) : Delegate(t, c)
      BY <1>3, <2>1 DEF Delegate
    <2>2. CASE \E c \in ToolCalls(Owner[t]) : Rewrite(t, c)
      BY <1>1, <1>4, <2>2, RewrittenPeers DEF UseTool
    <2>. QED
      BY <1>4, <2>1, <2>2 DEF UseTool
  <1>5. ASSUME NEW c \in calls, Introduce(c) PROVE WhitelistIsFile'
    BY <1>1, <1>5, IntroducedPeers
  <1>. QED
    BY <1>2, <1>3, <1>4, <1>5
    DEF Next, vars, bots, SvStart, SvStop, Begin, Work, End, Timeout, Take, Record, List, Lose

\* The whitelist of a running bot is that of its bot.yaml, in every order of introductions,
\* removals, starts, stops and failed writes (_reload_peers, node.py).
THEOREM WhitelistsAreFiles == Spec => []WhitelistIsFile
  <1>1. Init => WhitelistIsFile
    BY ContactsAssumption DEF Init, WhitelistIsFile
  <1>. QED
    BY <1>1, WhitelistNext, TypeInvariant, PTL DEF Spec
-----------------------------------------------------------------------------
(* Islands.                                                                *)

\* What an introduction leaves of the family it drops is what it brings.
LEMMA IntroducedIsWhole ==
    ASSUME TypeInv, NEW c \in calls, Introduce(c),
           NEW S, S = Rewritten(c.to, Family(c.tool), c.arg)
    PROVE  /\ c.to \in Eiar => \E x : S \cap Sayi \subseteq {x}
           /\ c.to \in Sayi => S \cap Eiar \in {L \cap Eiar : L \in Lists}
           /\ c.to \notin Skaye
           /\ Sv \in file[c.to] => Sv \in S
  <1>0. Brought(c.tool, c.to, c.arg)
    BY IntroducedPeers DEF Fits
  <1>1. Sv \in file[c.to] => Sv \in S
    BY ContactsAssumption DEF Rewritten, Family, Bot
  <1>2. CASE c.tool = "set_sayi_contact"
    <2>1. c.to \in Eiar /\ \E x \in Contact : c.arg = {x}
      BY <1>0, <1>2 DEF Brought
    <2>2. S \cap Sayi \subseteq c.arg
      BY <1>2 DEF Rewritten, Family
    <2>. QED
      BY <1>1, <2>1, <2>2, ContactsAssumption
  <1>3. CASE c.tool = "set_eiar_contacts"
    <2>1. c.to \in Sayi /\ c.arg \in Lists
      BY <1>0, <1>3 DEF Brought
    <2>2. S \cap Eiar = c.arg \cap Eiar
      BY <1>3 DEF Rewritten, Family
    <2>. QED
      BY <1>1, <2>1, <2>2, ContactsAssumption
  <1>. QED
    BY <1>2, <1>3 DEF Introduce

LEMMA AtMostOne ==
    ASSUME NEW T, NEW x, T \subseteq {x}
    PROVE  Cardinality(T) <= 1
  <1>1. \A t, u \in T : t = u
    OBVIOUS
  <1>. QED
    BY <1>1, OneThinks

LEMMA IslandsNext == TypeInv /\ IslandsKept /\ [Next]_vars => IslandsKept'
  <1>. SUFFICES ASSUME TypeInv, IslandsKept, [Next]_vars PROVE IslandsKept'
    OBVIOUS
  <1>1. CASE UNCHANGED <<file, whole>>
    BY <1>1 DEF IslandsKept
  <1>2. ASSUME NEW k \in Skaye, NEW S \in SUBSET Contact, Saved(k, S)
        PROVE  IslandsKept'
    <2>1. k \in Bot /\ k \notin Eiar /\ k \notin Sayi
      BY ContactsAssumption DEF Bot
    <2>2. /\ \A x \in Bot : whole'[x] => whole[x]
          /\ \A x \in Bot \ {k} : file'[x] = file[x]
      BY <1>2, <2>1, OneFileIsSaved
    <2>3. \A x \in Eiar \cup Sayi : x \in Bot \ {k} /\ file'[x] = file[x] /\ (whole'[x] => whole[x])
      BY <2>1, <2>2 DEF Bot
    <2>. QED
      BY <2>3 DEF IslandsKept
  <1>3. ASSUME NEW c \in calls, Introduce(c) PROVE IslandsKept'
    <2> DEFINE S == Rewritten(c.to, Family(c.tool), c.arg)
    <2>1. c.to \in Bot /\ S \in SUBSET Contact /\ Saved(c.to, S)
      BY <1>3, IntroducedPeers
    <2>2. /\ \A x \in Bot : whole'[x] => whole[x]
          /\ \A x \in Bot \ {c.to} : file'[x] = file[x]
          /\ whole'[c.to] => file'[c.to] \in {S, file[c.to]}
      BY <2>1, OneFileIsSaved
    <2> HIDE DEF S
    <2>7. /\ c.to \in Eiar => \E x : S \cap Sayi \subseteq {x}
          /\ c.to \in Sayi => S \cap Eiar \in {L \cap Eiar : L \in Lists}
          /\ Sv \in file[c.to] => Sv \in S
      BY <1>3, IntroducedIsWhole DEF S
    <2>3. c.to \in Eiar => Cardinality(S \cap Sayi) <= 1
      BY <2>7, AtMostOne
    <2>4. ASSUME NEW e \in Eiar, whole'[e] PROVE Cardinality(file'[e] \cap Sayi) <= 1
      <3>1. e \in Bot
        BY DEF Bot
      <3>. QED
        BY <2>2, <2>3, <2>4, <3>1 DEF IslandsKept
    <2>5. ASSUME NEW s \in Sayi, whole'[s]
          PROVE  file'[s] \cap Eiar \in {Peers0[s] \cap Eiar}
                                        \cup {L \cap Eiar : L \in Lists}
      <3>1. s \in Bot
        BY DEF Bot
      <3>. QED
        BY <2>2, <2>7, <2>5, <3>1 DEF IslandsKept
    <2>6. ASSUME NEW b \in Eiar \cup Sayi, whole'[b], Sv \in Peers0[b] PROVE Sv \in file'[b]
      <3>1. b \in Bot
        BY DEF Bot
      <3>. QED
        BY <2>2, <2>7, <2>6, <3>1 DEF IslandsKept
    <2>. QED
      BY <2>4, <2>5, <2>6 DEF IslandsKept
  <1>. QED
    BY <1>1, <1>2, <1>3, Writers

\* Whitelists that are islands at first stay so, whatever the models of the Skaye bots call
\* in which order and however many work on the same bots: an introduction replaces a
\* contact and never adds to the earlier ones (contact_tools.py).
THEOREM IslandsStay == Spec /\ IslandsKept => []IslandsKept
  BY IslandsNext, TypeInvariant, PTL DEF Spec
-----------------------------------------------------------------------------
(* The registry.                                                           *)

LEMMA RegistryNext == RegistryKnowsFile /\ [Next]_vars => RegistryKnowsFile'
  <1>. SUFFICES ASSUME RegistryKnowsFile, [Next]_vars PROVE RegistryKnowsFile'
    OBVIOUS
  <1>1. CASE UNCHANGED registry
    BY <1>1 DEF registry, RegistryKnowsFile
  <1>2. CASE SvStart \/ SvStop
    BY <1>2 DEF SvStart, SvStop, Loaded, RegistryKnowsFile
  <1>3. ASSUME NEW c \in calls, Record(c) \/ List(c) PROVE RegistryKnowsFile'
    <2>1. svUp
      BY <1>3 DEF Record, List
    <2>2. \/ \E R : reg \subseteq R /\ (Written(R) \/ WriteFails(R))
          \/ SvTear \/ UNCHANGED registry
      BY <1>3 DEF Record, List
    <2>3. ASSUME NEW R, reg \subseteq R, Written(R) \/ WriteFails(R)
          PROVE  RegistryKnowsFile'
      BY <2>1, <2>3 DEF Written, WriteFails, RegistryKnowsFile
    <2>. QED
      BY <1>1, <2>2, <2>3 DEF SvTear, RegistryKnowsFile
  <1>. QED
    BY <1>1, <1>2, <1>3
    DEF Next, vars, registry, Start, Stop, Begin, Work, UseTool, Delegate, Rewrite, End,
        Timeout, Take, Introduce, Lose

\* No registration that is on disk is missing in the memory of a running skaye_sv, by which
\* the file is written again, however often it stops, dies in a write or has a write fail
\* (RegistryStore, sv_tools.py).
THEOREM RegistryIsNotBehind == Spec => []RegistryKnowsFile
  <1>1. Init => RegistryKnowsFile
    BY DEF Init, RegistryKnowsFile
  <1>. QED
    BY <1>1, RegistryNext, PTL DEF Spec
=============================================================================
