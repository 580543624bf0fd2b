-------------------------- MODULE TaskArchive_proofs --------------------------
(***************************************************************************)
(* Theorems about TaskArchive, for chains of any length and any number of  *)
(* lost reports and restarts.                                              *)
(***************************************************************************)
EXTENDS TaskArchive, TLAPS

Reports == [bot : Bot, at : Nat, trace : SUBSET Hop, logs : SUBSET Bot]

-------------------------------------------------------------------------------
(* Types.                                                                  *)

\* TypeOK bounds the time of a report by the clock; this one does not, so that
\* it names a set.
TypeInv ==
    /\ TypeOK
    /\ sent \subseteq Reports /\ arrived \subseteq Reports
    /\ index \in [bot : Bot, at : Nat] \cup {NoFile}

LEMMA HopsAreHops ==
    ASSUME NEW i \in Bot
    PROVE  Asks(i) \in Hop /\ Returns(i) \in Hop
  BY DEF Asks, Returns, Hop

\* What add_task writes is an archive, whatever was there before.
LEMMA MergedIsContent ==
    ASSUME TypeInv, NEW r \in sent
    PROVE  /\ Merged(r) \in Content
           /\ Merged(r) \notin {NoFile, Torn}
           /\ Merged(r).last = Latest(r) /\ Latest(r) \in [bot : Bot, at : Nat]
  <1>1. r \in Reports
    BY DEF TypeInv
  <1>2. Latest(r) \in [bot : Bot, at : Nat]
    BY <1>1 DEF Latest, Reports
  <1>3. Readable => file \in Content
    BY DEF TypeInv, TypeOK, Readable
  <1>4. Merged(r) \in Content
    BY <1>1, <1>2, <1>3 DEF Merged, Content, Reports
  <1>. QED
    BY <1>2, <1>4, NoFileAssumption DEF Merged

LEMMA TypeInit == Init => TypeInv
  BY TaskArchiveAssumption DEF Init, TypeInv, TypeOK, Bot, Hop, Content, Reports

LEMMA TypeBots ==
    ASSUME TypeInv, NEW i \in Bot, Receive(i) \/ Delegate(i) \/ Resume(i) \/ Finish(i)
    PROVE  TypeInv'
  <1>1. CASE Receive(i)
    BY <1>1, HopsAreHops DEF Receive, archive, TypeInv, TypeOK
  <1>2. CASE Delegate(i)
    <2>1. i + 1 \in Bot
      BY <1>2, TaskArchiveAssumption DEF Delegate, Bot
    <2>2. Asks(i + 1) \in Hop
      BY <2>1, HopsAreHops
    <2>. QED
      BY <1>2, <2>1, <2>2 DEF Delegate, archive, TypeInv, TypeOK
  <1>3. CASE Resume(i)
    BY <1>3 DEF Resume, archive, TypeInv, TypeOK
  <1>4. CASE Finish(i)
    BY <1>4, HopsAreHops DEF Finish, archive, TypeInv, TypeOK
  <1>. QED
    BY <1>1, <1>2, <1>3, <1>4

LEMMA TypeReport ==
    ASSUME TypeInv, NEW d \in due, Report(d)
    PROVE  TypeInv'
  <1>1. d[1] \in Bot /\ trace[d[1]] \in SUBSET Hop
    BY DEF TypeInv, TypeOK
  <1>2. clock \in Nat /\ clock' = clock + 1
    BY DEF Report, TypeInv, TypeOK
  <1>3. \A r \in sent' \cup arrived' :
           r.bot \in Bot /\ r.at \in 1..clock' /\ r.trace \subseteq Hop /\ r.logs \subseteq Bot
    <2>. SUFFICES ASSUME NEW r \in sent' \cup arrived'
         PROVE r.bot \in Bot /\ r.at \in 1..clock' /\ r.trace \subseteq Hop /\ r.logs \subseteq Bot
      OBVIOUS
    <2>1. CASE r \in sent \cup arrived
      BY <1>2, <2>1 DEF TypeInv, TypeOK
    <2>2. CASE r \notin sent \cup arrived
      <3>1. r = [bot |-> d[1], at |-> clock + 1, trace |-> trace[d[1]], logs |-> {d[1]}]
        BY <2>2 DEF Report, archive
      <3>. QED
        BY <1>1, <1>2, <3>1
    <2>. QED
      BY <2>1, <2>2
  <1>4. sent' \subseteq Reports
    BY <1>1, <1>2 DEF Report, Reports, TypeInv
  <1>. QED
    BY <1>2, <1>3, <1>4 DEF Report, archive, TypeInv, TypeOK

LEMMA TypeArchive ==
    ASSUME TypeInv, Restart \/ \E r \in sent : Lose(r) \/ Store(r) \/ Tear(r)
    PROVE  TypeInv'
  <1>1. CASE Restart
    BY <1>1 DEF Restart, bots, Loaded, Content, TypeInv, TypeOK
  <1>2. ASSUME NEW r \in sent, Lose(r) PROVE TypeInv'
    BY <1>2 DEF Lose, bots, archive, TypeInv, TypeOK
  <1>3. ASSUME NEW r \in sent, Store(r) PROVE TypeInv'
    BY <1>3, MergedIsContent DEF Store, bots, TypeInv, TypeOK
  <1>4. ASSUME NEW r \in sent, Tear(r) PROVE TypeInv'
    BY <1>4 DEF Tear, Loaded, bots, TypeInv, TypeOK
  <1>. QED
    BY <1>1, <1>2, <1>3, <1>4

LEMMA TypeNext == TypeInv /\ [Next]_vars => TypeInv'
  <1>. SUFFICES ASSUME TypeInv, [Next]_vars PROVE TypeInv'
    OBVIOUS
  <1>1. CASE Next
    BY <1>1, TypeBots, TypeReport, TypeArchive DEF Next
  <1>2. CASE UNCHANGED vars
    BY <1>2 DEF vars, TypeInv, TypeOK
  <1>. QED
    BY <1>1, <1>2

LEMMA TypeInvariant == Spec => []TypeInv
  <1>. QED
    BY TypeInit, TypeNext, PTL DEF Spec

\* What skaye_sv stores is an archive, a torn file or none, made of reports of
\* the chain's bots.
THEOREM ArchiveTypes == Spec => []TypeOK
  <1>1. TypeInv => TypeOK
    BY DEF TypeInv
  <1>. QED
    BY <1>1, TypeInvariant, PTL

-------------------------------------------------------------------------------
(* The file and the reports.                                               *)

LEMMA UnionInit == Init => ArchiveIsUnion
  BY DEF Init, ArchiveIsUnion, Readable

\* Merging one more report adds its logs and hops, and nothing else.
LEMMA UnionStore ==
    ASSUME TypeInv, ArchiveIsUnion, NEW r \in sent, Store(r)
    PROVE  ArchiveIsUnion'
  <1>1. Readable'
    BY MergedIsContent DEF Store, Readable
  <1>2. UNION {q.logs : q \in arrived'} = r.logs \cup UNION {q.logs : q \in arrived}
    BY DEF Store
  <1>3. UNION {q.trace : q \in arrived'} = r.trace \cup UNION {q.trace : q \in arrived}
    BY DEF Store
  <1>4. CASE Readable
    BY <1>1, <1>2, <1>3, <1>4 DEF ArchiveIsUnion, Store, Merged
  <1>5. CASE ~ Readable
    BY <1>1, <1>2, <1>3, <1>5 DEF ArchiveIsUnion, Store, Merged
  <1>. QED
    BY <1>4, <1>5

LEMMA UnionNext == TypeInv /\ ArchiveIsUnion /\ [Next]_vars => ArchiveIsUnion'
  <1>. SUFFICES ASSUME TypeInv, ArchiveIsUnion, [Next]_vars PROVE ArchiveIsUnion'
    OBVIOUS
  <1>1. CASE UNCHANGED <<file, arrived>>
    BY <1>1 DEF ArchiveIsUnion, Readable
  <1>2. ASSUME NEW r \in sent, Store(r) PROVE ArchiveIsUnion'
    BY <1>2, UnionStore
  <1>3. ASSUME NEW r \in sent, Tear(r) PROVE ArchiveIsUnion'
    BY <1>3 DEF Tear, ArchiveIsUnion, Readable
  <1>. QED
    BY <1>1, <1>2, <1>3
       DEF Next, Receive, Delegate, Resume, Finish, Report, Lose, Restart, archive, vars

\* The file has the logs and the hops of all reports that were merged since it
\* was last destroyed, whatever their order, and nothing else.
THEOREM ArchiveIsTheUnion == Spec => []ArchiveIsUnion
  <1>. QED
    BY TypeInvariant, UnionInit, UnionNext, PTL DEF Spec

-------------------------------------------------------------------------------
(* The traces.                                                             *)

\* The part of the round trip that ends at bot i.
Asked(i) == {Asks(k) : k \in 1..i}

\* The bots are reached one after the other.  The trace that reaches a bot has
\* the requests up to the one that asked it, once it works its own as well, and
\* a report that is scheduled or made also has the answer.
TraceInv ==
    /\ \A i, j \in Bot :
          i < j /\ stage[i] \in {"idle", "sent", "working"} => stage[j] = "idle"
    /\ \A i \in Bot : stage[i] = "sent" => Asked(i - 1) \subseteq trace[i]
    /\ \A i \in Bot : stage[i] \notin {"idle", "sent"} => Asked(i) \subseteq trace[i]
    /\ \A d \in due : stage[d[1]] = "over" /\ Returns(d[1]) \in trace[d[1]]
    /\ \A r \in sent \cup arrived : Asked(r.bot) \cup {Returns(r.bot)} \subseteq r.trace

LEMMA AskedSteps ==
    ASSUME NEW i \in Bot
    PROVE  Asked(i) = Asked(i - 1) \cup {Asks(i)}
  <1>1. 1..i = (1..(i - 1)) \cup {i}
    BY TaskArchiveAssumption DEF Bot
  <1>. QED
    BY <1>1 DEF Asked

LEMMA TraceInit == Init => TraceInv
  <1>. SUFFICES ASSUME Init PROVE TraceInv
    OBVIOUS
  <1>1. Asked(0) = {}
    BY DEF Asked
  <1>2. \A i \in Bot : IF i = 1 THEN stage[i] = "sent" /\ i - 1 = 0 ELSE stage[i] = "idle"
    BY TaskArchiveAssumption DEF Init, Bot
  <1>3. \A i, j \in Bot : i < j => j # 1
    BY TaskArchiveAssumption DEF Bot
  <1>. QED
    BY <1>1, <1>2, <1>3 DEF Init, TraceInv

LEMMA TraceBots ==
    ASSUME TypeInv, TraceInv, NEW i \in Bot,
           Receive(i) \/ Delegate(i) \/ Resume(i) \/ Finish(i)
    PROVE  TraceInv'
  <1>1. CASE Receive(i)
    BY <1>1, AskedSteps DEF Receive, archive, TraceInv, TypeInv, TypeOK
  <1>2. CASE Delegate(i)
    <2>1. i + 1 \in Bot /\ i + 1 # i /\ (i + 1) - 1 = i
      BY <1>2, TaskArchiveAssumption DEF Delegate, Bot
    <2>2. Asked(i) \subseteq trace[i]
      BY <1>2 DEF Delegate, TraceInv
    <2>3. \A d \in due : d[1] \in Bot \ {i, i + 1}
      BY <1>2, <2>1, TaskArchiveAssumption DEF Delegate, TraceInv, TypeInv, TypeOK, Bot
    <2>4. /\ stage' = [stage EXCEPT ![i] = "waiting", ![i + 1] = "sent"]
          /\ \A j \in Bot : trace[j] \subseteq trace'[j] \/ j = i + 1
          /\ Asked(i) \subseteq trace'[i] /\ Asked(i) \subseteq trace'[i + 1]
          /\ UNCHANGED <<due, sent, arrived>>
      BY <1>2, <2>1, <2>2 DEF Delegate, archive, TypeInv, TypeOK
    <2>5. \A j, k \in Bot :
             j < k /\ stage'[j] \in {"idle", "sent", "working"} => stage'[k] = "idle"
      <3>. SUFFICES ASSUME NEW j \in Bot, NEW k \in Bot,
                           j < k, stage'[j] \in {"idle", "sent", "working"}
           PROVE  stage'[k] = "idle"
        OBVIOUS
      <3>1. stage[i] = "working" /\ DOMAIN stage = Bot
        BY <1>2 DEF Delegate, TypeInv, TypeOK
      <3>2. j # i /\ i \in Nat /\ j \in Nat /\ k \in Nat
        BY <2>1, <2>4, <3>1, TaskArchiveAssumption DEF Bot
      <3>3. ~ (j < i)
        BY <2>1, <2>4, <3>1, <3>2 DEF TraceInv
      <3>4. i < k /\ k # i + 1
        BY <3>2, <3>3
      <3>. QED
        BY <2>4, <3>1, <3>4 DEF TraceInv
    <2>6. \A j \in Bot : stage'[j] = "sent" => Asked(j - 1) \subseteq trace'[j]
      BY <2>1, <2>4 DEF TraceInv, TypeInv, TypeOK
    <2>7. \A j \in Bot : stage'[j] \notin {"idle", "sent"} => Asked(j) \subseteq trace'[j]
      BY <2>1, <2>2, <2>4 DEF TraceInv, TypeInv, TypeOK
    <2>8. \A d \in due' : stage'[d[1]] = "over" /\ Returns(d[1]) \in trace'[d[1]]
      BY <2>1, <2>3, <2>4 DEF TraceInv, TypeInv, TypeOK
    <2>. QED
      BY <2>4, <2>5, <2>6, <2>7, <2>8 DEF TraceInv
  <1>3. CASE Resume(i)
    BY <1>3 DEF Resume, archive, TraceInv, TypeInv, TypeOK
  <1>4. CASE Finish(i)
    BY <1>4 DEF Finish, archive, TraceInv, TypeInv, TypeOK
  <1>. QED
    BY <1>1, <1>2, <1>3, <1>4

LEMMA TraceNext == TypeInv /\ TraceInv /\ [Next]_vars => TraceInv'
  <1>. SUFFICES ASSUME TypeInv, TraceInv, [Next]_vars PROVE TraceInv'
    OBVIOUS
  <1>1. ASSUME NEW i \in Bot, Receive(i) \/ Delegate(i) \/ Resume(i) \/ Finish(i)
        PROVE TraceInv'
    BY <1>1, TraceBots
  <1>2. ASSUME NEW d \in due, Report(d) PROVE TraceInv'
    <2>1. Asked(d[1]) \cup {Returns(d[1])} \subseteq trace[d[1]]
      BY DEF TraceInv, TypeInv, TypeOK
    <2>. QED
      BY <1>2, <2>1 DEF Report, archive, TraceInv
  <1>3. ASSUME NEW r \in sent, Lose(r) \/ Store(r) \/ Tear(r) PROVE TraceInv'
    BY <1>3 DEF Lose, Store, Tear, bots, archive, TraceInv
  <1>4. CASE Restart \/ UNCHANGED vars
    BY <1>4 DEF Restart, bots, vars, TraceInv
  <1>. QED
    BY <1>1, <1>2, <1>3, <1>4 DEF Next

\* Every bot of which a report was merged is in the archive with its whole
\* part of the round trip: the requests up to it, and its answer.
THEOREM RoundTripIsShown == Spec => []RoundTripShown
  <1>1. ArchiveIsUnion /\ TypeInv /\ TraceInv => RoundTripShown
    <2>. SUFFICES ASSUME ArchiveIsUnion, TypeInv, TraceInv, NEW r \in arrived
         PROVE  /\ \A i \in 1..r.bot : Asks(i) \in file.trace
                /\ Returns(r.bot) \in file.trace
      BY DEF RoundTripShown
    <2>1. r.trace \subseteq file.trace
      BY DEF ArchiveIsUnion
    <2>2. Asked(r.bot) \cup {Returns(r.bot)} \subseteq r.trace
      BY DEF TraceInv
    <2>. QED
      BY <2>1, <2>2 DEF Asked
  <1>. QED
    BY <1>1, TypeInvariant, ArchiveIsTheUnion, TraceInit, TraceNext, PTL DEF Spec

-------------------------------------------------------------------------------
(* The index.                                                              *)

LEMMA IndexNext == TypeInv /\ IndexAgrees /\ [Next]_vars => IndexAgrees'
  <1>. SUFFICES ASSUME TypeInv, IndexAgrees, [Next]_vars PROVE IndexAgrees'
    OBVIOUS
  <1>1. CASE UNCHANGED <<file, index>>
    BY <1>1 DEF IndexAgrees, Loaded
  <1>2. ASSUME NEW r \in sent, Store(r) PROVE IndexAgrees'
    BY <1>2, MergedIsContent DEF Store, IndexAgrees, Loaded
  <1>3. ASSUME NEW r \in sent, Tear(r) PROVE IndexAgrees'
    BY <1>3 DEF Tear, IndexAgrees, Loaded
  <1>4. CASE Restart
    BY <1>4 DEF Restart, IndexAgrees, Loaded
  <1>. QED
    BY <1>1, <1>2, <1>3, <1>4
       DEF Next, Receive, Delegate, Resume, Finish, Report, Lose, archive, vars

\* The list of tasks that skaye_sv keeps in memory tells what the file tells,
\* through every report, restart and torn write.
THEOREM IndexIsTheFiles == Spec => []IndexAgrees
  <1>1. Init => IndexAgrees
    BY DEF Init, IndexAgrees, Loaded
  <1>. QED
    BY <1>1, TypeInvariant, IndexNext, PTL DEF Spec
===============================================================================
