------------------------- MODULE AgentSession_proofs -------------------------
(***************************************************************************)
(* Proofs about module AgentSession, for any number of peers, turns, steps *)
(* and calls: its types, the one system prompt of a session, that every    *)
(* call is answered where and when it must be, and that the API refuses a  *)
(* request only where turns of one peer got into each other.               *)
(*                                                                         *)
(* A session is only appended to, and all of a turn's messages are its     *)
(* own, so what is known of the messages a turn has is stated by their     *)
(* places among the turn's messages, which no other turn's step changes.   *)
(***************************************************************************)
EXTENDS AgentSession, FiniteSetTheorems, SequenceTheorems, TLAPS

Busy(t) == pc[t] \in {"ask", "tools"}

\* A turn counts its steps from one, and has calls to run only between its choice and the
\* last result.
Pending(t) ==
    /\ pc[t] # "queued" => step[t] # 0
    /\ todo[t] # <<>> => pc[t] \in {"tools", "await"}
    /\ pc[t] = "await" => todo[t] # <<>>

TypeInv ==
    /\ TypeOK
    /\ \A p \in Peer : \A i \in 1..Len(log[p]) : Session(log[p][i].turn) = p
    /\ \A t \in Turn : Pending(t)

\* The message whose calls a turn has not run to the end: what follows it in the turn are
\* the results of the others.
Open(t, i) ==
    LET n == Len(CallsAt(t, i)) - Len(todo[t])
    IN  /\ todo[t] # <<>>
        /\ Since(t, i, Len(log[Session(t)])) = n
        /\ \A k \in 1..Len(todo[t]) : todo[t][k] = CallsAt(t, i)[n + k]

\* CallsAnsweredInOrder also holds of a turn that is not over, but for what is still to run.
Called(t) ==
    /\ \A i \in Places(t, "assistant") : \A k \in 1..Len(CallsAt(t, i)) :
          Answered(t, i, k) \/ (Open(t, i) /\ k > Len(CallsAt(t, i)) - Len(todo[t]))
    /\ todo[t] # <<>> => \E i \in Places(t, "assistant") : Open(t, i)
    /\ \A j \in Places(t, "result") : \E i \in Places(t, "assistant") :
          Since(t, i, j) \in 1..Len(CallsAt(t, i))

CallInv == \A t \in Turn : Called(t)

\* A turn has the loop from its first message on until it awaits or ends, and the last
\* message of its session is its own then.
HasLoop ==
    /\ \A t, u \in Turn : Busy(t) /\ Busy(u) => t = u
    /\ \A t \in Turn : Busy(t) =>
          /\ Len(log[Session(t)]) > 0
          /\ log[Session(t)][Len(log[Session(t)])].turn = t

\* A message of another turn follows one of u's.
Overtaken(u) ==
    \E i, j \in 1..Len(log[Session(u)]) :
        i < j /\ log[Session(u)][i].turn = u /\ log[Session(u)][j].turn # u

RefusalInv ==
    /\ HasLoop
    /\ \A t \in Turn : reason[t] = "refused" =>
          \/ Interrupted(Session(t))
          \/ \E u \in Turn \ {t} : Session(u) = Session(t) /\ todo[u] # <<>> /\ Overtaken(u)

-----------------------------------------------------------------------------
(* What a step appends.                                                    *)

\* t appends the messages ms to its session.
Appends(t, ms) ==
    /\ ms \in Seq(Entry)
    /\ \A i \in 1..Len(ms) : ms[i].turn = t
    /\ log' = Appended(t, ms)

\* The sessions after a step of t: t's own may have more messages, of t.
Grown(t) ==
    /\ log' \in [Peer -> Seq(Entry)]
    /\ \A p \in Peer :
          /\ Len(log'[p]) >= Len(log[p])
          /\ \A i \in 1..Len(log[p]) : log'[p][i] = log[p][i]
          /\ \A i \in 1..Len(log'[p]) : i \in 1..Len(log[p]) \/ (p = Session(t) /\ log'[p][i].turn = t)

LEMMA SessionIsPeer == \A t \in Turn : Session(t) \in Peer
  BY AgentSessionAssumption DEF Session

LEMMA LogGrows ==
    ASSUME TypeOK, NEW t \in Turn, NEW ms \in Seq(Entry), log' = Appended(t, ms)
    PROVE  LET p == Session(t) IN
           /\ log' \in [Peer -> Seq(Entry)]
           /\ \A q \in Peer \ {p} : log'[q] = log[q]
           /\ Len(log[p]) \in Nat /\ Len(log'[p]) = Len(log[p]) + Len(ms)
           /\ \A i \in 1..Len(log[p]) : log'[p][i] = log[p][i]
           /\ \A i \in 1..Len(ms) : log'[p][Len(log[p]) + i] = ms[i]
  <1> DEFINE p == Session(t)
  <1>1. p \in Peer /\ log[p] \in Seq(Entry) /\ Len(ms) \in Nat /\ Len(log[p]) \in Nat
    BY SessionIsPeer, LenProperties DEF TypeOK
  <1>2. log' = [log EXCEPT ![p] = log[p] \o ms]
    BY DEF Appended
  <1>3. /\ log[p] \o ms \in Seq(Entry) /\ Len(log[p] \o ms) = Len(log[p]) + Len(ms)
        /\ \A i \in 1..(Len(log[p]) + Len(ms)) :
              (log[p] \o ms)[i] = IF i <= Len(log[p]) THEN log[p][i] ELSE ms[i - Len(log[p])]
    BY <1>1, ConcatProperties
  <1>4. log'[p] = log[p] \o ms /\ log' \in [Peer -> Seq(Entry)]
           /\ \A q \in Peer \ {p} : log'[q] = log[q]
    BY <1>1, <1>2, <1>3 DEF TypeOK
  <1>5. \A i \in 1..Len(log[p]) : log'[p][i] = log[p][i]
    BY <1>1, <1>3, <1>4
  <1>6. \A i \in 1..Len(ms) : log'[p][Len(log[p]) + i] = ms[i]
    <2>. SUFFICES ASSUME NEW i \in 1..Len(ms)
                  PROVE  log'[p][Len(log[p]) + i] = ms[i]
      OBVIOUS
    <2>1. Len(log[p]) + i \in 1..(Len(log[p]) + Len(ms)) /\ ~(Len(log[p]) + i <= Len(log[p]))
             /\ Len(log[p]) + i - Len(log[p]) = i
      BY <1>1
    <2>. QED
      BY <1>3, <1>4, <2>1
  <1>. QED
    BY <1>1, <1>3, <1>4, <1>5, <1>6

\* One message more.
LEMMA OneMore ==
    ASSUME TypeOK, NEW t \in Turn, NEW m \in Entry, Appends(t, <<m>>)
    PROVE  LET p == Session(t) IN
           /\ \A q \in Peer \ {p} : log'[q] = log[q]
           /\ Len(log[p]) \in Nat /\ Len(log'[p]) = Len(log[p]) + 1
           /\ \A i \in 1..Len(log[p]) : log'[p][i] = log[p][i]
           /\ log'[p][Len(log[p]) + 1] = m
  <1> DEFINE p == Session(t)
             ms == <<m>>
  <1>1. ms \in Seq(Entry) /\ log' = Appended(t, ms) /\ Len(ms) = 1 /\ ms[1] = m
    BY DEF Appends
  <1> HIDE DEF ms
  <1>2. /\ \A q \in Peer \ {p} : log'[q] = log[q]
        /\ Len(log[p]) \in Nat /\ Len(log'[p]) = Len(log[p]) + Len(ms)
        /\ \A i \in 1..Len(log[p]) : log'[p][i] = log[p][i]
        /\ \A i \in 1..Len(ms) : log'[p][Len(log[p]) + i] = ms[i]
    BY <1>1, LogGrows
  <1>. QED
    BY <1>1, <1>2

LEMMA AppendsGrows ==
    ASSUME TypeOK, NEW t \in Turn, NEW ms, Appends(t, ms)
    PROVE  Grown(t)
  <1> DEFINE p == Session(t)
  <1>1. /\ ms \in Seq(Entry) /\ Len(ms) \in Nat /\ \A i \in 1..Len(ms) : ms[i].turn = t
        /\ log' = Appended(t, ms)
    BY LenProperties DEF Appends
  <1>2. /\ log' \in [Peer -> Seq(Entry)]
        /\ \A q \in Peer \ {p} : log'[q] = log[q]
        /\ Len(log[p]) \in Nat /\ Len(log'[p]) = Len(log[p]) + Len(ms)
        /\ \A i \in 1..Len(log[p]) : log'[p][i] = log[p][i]
        /\ \A i \in 1..Len(ms) : log'[p][Len(log[p]) + i] = ms[i]
    BY <1>1, LogGrows
  <1>3. \A q \in Peer : Len(log[q]) \in Nat
    BY LenProperties DEF TypeOK
  <1>4. \A i \in 1..Len(log'[p]) : i \in 1..Len(log[p]) \/ log'[p][i].turn = t
    <2>. SUFFICES ASSUME NEW i \in 1..Len(log'[p]), i \notin 1..Len(log[p])
                  PROVE  log'[p][i].turn = t
      OBVIOUS
    <2>1. i - Len(log[p]) \in 1..Len(ms) /\ Len(log[p]) + (i - Len(log[p])) = i
      BY <1>1, <1>2
    <2>2. log'[p][i] = ms[i - Len(log[p])]
      BY <1>2, <2>1
    <2>. QED
      BY <1>1, <2>1, <2>2
  <1>. QED
    BY <1>1, <1>2, <1>3, <1>4 DEF Grown

LEMMA SameLogGrows ==
    ASSUME TypeOK, log' = log, NEW t \in Turn
    PROVE  Grown(t)
  <1>1. \A q \in Peer : Len(log[q]) \in Nat
    BY LenProperties DEF TypeOK
  <1>. QED
    BY <1>1 DEF Grown, TypeOK

LEMMA MessageIsEntry ==
    ASSUME NEW t \in Turn, NEW ids \in Seq(Id), NEW kind \in {"system", "user", "assistant", "result"}
    PROVE  /\ Message(kind, t, ids) \in Entry /\ Message(kind, t, ids).kind = kind
           /\ Message(kind, t, ids).turn = t /\ Message(kind, t, ids).ids = ids
  BY DEF Message, Entry

LEMMA CallIdsTyped ==
    ASSUME TypeOK, NEW t \in Turn, step[t] # 0, NEW n \in 1..MaxCalls
    PROVE  CallIds(t, n) \in Seq(Id) /\ Len(CallIds(t, n)) = n
  <1>1. step[t] \in 1..MaxSteps
    BY AgentSessionAssumption DEF TypeOK
  <1>2. \A i \in 1..n : <<t, step[t], i>> \in Id
    BY <1>1, AgentSessionAssumption DEF Id
  <1>3. n \in Nat
    BY AgentSessionAssumption
  <1>. QED
    BY <1>2, <1>3 DEF CallIds

\* The messages of the steps that append.
LEMMA OneMessage ==
    ASSUME NEW t \in Turn, NEW ids \in Seq(Id), NEW kind \in {"system", "user", "assistant", "result"},
           log' = Appended(t, <<Message(kind, t, ids)>>)
    PROVE  Appends(t, <<Message(kind, t, ids)>>)
  BY MessageIsEntry DEF Appends

LEMMA BeginAppends ==
    ASSUME NEW t \in Turn, Begin(t)
    PROVE  LET sys == Message("system", t, <<>>)
               user == Message("user", t, <<>>)
           IN  /\ \/ ~HasSystem(t) /\ Appends(t, <<sys>> \o <<user>>)
                  \/ HasSystem(t) /\ Appends(t, <<user>>)
               /\ <<sys>> \o <<user>> \in Seq(Entry) /\ Len(<<sys>> \o <<user>>) = 2
               /\ (<<sys>> \o <<user>>)[1] = sys /\ (<<sys>> \o <<user>>)[2] = user
  <1> DEFINE sys == Message("system", t, <<>>)
             user == Message("user", t, <<>>)
  <1>1. <<>> \in Seq(Id)
    OBVIOUS
  <1>2. /\ sys \in Entry /\ user \in Entry /\ sys.turn = t /\ user.turn = t
        /\ HasSystem(t) => log' = Appended(t, <<>> \o <<user>>)
        /\ ~HasSystem(t) => log' = Appended(t, <<sys>> \o <<user>>)
    BY ZenonT(30), <1>1, MessageIsEntry DEF Begin
  <1> HIDE DEF sys, user
  <1>3. <<sys>> \in Seq(Entry) /\ <<user>> \in Seq(Entry) /\ <<>> \o <<user>> = <<user>>
    BY <1>2, ConcatEmptySeq
  <1>4. /\ <<sys>> \o <<user>> \in Seq(Entry) /\ Len(<<sys>> \o <<user>>) = 2
        /\ (<<sys>> \o <<user>>)[1] = sys /\ (<<sys>> \o <<user>>)[2] = user
    BY <1>2, <1>3, ConcatProperties
  <1>5. CASE HasSystem(t)
    BY <1>2, <1>3, <1>5, <1>4 DEF Appends, sys, user
  <1>6. CASE ~HasSystem(t)
    <2>1. \A i \in 1..Len(<<sys>> \o <<user>>) : (<<sys>> \o <<user>>)[i].turn = t
      BY <1>2, <1>4
    <2>. QED
      BY <1>2, <1>4, <1>6, <2>1 DEF Appends, sys, user
  <1>. QED
    BY <1>5, <1>6

-----------------------------------------------------------------------------
(* Types.                                                                  *)

\* What t's step does to t, and that it does nothing else to the others.
Alone(t) ==
    \A u \in Turn \ {t} :
        pc'[u] = pc[u] /\ step'[u] = step[u] /\ todo'[u] = todo[u] /\ reason'[u] = reason[u]

\* A result takes the first of the calls off the list.
LEMMA ResultAppends ==
    ASSUME TypeInv, NEW t \in Turn, todo[t] # <<>>, Result(t)
    PROVE  /\ Head(todo[t]) = todo[t][1] /\ Head(todo[t]) \in Id
           /\ Appends(t, <<Message("result", t, <<Head(todo[t])>>)>>)
           /\ todo' = [todo EXCEPT ![t] = Tail(@)]
           /\ Len(todo[t]) \in Nat \ {0}
           /\ Tail(todo[t]) \in Seq(Id) /\ Len(Tail(todo[t])) = Len(todo[t]) - 1
           /\ \A k \in 1..(Len(todo[t]) - 1) : Tail(todo[t])[k] = todo[t][k + 1]
           /\ pc' = [pc EXCEPT ![t] = "tools"] /\ UNCHANGED <<step, reason>>
  <1>1. todo[t] \in Seq(Id)
    BY DEF TypeInv, TypeOK
  <1>2. /\ Head(todo[t]) = todo[t][1] /\ Head(todo[t]) \in Id
        /\ Len(todo[t]) \in Nat \ {0}
        /\ Tail(todo[t]) \in Seq(Id) /\ Len(Tail(todo[t])) = Len(todo[t]) - 1
        /\ \A k \in 1..(Len(todo[t]) - 1) : Tail(todo[t])[k] = todo[t][k + 1]
    <2>1. Head(todo[t]) = todo[t][1]
      BY <1>1
    <2>. QED
      BY <1>1, <2>1, HeadTailProperties, EmptySeq
  <1>3. <<Head(todo[t])>> \in Seq(Id)
    BY <1>2
  <1>4. Appends(t, <<Message("result", t, <<Head(todo[t])>>)>>)
    BY <1>3, OneMessage DEF Result
  <1>. QED
    BY <1>2, <1>4 DEF Result

LEMMA ResultIsAdded ==
    ASSUME TypeInv, NEW t \in Turn, todo[t] # <<>>, Result(t)
    PROVE  \E m \in Entry : m.turn = t /\ Appends(t, <<m>>)
  <1>1. PICK ids \in Seq(Id) : Appends(t, <<Message("result", t, ids)>>)
    <2>1. Head(todo[t]) \in Id /\ Appends(t, <<Message("result", t, <<Head(todo[t])>>)>>)
      BY ResultAppends
    <2>2. <<Head(todo[t])>> \in Seq(Id)
      BY <2>1
    <2>. QED
      BY <2>1, <2>2
  <1>2. Message("result", t, ids) \in Entry /\ Message("result", t, ids).turn = t
    BY MessageIsEntry
  <1>. QED
    BY <1>1, <1>2

LEMMA ChooseAppends ==
    ASSUME TypeInv, NEW t \in Turn, Choose(t)
    PROVE  \E n \in 1..MaxCalls :
              /\ CallIds(t, n) \in Seq(Id) /\ Len(CallIds(t, n)) = n
              /\ Appends(t, <<Message("assistant", t, CallIds(t, n))>>)
              /\ todo' = [todo EXCEPT ![t] = CallIds(t, n)]
  <1>1. PICK n \in 1..MaxCalls :
              /\ log' = Appended(t, <<Message("assistant", t, CallIds(t, n))>>)
              /\ todo' = [todo EXCEPT ![t] = CallIds(t, n)]
    BY DEF Choose
  <1>2. TypeOK /\ step[t] # 0
    BY DEF TypeInv, Pending, Choose
  <1>3. CallIds(t, n) \in Seq(Id) /\ Len(CallIds(t, n)) = n
    BY <1>2, CallIdsTyped
  <1>. QED
    BY <1>1, <1>3, OneMessage

LEMMA ConcludeAppends ==
    ASSUME NEW t \in Turn, Conclude(t)
    PROVE  Appends(t, <<Message("assistant", t, <<>>)>>)
  <1>1. <<>> \in Seq(Id)
    OBVIOUS
  <1>. QED
    BY <1>1, OneMessage DEF Conclude

LEMMA StepGrows ==
    ASSUME TypeInv, NEW t \in Turn, Run(t)
    PROVE  Grown(t)
  <1>1. TypeOK
    BY DEF TypeInv
  <1>2. CASE Begin(t)
    BY <1>1, <1>2, BeginAppends, AppendsGrows
  <1>3. CASE Conclude(t)
    BY <1>1, <1>3, ConcludeAppends, AppendsGrows
  <1>4. CASE Choose(t)
    BY <1>1, <1>4, ChooseAppends, AppendsGrows
  <1>5. CASE RunTool(t) \/ Return(t)
    <2>1. todo[t] # <<>> /\ Result(t)
      BY <1>5 DEF RunTool, Return, TypeInv, Pending
    <2>. QED
      BY <1>1, <2>1, ResultAppends, AppendsGrows
  <1>6. CASE Fail(t) \/ Refused(t) \/ Delegate(t) \/ NextStep(t) \/ Exhaust(t)
    <2>1. log' = log
      BY <1>6 DEF Fail, Refused, Delegate, NextStep, Exhaust
    <2>. QED
      BY <1>1, <2>1, SameLogGrows
  <1>. QED
    BY <1>2, <1>3, <1>4, <1>5, <1>6 DEF Run

LEMMA StepAlone ==
    ASSUME TypeInv, NEW t \in Turn, Run(t)
    PROVE  Alone(t)
  <1>1. CASE Begin(t) \/ Delegate(t) \/ NextStep(t)
    BY <1>1 DEF TypeInv, TypeOK, Begin, Delegate, NextStep, Alone
  <1>2. CASE Fail(t) \/ Refused(t) \/ Conclude(t) \/ Exhaust(t)
    BY <1>2 DEF TypeInv, TypeOK, Fail, Refused, Conclude, Exhaust, End, Alone
  <1>3. CASE Choose(t) \/ RunTool(t) \/ Return(t)
    BY <1>3 DEF TypeInv, TypeOK, Choose, RunTool, Return, Result, Alone
  <1>. QED
    BY <1>1, <1>2, <1>3 DEF Run

\* The calls to run after a step.
LEMMA TodoTyped ==
    ASSUME TypeInv, NEW t \in Turn, Run(t)
    PROVE  todo' \in [Turn -> Seq(Id)] /\ \A u \in Turn : Len(todo'[u]) <= MaxCalls
  <1>1. todo \in [Turn -> Seq(Id)] /\ \A u \in Turn : Len(todo[u]) <= MaxCalls
    BY DEF TypeInv, TypeOK
  <1>2. CASE UNCHANGED todo
    BY <1>1, <1>2
  <1>3. CASE Fail(t) \/ Refused(t) \/ Conclude(t) \/ Exhaust(t)
    <2>1. todo' = [todo EXCEPT ![t] = <<>>]
      BY <1>3 DEF Fail, Refused, Conclude, Exhaust, End
    <2>2. <<>> \in Seq(Id) /\ Len(<<>>) <= MaxCalls
      BY AgentSessionAssumption
    <2>. QED
      BY <1>1, <2>1, <2>2
  <1>4. CASE Choose(t)
    <2>1. PICK n \in 1..MaxCalls : /\ CallIds(t, n) \in Seq(Id) /\ Len(CallIds(t, n)) = n
                                   /\ todo' = [todo EXCEPT ![t] = CallIds(t, n)]
      BY <1>4, ChooseAppends
    <2>. QED
      BY <1>1, <2>1, AgentSessionAssumption
  <1>5. CASE RunTool(t) \/ Return(t)
    <2>1. todo[t] # <<>> /\ Result(t)
      BY <1>5 DEF RunTool, Return, TypeInv, Pending
    <2>2. /\ todo' = [todo EXCEPT ![t] = Tail(@)] /\ Len(todo[t]) \in Nat
          /\ Tail(todo[t]) \in Seq(Id) /\ Len(Tail(todo[t])) = Len(todo[t]) - 1
      BY <2>1, ResultAppends
    <2>. QED
      BY <1>1, <2>2, AgentSessionAssumption
  <1>6. CASE Begin(t) \/ Delegate(t) \/ NextStep(t)
    BY <1>2, <1>6 DEF Begin, Delegate, NextStep
  <1>. QED
    BY <1>3, <1>4, <1>5, <1>6 DEF Run

LEMMA PendingNext ==
    ASSUME TypeInv, NEW t \in Turn, Run(t)
    PROVE  \A u \in Turn : Pending(u)'
  <1>1. \A u \in Turn \ {t} : Pending(u)'
    BY StepAlone DEF Alone, TypeInv, Pending
  <1>2. CASE Begin(t) \/ Delegate(t) \/ NextStep(t)
    BY <1>2 DEF TypeInv, TypeOK, Pending, Begin, Delegate, NextStep
  <1>3. CASE Fail(t) \/ Refused(t) \/ Conclude(t) \/ Exhaust(t)
    BY <1>3 DEF TypeInv, TypeOK, Pending, Fail, Refused, Conclude, Exhaust, End
  <1>4. CASE Choose(t) \/ RunTool(t) \/ Return(t)
    BY <1>4 DEF TypeInv, TypeOK, Pending, Choose, RunTool, Return, Result
  <1>. QED
    BY <1>1, <1>2, <1>3, <1>4 DEF Run

LEMMA TypeNext == TypeInv /\ [Next]_vars => TypeInv'
  <1>. SUFFICES ASSUME TypeInv, [Next]_vars
                PROVE  TypeInv'
    OBVIOUS
  <1>1. CASE UNCHANGED vars
    BY <1>1 DEF vars, TypeInv, TypeOK, Pending, Session
  <1>2. ASSUME NEW t \in Turn, Run(t)
        PROVE  TypeInv'
    <2>1. log' \in [Peer -> Seq(Entry)]
      BY <1>2, StepGrows DEF Grown
    <2>2. \A p \in Peer : \A i \in 1..Len(log'[p]) : Session(log'[p][i].turn) = p
      BY <1>2, StepGrows DEF Grown, TypeInv, Session
    <2>3. /\ pc' \in [Turn -> {"queued", "ask", "tools", "await", "over"}]
          /\ step' \in [Turn -> 0..MaxSteps]
          /\ reason' \in [Turn -> {"none", "completed", "max-steps", "error", "refused"}]
      <3>1. CASE Begin(t) \/ Delegate(t) \/ NextStep(t)
        <4>1. 1 \in 0..MaxSteps /\ (step[t] < MaxSteps => step[t] + 1 \in 0..MaxSteps)
          BY AgentSessionAssumption DEF TypeInv, TypeOK
        <4>2. pc' \in [Turn -> {"queued", "ask", "tools", "await", "over"}] /\ UNCHANGED reason
          BY <3>1 DEF TypeInv, TypeOK, Begin, Delegate, NextStep
        <4>3. step' \in [Turn -> 0..MaxSteps]
          BY <3>1, <4>1 DEF TypeInv, TypeOK, Begin, Delegate, NextStep
        <4>. QED
          BY <4>2, <4>3 DEF TypeInv, TypeOK
      <3>2. CASE Fail(t) \/ Refused(t) \/ Conclude(t) \/ Exhaust(t)
        BY <3>2 DEF TypeInv, TypeOK, Fail, Refused, Conclude, Exhaust, End
      <3>3. CASE Choose(t) \/ RunTool(t) \/ Return(t)
        BY <3>3 DEF TypeInv, TypeOK, Choose, RunTool, Return, Result
      <3>. QED
        BY <1>2, <3>1, <3>2, <3>3 DEF Run
    <2>. QED
      BY <1>2, <2>1, <2>2, <2>3, TodoTyped, PendingNext DEF TypeInv, TypeOK, Session
  <1>. QED
    BY <1>1, <1>2 DEF Next

LEMMA TypeInit == Init => TypeInv
  <1>1. <<>> \in Seq(Entry) /\ <<>> \in Seq(Id)
    OBVIOUS
  <1>. QED
    BY <1>1, AgentSessionAssumption DEF Init, TypeInv, TypeOK, Pending, Session

LEMMA TypesHold == Spec => []TypeInv
  BY TypeInit, TypeNext, PTL DEF Spec

\* A session is made of messages of its own peer's turns, a turn counts its steps up to
\* max_steps, and has no more calls to run than the model made (agent.py, session.py).
THEOREM TypeCorrect == Spec => []TypeOK
  <1>1. TypeInv => TypeOK
    BY DEF TypeInv
  <1>. QED
    BY <1>1, TypesHold, PTL


-----------------------------------------------------------------------------
(* The system prompt.                                                      *)

PromptInv ==
    /\ OneSystemPrompt
    /\ \A t \in Turn : pc[t] # "queued" => Len(log[Session(t)]) # 0

\* The first message of a session is its system prompt.
LEMMA SystemFirst ==
    ASSUME TypeInv, OneSystemPrompt, NEW t \in Turn
    PROVE  HasSystem(t) <=> Len(log[Session(t)]) # 0
  <1>1. Session(t) \in Peer /\ Len(log[Session(t)]) \in Nat
    BY SessionIsPeer, LenProperties DEF TypeInv, TypeOK
  <1>2. ASSUME Len(log[Session(t)]) # 0
        PROVE  HasSystem(t)
    <2>1. 1 \in 1..Len(log[Session(t)])
      BY <1>1, <1>2
    <2>. QED
      BY <1>1, <2>1 DEF OneSystemPrompt, HasSystem
  <1>. QED
    BY <1>1, <1>2 DEF HasSystem

\* A message other than a system prompt is appended behind one.
LEMMA PromptKept ==
    ASSUME TypeInv, OneSystemPrompt, NEW t \in Turn, HasSystem(t),
           NEW m \in Entry, m.kind # "system", Appends(t, <<m>>)
    PROVE  OneSystemPrompt'
  <1> DEFINE p == Session(t)
  <1>1. TypeOK /\ p \in Peer /\ <<m>> \in Seq(Entry) /\ log' = Appended(t, <<m>>)
    BY SessionIsPeer DEF TypeInv, Appends
  <1>2. /\ \A q \in Peer \ {p} : log'[q] = log[q]
        /\ Len(log[p]) \in Nat /\ Len(log'[p]) = Len(log[p]) + 1
        /\ \A i \in 1..Len(log[p]) : log'[p][i] = log[p][i]
        /\ log'[p][Len(log[p]) + 1] = m
    BY <1>1, OneMore
  <1>3. Len(log[p]) # 0
    BY SystemFirst
  <1>4. \A i \in 1..Len(log'[p]) : log'[p][i].kind = "system" <=> i = 1
    BY SMTT(30), <1>1, <1>2, <1>3 DEF OneSystemPrompt
  <1>. QED
    BY <1>2, <1>4 DEF OneSystemPrompt

LEMMA BeginGrows ==
    ASSUME TypeOK, NEW t \in Turn, Begin(t)
    PROVE  /\ Len(log'[Session(t)]) # 0
           /\ log'[Session(t)][Len(log'[Session(t)])] = Message("user", t, <<>>)
  <1> DEFINE p == Session(t)
             sys == Message("system", t, <<>>)
             user == Message("user", t, <<>>)
  <1>1. PICK ms \in Seq(Entry) :
           log' = Appended(t, ms) /\ Len(ms) \in {1, 2} /\ ms[Len(ms)] = user
    <2>1. CASE HasSystem(t)
      <3>1. Appends(t, <<user>>)
        BY <2>1, BeginAppends
      <3>. QED
        BY <3>1 DEF Appends
    <2>2. CASE ~HasSystem(t)
      <3>1. /\ Appends(t, <<sys>> \o <<user>>) /\ Len(<<sys>> \o <<user>>) = 2
            /\ (<<sys>> \o <<user>>)[2] = user
        BY <2>2, BeginAppends
      <3>. QED
        BY <3>1 DEF Appends
    <2>. QED
      BY <2>1, <2>2
  <1>2. /\ Len(log[p]) \in Nat /\ Len(log'[p]) = Len(log[p]) + Len(ms)
        /\ \A i \in 1..Len(ms) : log'[p][Len(log[p]) + i] = ms[i]
    BY <1>1, LogGrows
  <1> HIDE DEF user
  <1>3. Len(ms) \in 1..Len(ms) /\ Len(ms) \in Nat \ {0}
    BY <1>1
  <1>4. log'[p][Len(log'[p])] = user
    BY <1>1, <1>2, <1>3
  <1>. QED
    BY <1>2, <1>3, <1>4 DEF user

LEMMA PromptByBegin ==
    ASSUME TypeInv, OneSystemPrompt, NEW t \in Turn, Begin(t)
    PROVE  OneSystemPrompt'
  <1> DEFINE p == Session(t)
             sys == Message("system", t, <<>>)
             user == Message("user", t, <<>>)
  <1>1. <<>> \in Seq(Id)
    OBVIOUS
  <1>2. user \in Entry /\ user.kind = "user"
    BY ZenonT(30), <1>1, MessageIsEntry
  <1>5. sys.kind = "system"
    BY ZenonT(30), <1>1, MessageIsEntry
  <1>3. CASE HasSystem(t)
    BY <1>2, <1>5, <1>3, BeginAppends, PromptKept
  <1>4. CASE ~HasSystem(t)
    <2>1. /\ <<sys>> \o <<user>> \in Seq(Entry) /\ Len(<<sys>> \o <<user>>) = 2
          /\ (<<sys>> \o <<user>>)[1] = sys /\ (<<sys>> \o <<user>>)[2] = user
          /\ log' = Appended(t, <<sys>> \o <<user>>)
      BY <1>4, BeginAppends DEF Appends
    <2> DEFINE ms == <<sys>> \o <<user>>
    <2> HIDE DEF sys, user, ms
    <2>2. ms \in Seq(Entry) /\ Len(ms) = 2 /\ ms[1] = sys /\ ms[2] = user
             /\ log' = Appended(t, ms)
      BY <2>1 DEF ms
    <2>3. /\ \A q \in Peer \ {p} : log'[q] = log[q]
          /\ Len(log[p]) \in Nat /\ Len(log'[p]) = Len(log[p]) + 2
          /\ log'[p][Len(log[p]) + 1] = sys /\ log'[p][Len(log[p]) + 2] = user
      <3>1. TypeOK
        BY DEF TypeInv
      <3>2. /\ \A q \in Peer \ {p} : log'[q] = log[q]
            /\ Len(log[p]) \in Nat /\ Len(log'[p]) = Len(log[p]) + Len(ms)
            /\ \A i \in 1..Len(ms) : log'[p][Len(log[p]) + i] = ms[i]
        BY <2>2, <3>1, LogGrows
      <3>. QED
        BY <2>2, <3>2
    <2>4. Len(log[p]) = 0
      BY <1>4, SystemFirst
    <2>5. \A i \in 1..Len(log'[p]) : log'[p][i].kind = "system" <=> i = 1
      BY <1>2, <1>5, <2>3, <2>4
    <2>. QED
      BY <2>3, <2>5 DEF OneSystemPrompt
  <1>. QED
    BY <1>3, <1>4

LEMMA PromptNext == TypeInv /\ PromptInv /\ [Next]_vars => PromptInv'
  <1>. SUFFICES ASSUME TypeInv, PromptInv, [Next]_vars
                PROVE  PromptInv'
    OBVIOUS
  <1>1. CASE UNCHANGED vars
    BY <1>1 DEF vars, PromptInv, OneSystemPrompt, Session
  <1>2. ASSUME NEW t \in Turn, Run(t)
        PROVE  PromptInv'
    <2>1. OneSystemPrompt /\ TypeOK
      BY DEF PromptInv, TypeInv
    <2>2. \A u \in Turn : pc'[u] # "queued" => Len(log'[Session(u)]) # 0
      <3>1. \A u \in Turn : Len(log[Session(u)]) \in Nat /\ Len(log'[Session(u)]) \in Nat
               /\ Len(log'[Session(u)]) >= Len(log[Session(u)])
        BY <1>2, StepGrows, SessionIsPeer, LenProperties DEF Grown, TypeInv, TypeOK
      <3>2. CASE pc[t] # "queued"
        BY <1>2, <3>1, <3>2, StepAlone DEF PromptInv, Alone
      <3>3. CASE pc[t] = "queued"
        <4>1. Begin(t)
          BY <1>2, <3>3 DEF Run, Fail, Refused, Conclude, Choose, RunTool, Delegate, Return,
                            NextStep, Exhaust
        <4>2. Len(log'[Session(t)]) # 0
          BY <2>1, <4>1, BeginGrows
        <4>. QED
          BY <1>2, <3>1, <4>2, StepAlone DEF PromptInv, Alone
      <3>. QED
        BY <3>2, <3>3
    <2>3. OneSystemPrompt'
      <3>1. CASE Begin(t)
        BY <2>1, <3>1, PromptByBegin
      <3>2. CASE Fail(t) \/ Refused(t) \/ Delegate(t) \/ NextStep(t) \/ Exhaust(t)
        BY <2>1, <3>2 DEF Fail, Refused, Delegate, NextStep, Exhaust, OneSystemPrompt
      <3>3. ASSUME NEW ids \in Seq(Id), NEW kind \in {"assistant", "result"}, pc[t] # "queued",
                   Appends(t, <<Message(kind, t, ids)>>)
            PROVE  OneSystemPrompt'
        <4>1. HasSystem(t)
          BY <3>3, SystemFirst DEF PromptInv
        <4>2. Message(kind, t, ids) \in Entry /\ Message(kind, t, ids).kind = kind
          BY <3>3, MessageIsEntry
        <4>. QED
          BY <2>1, <3>3, <4>1, <4>2, PromptKept
      <3>4. CASE Conclude(t)
        <4>1. <<>> \in Seq(Id) /\ pc[t] # "queued"
          BY <3>4 DEF Conclude
        <4>. QED
          BY <3>3, <3>4, <4>1, ConcludeAppends
      <3>5. CASE Choose(t)
        BY <3>3, <3>5, ChooseAppends DEF Choose
      <3>6. CASE RunTool(t) \/ Return(t)
        <4>1. todo[t] # <<>> /\ Result(t) /\ pc[t] # "queued"
          BY <3>6 DEF RunTool, Return, TypeInv, Pending
        <4>2. Head(todo[t]) \in Id /\ Appends(t, <<Message("result", t, <<Head(todo[t])>>)>>)
          BY <4>1, ResultAppends
        <4>3. <<Head(todo[t])>> \in Seq(Id)
          BY <4>2
        <4>. QED
          BY <3>3, <4>1, <4>2, <4>3
      <3>. QED
        BY <1>2, <3>1, <3>2, <3>4, <3>5, <3>6 DEF Run
    <2>. QED
      BY <2>2, <2>3 DEF PromptInv, Session
  <1>. QED
    BY <1>1, <1>2 DEF Next

\* A session starts with its system prompt and has no other, whichever of the peer's turns
\* comes first and whatever else its turns do between two of their steps (agent.py: run).
THEOREM SessionsKeepTheirPrompt == Spec => []OneSystemPrompt
  <1>1. Init => PromptInv
    BY SessionIsPeer DEF Init, PromptInv, OneSystemPrompt
  <1>2. PromptInv => OneSystemPrompt
    BY DEF PromptInv
  <1>. QED
    BY <1>1, <1>2, TypesHold, PromptNext, PTL DEF Spec


-----------------------------------------------------------------------------
(* Calls and results.                                                      *)

\* The messages of a turn stay where they are, and only its own steps add to them.
LEMMA MineKept ==
    ASSUME TypeOK, NEW t \in Turn, Grown(t), NEW u \in Turn
    PROVE  LET n == Len(log[Session(u)]) IN
           /\ n \in Nat /\ Len(log'[Session(u)]) \in Nat /\ n <= Len(log'[Session(u)])
           /\ \A i \in 1..n : log'[Session(u)][i] = log[Session(u)][i]
           /\ \A i : i \in Mine(u)' /\ i <= n <=> i \in Mine(u)
           /\ u # t => Mine(u)' = Mine(u)
           /\ \A i \in Mine(u) : CallsAt(u, i)' = CallsAt(u, i)
           /\ Mine(u) \in SUBSET (1..n)
  <1> DEFINE p == Session(u)
  <1>1. /\ p \in Peer /\ Len(log[p]) \in Nat /\ Len(log'[p]) \in Nat
        /\ log' \in [Peer -> Seq(Entry)]
    BY SessionIsPeer, LenProperties DEF TypeOK, Grown
  <1>2. /\ Len(log[p]) <= Len(log'[p])
        /\ \A i \in 1..Len(log[p]) : log'[p][i] = log[p][i]
        /\ \A i \in 1..Len(log'[p]) : i \in 1..Len(log[p]) \/ log'[p][i].turn = t
    BY <1>1 DEF Grown
  <1>3. Mine(u)' = {i \in 1..Len(log'[p]) : log'[p][i].turn = u}
    BY DEF Mine, Session
  <1>4. \A i : i \in Mine(u)' /\ i <= Len(log[p]) <=> i \in Mine(u)
    BY <1>1, <1>2, <1>3 DEF Mine
  <1>5. u # t => Mine(u)' = Mine(u)
    BY <1>1, <1>2, <1>3 DEF Mine
  <1>6. \A i \in Mine(u) : CallsAt(u, i)' = CallsAt(u, i)
    BY <1>2 DEF Mine, CallsAt, Session
  <1>. QED
    BY <1>1, <1>2, <1>4, <1>5, <1>6 DEF Mine

LEMMA PlacesKept ==
    ASSUME TypeOK, NEW t \in Turn, Grown(t), NEW u \in Turn, NEW kind
    PROVE  /\ \A i : i \in Places(u, kind)' /\ i <= Len(log[Session(u)]) <=> i \in Places(u, kind)
           /\ u # t => Places(u, kind)' = Places(u, kind)
           /\ Places(u, kind) \subseteq Mine(u)
  <1> DEFINE p == Session(u)
  <1>1. /\ \A i \in 1..Len(log[p]) : log'[p][i] = log[p][i]
        /\ \A i : i \in Mine(u)' /\ i <= Len(log[p]) <=> i \in Mine(u)
        /\ u # t => Mine(u)' = Mine(u)
        /\ Mine(u) \in SUBSET (1..Len(log[p]))
    BY MineKept
  <1>2. Places(u, kind)' = {i \in Mine(u)' : log'[p][i].kind = kind}
    BY DEF Places, Session
  <1>. QED
    BY <1>1, <1>2 DEF Places

LEMMA SinceKept ==
    ASSUME TypeOK, NEW t \in Turn, Grown(t), NEW u \in Turn, NEW i \in Nat,
           NEW j \in Nat, j <= Len(log[Session(u)])
    PROVE  Since(u, i, j)' = Since(u, i, j)
  <1>1. /\ Len(log[Session(u)]) \in Nat /\ Mine(u) \in SUBSET Nat
        /\ Mine(u)' \in SUBSET Nat
        /\ \A l : l \in Mine(u)' /\ l <= Len(log[Session(u)]) <=> l \in Mine(u)
    BY MineKept DEF Mine
  <1>2. {l \in Mine(u)' : i < l /\ l <= j} = {l \in Mine(u) : i < l /\ l <= j}
    BY <1>1
  <1>. QED
    BY <1>2 DEF Since

LEMMA SinceOfOthers ==
    ASSUME TypeOK, NEW t \in Turn, Grown(t), NEW u \in Turn, Mine(u)' = Mine(u), NEW i \in Nat
    PROVE  Since(u, i, Len(log[Session(u)]))' = Since(u, i, Len(log[Session(u)]))
  <1> DEFINE n == Len(log[Session(u)])
             m == Len(log'[Session(u)])
  <1>1. n \in Nat /\ m \in Nat /\ n <= m /\ Mine(u) \in SUBSET (1..n)
    BY MineKept
  <1>2. {l \in Mine(u)' : i < l /\ l <= m} = {l \in Mine(u) : i < l /\ l <= n}
    BY <1>1
  <1>3. Since(u, i, n)' = Cardinality({l \in Mine(u)' : i < l /\ l <= m})
    BY DEF Since, Session
  <1>. QED
    BY <1>2, <1>3 DEF Since

LEMMA SinceNext ==
    ASSUME TypeOK, NEW t \in Turn, NEW m \in Entry, m.turn = t, Appends(t, <<m>>),
           NEW n, n = Len(log[Session(t)]), NEW i \in 1..n
    PROVE  /\ Since(t, i, n) \in Nat
           /\ Since(t, i, n + 1)' = Since(t, i, n) + 1
           /\ Since(t, i, Len(log[Session(t)]))' = Since(t, i, n) + 1
  <1> DEFINE old == {l \in Mine(t) : i < l /\ l <= n}
             now == {l \in Mine(t)' : i < l /\ l <= n + 1}
  <1>1. /\ n \in Nat /\ Len(log'[Session(t)]) = n + 1
        /\ log'[Session(t)][n + 1] = m
    BY OneMore
  <1>2. /\ \A l : l \in Mine(t)' /\ l <= n <=> l \in Mine(t)
        /\ Mine(t) \in SUBSET (1..n)
    BY AppendsGrows, MineKept
  <1>3. Mine(t)' = Mine(t) \cup {n + 1}
    <2>1. Mine(t)' = {l \in 1..(n + 1) : log'[Session(t)][l].turn = t}
      BY <1>1 DEF Mine, Session
    <2>. QED
      BY <1>1, <1>2, <2>1
  <1>4. now = old \cup {n + 1} /\ n + 1 \notin old
    BY <1>1, <1>2, <1>3
  <1>5. IsFiniteSet(old)
    <2>1. old \subseteq 1..n
      BY <1>2
    <2>2. IsFiniteSet(1..n)
      BY <1>1, FS_Interval
    <2>. QED
      BY <2>1, <2>2, FS_Subset
  <1>6. Cardinality(old) \in Nat /\ Cardinality(now) = Cardinality(old) + 1
    <2>. HIDE DEF old, now
    <2>1. Cardinality(old \cup {n + 1}) = Cardinality(old) + 1
      BY <1>4, <1>5, FS_AddElement
    <2>. QED
      BY <1>4, <1>5, <2>1, FS_CardinalityType
  <1>7. Since(t, i, n + 1)' = Cardinality(now)
    BY <1>1 DEF Since
  <1>8. Since(t, i, Len(log[Session(t)]))' = Cardinality(now)
    BY <1>1 DEF Since, Session
  <1>. QED
    BY <1>6, <1>7, <1>8 DEF Since

LEMMA AnsweredKept ==
    ASSUME TypeOK, NEW t \in Turn, Grown(t), NEW u \in Turn, NEW i \in Mine(u), NEW k,
           Answered(u, i, k)
    PROVE  Answered(u, i, k)'
  <1>1. PICK j \in Places(u, "result") :
           Since(u, i, j) = k /\ CallsAt(u, j) = <<CallsAt(u, i)[k]>>
    BY DEF Answered
  <1>2. /\ i \in Nat /\ j \in Nat /\ j <= Len(log[Session(u)]) /\ j \in Mine(u)
        /\ CallsAt(u, i)' = CallsAt(u, i) /\ CallsAt(u, j)' = CallsAt(u, j)
    BY MineKept, PlacesKept
  <1>3. Since(u, i, j)' = k /\ j \in Places(u, "result")'
    BY <1>1, <1>2, SinceKept, PlacesKept
  <1>. QED
    BY <1>1, <1>2, <1>3 DEF Answered


\* What is known of a turn's calls stays so while neither its messages nor its calls to run
\* change.
LEMMA CalledKept ==
    ASSUME TypeInv, NEW t \in Turn, Grown(t), NEW u \in Turn, Mine(u)' = Mine(u),
           todo'[u] = todo[u], Called(u)
    PROVE  Called(u)'
  <1>0. TypeOK
    BY DEF TypeInv
  <1>1. /\ \A i \in Mine(u) : i \in Nat /\ i <= Len(log[Session(u)])
        /\ \A i \in Mine(u) : CallsAt(u, i)' = CallsAt(u, i)
    BY <1>0, MineKept
  <1>2. \A kind : Places(u, kind)' = Places(u, kind) /\ Places(u, kind) \subseteq Mine(u)
    <2>1. \A kind : Places(u, kind)' \subseteq Mine(u)'
      BY DEF Places
    <2>2. \A kind : /\ \A i : i \in Places(u, kind)' /\ i <= Len(log[Session(u)])
                              <=> i \in Places(u, kind)
                    /\ Places(u, kind) \subseteq Mine(u)
      BY <1>0, PlacesKept
    <2>3. ASSUME NEW kind
          PROVE  Places(u, kind)' = Places(u, kind)
      <3>1. Places(u, kind)' \subseteq Places(u, kind) /\ Places(u, kind) \subseteq Places(u, kind)'
        BY <1>1, <2>1, <2>2
      <3>. QED
        BY <3>1
    <2>. QED
      BY <2>2, <2>3
  <1>3. \A i \in Mine(u), j \in Mine(u) : Since(u, i, j)' = Since(u, i, j)
    BY <1>0, <1>1, SinceKept
  <1>4. \A i \in Mine(u) : Open(u, i)' <=> Open(u, i)
    <2>1. \A i \in Mine(u) :
            Since(u, i, Len(log[Session(u)]))' = Since(u, i, Len(log[Session(u)]))
      BY <1>0, <1>1, SinceOfOthers
    <2>. QED
      BY <1>1, <2>1 DEF Open
  <1>5. \A i \in Mine(u) : \A k : Answered(u, i, k) => Answered(u, i, k)'
    BY <1>0, AnsweredKept
  <1>6. \A i \in Places(u, "assistant")' : \A k \in 1..Len(CallsAt(u, i)') :
           Answered(u, i, k)' \/ (Open(u, i)' /\ k > Len(CallsAt(u, i)') - Len(todo'[u]))
    BY <1>1, <1>2, <1>4, <1>5 DEF Called
  <1>7. todo'[u] # <<>> => \E i \in Places(u, "assistant")' : Open(u, i)'
    BY <1>2, <1>4 DEF Called
  <1>8. \A j \in Places(u, "result")' : \E i \in Places(u, "assistant")' :
           Since(u, i, j)' \in 1..Len(CallsAt(u, i)')
    BY <1>1, <1>2, <1>3 DEF Called
  <1>. QED
    BY <1>6, <1>7, <1>8 DEF Called

\* A turn that has no call to run, before and after, and appends no results: the calls of
\* what it appends would have to be run.
LEMMA CalledNone ==
    ASSUME TypeInv, NEW t \in Turn, Grown(t), Called(t), todo[t] = <<>>, todo'[t] = <<>>,
           \A i \in Mine(t)' : \/ i <= Len(log[Session(t)])
                               \/ /\ log'[Session(t)][i].kind # "result"
                                  /\ log'[Session(t)][i].ids = <<>>
    PROVE  Called(t)'
  <1>0. TypeOK
    BY DEF TypeInv
  <1>1. /\ \A i \in Mine(t) : i \in Nat /\ i <= Len(log[Session(t)])
        /\ \A i \in Mine(t) : CallsAt(t, i)' = CallsAt(t, i)
        /\ \A i \in Mine(t)' : CallsAt(t, i)' = log'[Session(t)][i].ids
    BY <1>0, MineKept DEF CallsAt, Session
  <1>2. \A kind : /\ \A i : i \in Places(t, kind)' /\ i <= Len(log[Session(t)]) <=> i \in Places(t, kind)
                  /\ Places(t, kind) \subseteq Mine(t) /\ Places(t, kind)' \subseteq Mine(t)'
                  /\ \A i \in Places(t, kind)' : log'[Session(t)][i].kind = kind
    BY <1>0, PlacesKept DEF Places, Session
  <1>3. \A i \in Mine(t), j \in Mine(t) : Since(t, i, j)' = Since(t, i, j)
    BY <1>0, <1>1, SinceKept
  <1>4. \A i \in Mine(t) : \A k : Answered(t, i, k) => Answered(t, i, k)'
    BY <1>0, AnsweredKept
  <1>5. \A i \in Places(t, "assistant") : \A k \in 1..Len(CallsAt(t, i)) : Answered(t, i, k)
    BY DEF Called, Open
  <1>6. ASSUME NEW i \in Places(t, "assistant")', NEW k \in 1..Len(CallsAt(t, i)')
        PROVE  Answered(t, i, k)'
    <2>1. CASE i \in Places(t, "assistant")
      BY <1>1, <1>2, <1>4, <1>5, <1>6, <2>1
    <2>2. CASE i \notin Places(t, "assistant")
      <3>1. CallsAt(t, i)' = <<>>
        BY <1>1, <1>2, <1>6, <2>2
      <3>. QED
        BY <1>6, <3>1
    <2>. QED
      BY <2>1, <2>2
  <1>7. ASSUME NEW j \in Places(t, "result")'
        PROVE  \E i \in Places(t, "assistant")' : Since(t, i, j)' \in 1..Len(CallsAt(t, i)')
    <2>1. j \in Places(t, "result")
      BY <1>2, <1>7
    <2>2. PICK i \in Places(t, "assistant") : Since(t, i, j) \in 1..Len(CallsAt(t, i))
      BY <2>1 DEF Called
    <2>. QED
      BY <1>1, <1>2, <1>3, <2>1, <2>2
  <1>. QED
    BY <1>6, <1>7 DEF Called

\* A turn's new message is the last one of the session.
LEMMA MessageAdded ==
    ASSUME TypeInv, NEW t \in Turn, NEW m \in Entry, m.turn = t, Appends(t, <<m>>),
           NEW n, n = Len(log[Session(t)])
    PROVE  /\ n \in Nat /\ Len(log'[Session(t)]) = n + 1
           /\ CallsAt(t, n + 1)' = m.ids
           /\ \A i \in Mine(t) : i \in 1..n /\ CallsAt(t, i)' = CallsAt(t, i)
           /\ Mine(t)' \subseteq 1..(n + 1)
           /\ \A i \in Mine(t), j \in Mine(t) : Since(t, i, j)' = Since(t, i, j)
           /\ \A i \in Mine(t) : \A k : Answered(t, i, k) => Answered(t, i, k)'
  <1>3. TypeOK /\ Grown(t)
    BY AppendsGrows DEF TypeInv
  <1>4. /\ n \in Nat /\ Len(log'[Session(t)]) = n + 1 /\ log'[Session(t)][n + 1] = m
    BY <1>3, OneMore
  <1>5. /\ \A i \in Mine(t) : i \in 1..n /\ i \in Nat /\ i <= n
        /\ \A i \in Mine(t) : CallsAt(t, i)' = CallsAt(t, i)
        /\ CallsAt(t, n + 1)' = m.ids
        /\ Mine(t)' \subseteq 1..(n + 1)
    BY <1>3, <1>4, MineKept DEF CallsAt, Session, Mine
  <1>7. \A i \in Mine(t), j \in Mine(t) : Since(t, i, j)' = Since(t, i, j)
    BY <1>3, <1>5, SinceKept
  <1>8. \A i \in Mine(t) : \A k : Answered(t, i, k) => Answered(t, i, k)'
    BY <1>3, AnsweredKept
  <1>. QED
    BY <1>4, <1>5, <1>7, <1>8

LEMMA PlacesAdded ==
    ASSUME TypeInv, NEW t \in Turn, NEW m \in Entry, m.turn = t, Appends(t, <<m>>),
           NEW n, n = Len(log[Session(t)]), NEW kind
    PROVE  /\ Places(t, kind) \subseteq Mine(t)
           /\ Places(t, kind)' = Places(t, kind) \cup {i \in {n + 1} : kind = m.kind}
  <1>1. TypeOK /\ Grown(t)
    BY AppendsGrows DEF TypeInv
  <1>2. /\ n \in Nat /\ Len(log'[Session(t)]) = n + 1 /\ log'[Session(t)][n + 1] = m
    BY <1>1, OneMore
  <1>3. \A i \in Mine(t)' : i \in 1..(n + 1)
    BY <1>2 DEF Session, Mine
  <1>4. /\ \A i : i \in Places(t, kind)' /\ i <= n <=> i \in Places(t, kind)
        /\ Places(t, kind) \subseteq Mine(t)
    BY <1>1, PlacesKept
  <1>5. n + 1 \in Mine(t)'
    BY <1>2 DEF Mine, Session
  <1>6. Places(t, kind)' = {i \in Mine(t)' : log'[Session(t)][i].kind = kind}
    BY DEF Places, Session
  <1>7. \A i \in Mine(t)' : i <= n \/ i = n + 1
    BY <1>2, <1>3
  <1>8. n + 1 \in Places(t, kind)' <=> kind = m.kind
    BY <1>2, <1>5, <1>6
  <1>9. \A i \in Places(t, kind)' : i \in Places(t, kind) \/ i = n + 1
    BY <1>4, <1>6, <1>7
  <1>10. Places(t, kind)' = Places(t, kind) \cup {i \in {n + 1} : kind = m.kind}
    BY <1>4, <1>8, <1>9
  <1>. QED
    BY <1>4, <1>10

\* The model's message: its calls are to be run.
LEMMA CalledByMessage ==
    ASSUME TypeInv, NEW t \in Turn, NEW ids \in Seq(Id), Called(t), todo[t] = <<>>, todo'[t] = ids,
           Appends(t, <<Message("assistant", t, ids)>>)
    PROVE  Called(t)'
  <1> DEFINE m == Message("assistant", t, ids)
  <1>1. m \in Entry /\ m.kind = "assistant" /\ m.turn = t /\ m.ids = ids /\ Appends(t, <<m>>)
    BY MessageIsEntry
  <1> HIDE DEF m
  <1>2. PICK n : n = Len(log[Session(t)])
    OBVIOUS
  <1>4. /\ n \in Nat /\ Len(log'[Session(t)]) = n + 1
        /\ CallsAt(t, n + 1)' = ids
        /\ \A i \in Mine(t) : i \in 1..n /\ CallsAt(t, i)' = CallsAt(t, i)
        /\ Mine(t)' \subseteq 1..(n + 1)
    BY <1>1, <1>2, MessageAdded
  <1>5. /\ Places(t, "assistant")' = Places(t, "assistant") \cup {n + 1}
        /\ Places(t, "result")' = Places(t, "result")
        /\ Places(t, "assistant") \subseteq Mine(t) /\ Places(t, "result") \subseteq Mine(t)
    <2>1. ASSUME NEW kind
          PROVE  /\ Places(t, kind) \subseteq Mine(t)
                 /\ Places(t, kind)' = Places(t, kind) \cup {i \in {n + 1} : kind = m.kind}
      BY <1>1, <1>2, PlacesAdded
    <2>2. Places(t, "assistant")' = Places(t, "assistant") \cup {i \in {n + 1} : "assistant" = m.kind}
      BY <2>1
    <2>3. Places(t, "result")' = Places(t, "result") \cup {i \in {n + 1} : "result" = m.kind}
      BY <2>1
    <2>. QED
      BY <1>1, <2>1, <2>2, <2>3
  <1>6. /\ \A i \in Mine(t), j \in Mine(t) : Since(t, i, j)' = Since(t, i, j)
        /\ \A i \in Mine(t) : \A k : Answered(t, i, k) => Answered(t, i, k)'
    BY <1>1, <1>2, MessageAdded
  <1>9. \A i \in Places(t, "assistant") : \A k \in 1..Len(CallsAt(t, i)) : Answered(t, i, k)
    BY DEF Called, Open
  <1>10. ids # <<>> => Open(t, n + 1)'
    <2>1. {l \in Mine(t)' : n + 1 < l /\ l <= n + 1} = {}
      BY <1>4
    <2>2. Since(t, n + 1, Len(log[Session(t)]))' = 0
      <3>1. Since(t, n + 1, Len(log[Session(t)]))' = Cardinality({l \in Mine(t)' : n + 1 < l /\ l <= n + 1})
        BY <1>4 DEF Since, Session
      <3>. QED
        BY <2>1, <3>1, FS_EmptySet
    <2>3. Len(ids) \in Nat
      OBVIOUS
    <2>. QED
      BY <1>4, <2>2, <2>3 DEF Open
  <1>11. ASSUME NEW i \in Places(t, "assistant")', NEW k \in 1..Len(CallsAt(t, i)')
         PROVE  Answered(t, i, k)' \/ (Open(t, i)' /\ k > Len(CallsAt(t, i)') - Len(todo'[t]))
    <2>1. CASE i \in Places(t, "assistant")
      BY <1>4, <1>5, <1>6, <1>9, <1>11, <2>1
    <2>2. CASE i = n + 1
      <3>1. CallsAt(t, i)' = ids /\ k \in 1..Len(ids) /\ Len(ids) \in Nat
        BY <1>4, <1>11, <2>2
      <3>2. ids # <<>> /\ k > Len(ids) - Len(ids)
        BY <3>1
      <3>. QED
        BY <1>10, <2>2, <3>1, <3>2
    <2>. QED
      BY <1>5, <2>1, <2>2
  <1>12. todo'[t] # <<>> => \E i \in Places(t, "assistant")' : Open(t, i)'
    BY <1>5, <1>10
  <1>13. ASSUME NEW j \in Places(t, "result")'
         PROVE  \E i \in Places(t, "assistant")' : Since(t, i, j)' \in 1..Len(CallsAt(t, i)')
    <2>1. PICK i \in Places(t, "assistant") : Since(t, i, j) \in 1..Len(CallsAt(t, i))
      BY <1>5, <1>13 DEF Called
    <2>. QED
      BY <1>4, <1>5, <1>6, <1>13, <2>1
  <1>. QED
    BY <1>11, <1>12, <1>13 DEF Called

\* A result: one call less is to be run.
LEMMA CalledByResult ==
    ASSUME TypeInv, NEW t \in Turn, Called(t), todo[t] # <<>>, Result(t)
    PROVE  Called(t)'
  <1>0. PICK ids \in Seq(Id) : ids = <<todo[t][1]>> /\ Appends(t, <<Message("result", t, ids)>>)
    <2>1. /\ todo[t][1] \in Id /\ Head(todo[t]) = todo[t][1]
          /\ Appends(t, <<Message("result", t, <<Head(todo[t])>>)>>)
      BY ResultAppends
    <2>2. <<todo[t][1]>> \in Seq(Id)
      BY <2>1
    <2>. QED
      BY <2>1, <2>2
  <1> DEFINE m == Message("result", t, ids)
  <1>1. m \in Entry /\ m.kind = "result" /\ m.turn = t /\ m.ids = ids /\ Appends(t, <<m>>)
    <2>1. m \in Entry /\ m.kind = "result" /\ m.turn = t /\ m.ids = ids
      BY MessageIsEntry
    <2>. QED
      BY <1>0, <2>1
  <1> HIDE DEF m
  <1>2. PICK n : n = Len(log[Session(t)])
    OBVIOUS
  <1>3. PICK q : q = Len(todo[t])
    OBVIOUS
  <1>4. /\ n \in Nat /\ Len(log'[Session(t)]) = n + 1
        /\ CallsAt(t, n + 1)' = ids
        /\ \A i \in Mine(t) : i \in 1..n /\ CallsAt(t, i)' = CallsAt(t, i)
    BY <1>1, <1>2, MessageAdded
  <1>5. /\ Places(t, "result")' = Places(t, "result") \cup {n + 1}
        /\ Places(t, "assistant")' = Places(t, "assistant")
        /\ Places(t, "assistant") \subseteq Mine(t) /\ Places(t, "result") \subseteq Mine(t)
    <2>1. ASSUME NEW kind
          PROVE  /\ Places(t, kind) \subseteq Mine(t)
                 /\ Places(t, kind)' = Places(t, kind) \cup {i \in {n + 1} : kind = m.kind}
      BY <1>1, <1>2, PlacesAdded
    <2>2. Places(t, "assistant")' = Places(t, "assistant") \cup {i \in {n + 1} : "assistant" = m.kind}
      BY <2>1
    <2>3. Places(t, "result")' = Places(t, "result") \cup {i \in {n + 1} : "result" = m.kind}
      BY <2>1
    <2>. QED
      BY <1>1, <2>1, <2>2, <2>3
  <1>6. /\ \A i \in Mine(t), j \in Mine(t) : Since(t, i, j)' = Since(t, i, j)
        /\ \A i \in Mine(t) : \A k : Answered(t, i, k) => Answered(t, i, k)'
    BY <1>1, <1>2, MessageAdded
  <1>7. \A i \in Mine(t) : /\ Since(t, i, n) \in Nat
                           /\ Since(t, i, n + 1)' = Since(t, i, n) + 1
                           /\ Since(t, i, Len(log[Session(t)]))' = Since(t, i, n) + 1
    <2>1. TypeOK
      BY DEF TypeInv
    <2>. QED
      BY <1>1, <1>2, <1>4, <2>1, SinceNext
  <1>8. /\ q \in Nat \ {0} /\ todo'[t] \in Seq(Id) /\ Len(todo'[t]) = q - 1
        /\ \A k \in 1..(q - 1) : todo'[t][k] = todo[t][k + 1]
        /\ todo'[t] = <<>> => q = 1
    <2>1. /\ todo' = [todo EXCEPT ![t] = Tail(@)] /\ Len(todo[t]) \in Nat \ {0}
          /\ Tail(todo[t]) \in Seq(Id) /\ Len(Tail(todo[t])) = Len(todo[t]) - 1
          /\ \A k \in 1..(Len(todo[t]) - 1) : Tail(todo[t])[k] = todo[t][k + 1]
      BY ResultAppends
    <2>2. todo'[t] = Tail(todo[t])
      BY <2>1 DEF TypeInv, TypeOK
    <2>3. todo'[t] = <<>> => Len(todo'[t]) = 0
      OBVIOUS
    <2>4. q \in Nat \ {0}
      BY <1>3, <2>1
    <2>5. todo'[t] \in Seq(Id) /\ Len(todo'[t]) = q - 1
      BY <1>3, <2>1, <2>2
    <2>6. \A k \in 1..(q - 1) : todo'[t][k] = todo[t][k + 1]
      BY <1>3, <2>1, <2>2
    <2>7. todo'[t] = <<>> => q = 1
      BY <2>3, <2>4, <2>5
    <2>. QED
      BY <2>4, <2>5, <2>6, <2>7
  <1>9. ASSUME NEW i \in Places(t, "assistant"), Open(t, i), NEW l, l = Len(CallsAt(t, i))
        PROVE  /\ l \in Nat /\ Since(t, i, n) = l - q /\ l - q \in Nat
               /\ Answered(t, i, l - q + 1)'
               /\ todo'[t] # <<>> => Open(t, i)'
    <2>1. i \in Mine(t) /\ i \in 1..n
      BY <1>4, <1>5
    <2>2. l \in Nat
      <3>1. CallsAt(t, i) \in Seq(Id)
        <4>1. log[Session(t)] \in Seq(Entry)
          BY SessionIsPeer DEF TypeInv, TypeOK
        <4>2. log[Session(t)][i] \in Entry
          BY <1>2, <2>1, <4>1, ElementOfSeq
        <4>. QED
          BY <4>2 DEF CallsAt, Entry
      <3>. QED
        BY <1>9, <3>1, LenProperties
    <2>3. Since(t, i, n) = l - q /\ l - q \in Nat /\ \A k \in 1..q : todo[t][k] = CallsAt(t, i)[l - q + k]
      BY <1>2, <1>3, <1>7, <1>9, <2>1 DEF Open
    <2>4. Answered(t, i, l - q + 1)'
      <3>1. n + 1 \in Places(t, "result")' /\ Since(t, i, n + 1)' = l - q + 1
        BY <1>5, <1>7, <2>1, <2>3
      <3>2. todo[t][1] = CallsAt(t, i)[l - q + 1] /\ CallsAt(t, i)' = CallsAt(t, i)
        BY <1>4, <1>8, <2>1, <2>3
      <3>. QED
        BY <1>0, <1>4, <3>1, <3>2 DEF Answered
    <2>5. ASSUME todo'[t] # <<>>
          PROVE  Open(t, i)'
      <3>1. /\ Len(CallsAt(t, i)') = l /\ Len(todo'[t]) = q - 1
            /\ Since(t, i, Len(log[Session(t)]))' = l - (q - 1)
        <4>1. l - q + 1 = l - (q - 1)
          BY <1>8, <2>2
        <4>. QED
          BY <1>4, <1>7, <1>8, <1>9, <2>1, <2>3, <4>1
      <3>2. ASSUME NEW k \in 1..(q - 1)
            PROVE  todo'[t][k] = CallsAt(t, i)'[l - (q - 1) + k]
        <4>1. k + 1 \in 1..q /\ l - q + (k + 1) = l - (q - 1) + k
          BY <1>8, <2>2
        <4>2. todo'[t][k] = CallsAt(t, i)[l - q + (k + 1)]
          BY <1>8, <2>3, <4>1
        <4>. QED
          BY <1>4, <2>1, <4>1, <4>2
      <3>. QED
        BY <2>5, <3>1, <3>2 DEF Open
    <2>. QED
      BY <2>2, <2>3, <2>4, <2>5
  <1>10. ASSUME NEW i \in Places(t, "assistant")', NEW k \in 1..Len(CallsAt(t, i)')
         PROVE  Answered(t, i, k)' \/ (Open(t, i)' /\ k > Len(CallsAt(t, i)') - Len(todo'[t]))
    <2>1. /\ i \in Places(t, "assistant") /\ i \in Mine(t) /\ CallsAt(t, i)' = CallsAt(t, i)
          /\ k \in 1..Len(CallsAt(t, i))
      BY <1>4, <1>5, <1>10
    <2>2. CASE Answered(t, i, k)
      BY <1>6, <2>1, <2>2
    <2>3. CASE Open(t, i) /\ k > Len(CallsAt(t, i)) - Len(todo[t])
      <3>1. PICK l : l = Len(CallsAt(t, i))
        OBVIOUS
      <3>2. /\ l \in Nat /\ Answered(t, i, l - q + 1)'
            /\ todo'[t] # <<>> => Open(t, i)'
        BY <1>9, <2>1, <2>3, <3>1
      <3>3. k \in 1..l /\ k > l - q
        BY <1>3, <2>1, <2>3, <3>1
      <3>4. CASE k = l - q + 1
        BY <3>2, <3>4
      <3>5. CASE k # l - q + 1
        <4>1. k > l - (q - 1) /\ q # 1
          BY <1>8, <3>2, <3>3, <3>5
        <4>2. Len(CallsAt(t, i)') = l /\ Len(todo'[t]) = q - 1
          BY <1>8, <2>1, <3>1
        <4>. QED
          BY <1>8, <3>2, <4>1, <4>2
      <3>. QED
        BY <3>4, <3>5
    <2>. QED
      BY <2>1, <2>2, <2>3 DEF Called
  <1>11. todo'[t] # <<>> => \E i \in Places(t, "assistant")' : Open(t, i)'
    BY <1>5, <1>9 DEF Called
  <1>12. ASSUME NEW j \in Places(t, "result")'
         PROVE  \E i \in Places(t, "assistant")' : Since(t, i, j)' \in 1..Len(CallsAt(t, i)')
    <2>1. CASE j \in Places(t, "result")
      <3>1. PICK i \in Places(t, "assistant") : Since(t, i, j) \in 1..Len(CallsAt(t, i))
        BY <2>1 DEF Called
      <3>. QED
        BY <1>4, <1>5, <1>6, <2>1, <3>1
    <2>2. CASE j = n + 1
      <3>1. PICK i \in Places(t, "assistant") : Open(t, i)
        BY DEF Called
      <3>2. PICK l : l = Len(CallsAt(t, i))
        OBVIOUS
      <3>3. l \in Nat /\ Since(t, i, n) = l - q /\ l - q \in Nat
        BY <1>9, <3>1, <3>2
      <3>4. i \in Mine(t) /\ Since(t, i, n + 1)' = l - q + 1
        BY <1>5, <1>7, <3>1, <3>3
      <3>5. l - q + 1 \in 1..l /\ Len(CallsAt(t, i)') = l
        BY <1>4, <1>8, <3>2, <3>3, <3>4
      <3>. QED
        BY <1>5, <2>2, <3>1, <3>4, <3>5
    <2>. QED
      BY <1>5, <2>1, <2>2
  <1>. QED
    BY <1>10, <1>11, <1>12 DEF Called


LEMMA CallInit == Init => CallInv
  <1>. SUFFICES ASSUME Init
                PROVE  CallInv
    OBVIOUS
  <1>1. \A t \in Turn : Mine(t) = {} /\ todo[t] = <<>>
    BY SessionIsPeer DEF Init, Mine
  <1>2. \A t \in Turn : Places(t, "assistant") = {} /\ Places(t, "result") = {}
    BY <1>1 DEF Places
  <1>. QED
    BY <1>1, <1>2 DEF CallInv, Called

LEMMA CallNext == TypeInv /\ CallInv /\ [Next]_vars => CallInv'
  <1>. SUFFICES ASSUME TypeInv, CallInv, [Next]_vars
                PROVE  CallInv'
    OBVIOUS
  <1>1. CASE UNCHANGED vars
    <2>. SUFFICES ASSUME NEW t \in Turn
                  PROVE  Called(t)'
      BY DEF CallInv
    <2>1. log' = log /\ todo'[t] = todo[t] /\ Mine(t)' = Mine(t) /\ TypeOK /\ Called(t)
      BY <1>1 DEF vars, Mine, Session, TypeInv, CallInv
    <2>. QED
      BY <2>1, SameLogGrows, CalledKept
  <1>2. ASSUME NEW t \in Turn, Run(t)
        PROVE  CallInv'
    <2>1. TypeOK /\ Grown(t) /\ Alone(t) /\ Called(t)
      BY <1>2, StepGrows, StepAlone DEF TypeInv, CallInv
    <2>2. ASSUME NEW u \in Turn \ {t}
          PROVE  Called(u)'
      <3>1. Called(u) /\ todo'[u] = todo[u] /\ Mine(u)' = Mine(u)
        BY <2>1, MineKept DEF CallInv, Alone
      <3>. QED
        BY <2>1, <3>1, CalledKept
    <2>3. Called(t)'
      <3>1. CASE Begin(t)
        <4> DEFINE sys == Message("system", t, <<>>)
                   user == Message("user", t, <<>>)
        <4>1. todo[t] = <<>> /\ todo'[t] = <<>>
          BY <3>1 DEF Begin, TypeInv, Pending
        <4>2. PICK ms \in Seq(Entry) :
                 /\ log' = Appended(t, ms)
                 /\ \A i \in 1..Len(ms) : ms[i].kind # "result" /\ ms[i].ids = <<>>
          <5>1. <<>> \in Seq(Id)
            OBVIOUS
          <5>2. sys \in Entry /\ sys.kind # "result" /\ sys.ids = <<>>
            BY ZenonT(30), <5>1, MessageIsEntry
          <5>3. user \in Entry /\ user.kind # "result" /\ user.ids = <<>>
            BY ZenonT(30), <5>1, MessageIsEntry
          <5>4. \/ Appends(t, <<sys>> \o <<user>>)
                \/ Appends(t, <<user>>)
            BY <3>1, BeginAppends
          <5>5. /\ <<sys>> \o <<user>> \in Seq(Entry) /\ Len(<<sys>> \o <<user>>) = 2
                /\ (<<sys>> \o <<user>>)[1] = sys /\ (<<sys>> \o <<user>>)[2] = user
            BY <3>1, BeginAppends
          <5>. HIDE DEF sys, user
          <5>6. \A i \in 1..Len(<<sys>> \o <<user>>) :
                   (<<sys>> \o <<user>>)[i].kind # "result" /\ (<<sys>> \o <<user>>)[i].ids = <<>>
            BY <5>2, <5>3, <5>5
          <5>7. <<user>> \in Seq(Entry) /\ \A i \in 1..Len(<<user>>) :
                   <<user>>[i].kind # "result" /\ <<user>>[i].ids = <<>>
            BY <5>3
          <5>. QED
            BY <5>4, <5>5, <5>6, <5>7 DEF Appends
        <4>3. PICK n : n = Len(log[Session(t)])
          OBVIOUS
        <4>4. /\ n \in Nat /\ Len(log'[Session(t)]) = n + Len(ms)
              /\ \A i \in 1..Len(ms) : log'[Session(t)][n + i] = ms[i]
          BY <2>1, <4>2, <4>3, LogGrows
        <4>5. ASSUME NEW i \in Mine(t)', ~(i <= n)
              PROVE  log'[Session(t)][i].kind # "result" /\ log'[Session(t)][i].ids = <<>>
          <5>1. i \in 1..(n + Len(ms)) /\ Len(ms) \in Nat
            BY <4>2, <4>4, <4>5, LenProperties DEF Mine, Session
          <5>2. i - n \in 1..Len(ms) /\ n + (i - n) = i
            BY <4>4, <4>5, <5>1
          <5>3. log'[Session(t)][i] = ms[i - n]
            BY <4>4, <5>2
          <5>. QED
            BY <4>2, <5>2, <5>3
        <4>. QED
          BY <2>1, <4>1, <4>3, <4>5, CalledNone
      <3>2. CASE Delegate(t) \/ NextStep(t)
        <4>1. log' = log /\ todo'[t] = todo[t] /\ Mine(t)' = Mine(t)
          BY <3>2 DEF Delegate, NextStep, Mine, Session
        <4>. QED
          BY <2>1, <4>1, CalledKept
      <3>3. CASE Fail(t) \/ Refused(t) \/ Exhaust(t)
        <4>1. log' = log /\ todo[t] = <<>> /\ todo'[t] = <<>> /\ Mine(t)' = Mine(t)
          BY <3>3 DEF Fail, Refused, Exhaust, End, TypeInv, TypeOK, Pending, Mine, Session
        <4>. QED
          BY <2>1, <4>1, CalledKept
      <3>4. CASE Conclude(t)
        <4>1. todo[t] = <<>> /\ todo'[t] = <<>> /\ <<>> \in Seq(Id)
          BY <3>4 DEF Conclude, End, TypeInv, TypeOK, Pending
        <4>2. Appends(t, <<Message("assistant", t, <<>>)>>)
          BY <3>4, ConcludeAppends
        <4>. QED
          BY <2>1, <4>1, <4>2, CalledByMessage
      <3>5. CASE Choose(t)
        <4>1. PICK ids \in Seq(Id) : /\ Appends(t, <<Message("assistant", t, ids)>>)
                                     /\ todo' = [todo EXCEPT ![t] = ids]
          BY <3>5, ChooseAppends
        <4>2. todo[t] = <<>> /\ todo'[t] = ids
          BY <3>5, <4>1 DEF Choose, TypeInv, TypeOK, Pending
        <4>. QED
          BY <2>1, <4>1, <4>2, CalledByMessage
      <3>6. CASE RunTool(t) \/ Return(t)
        <4>1. todo[t] # <<>> /\ Result(t)
          BY <3>6 DEF RunTool, Return, TypeInv, Pending
        <4>. QED
          BY <2>1, <4>1, CalledByResult
      <3>. QED
        BY <1>2, <3>1, <3>2, <3>3, <3>4, <3>5, <3>6 DEF Run
    <2>. QED
      BY <2>2, <2>3 DEF CallInv
  <1>. QED
    BY <1>1, <1>2 DEF Next

LEMMA CallsHold == Spec => []CallInv
  BY TypesHold, CallInit, CallNext, PTL DEF Spec

\* However the turns of a peer interleave, a turn that is over has one result for every call
\* the model made in it, in the order of the calls and before its next message, and no
\* result without a call (agent.py: run, and its handling of calls that fail).
THEOREM CallsGetTheirResults == Spec => []CallsAnsweredInOrder
  <1>1. TypeInv /\ CallInv => CallsAnsweredInOrder
    <2>. SUFFICES ASSUME TypeInv, CallInv, NEW t \in Turn, pc[t] = "over"
                  PROVE  /\ \A i \in Places(t, "assistant") : \A k \in 1..Len(CallsAt(t, i)) :
                               Answered(t, i, k)
                         /\ \A j \in Places(t, "result") : \E i \in Places(t, "assistant") :
                               Since(t, i, j) \in 1..Len(CallsAt(t, i))
      BY DEF CallsAnsweredInOrder
    <2>1. todo[t] = <<>>
      BY DEF TypeInv, Pending
    <2>. QED
      BY <2>1 DEF CallInv, Called, Open
  <1>. QED
    BY <1>1, TypesHold, CallsHold, PTL


-----------------------------------------------------------------------------
(* Refused requests.                                                       *)

\* Unless a turn was interrupted, the messages between two of its own are its own.
LEMMA Contiguous ==
    ASSUME TypeInv, NEW t \in Turn, ~Interrupted(Session(t)),
           NEW i \in Mine(t), NEW j \in Mine(t), NEW k, Since(t, i, j) = k, k \in Nat \ {0}
    PROVE  j = i + k
  <1> DEFINE n == Len(log[Session(t)])
             between == {l \in Mine(t) : i < l /\ l <= j}
  <1>1. n \in Nat /\ i \in 1..n /\ j \in 1..n
    BY SessionIsPeer, LenProperties DEF TypeInv, TypeOK, Mine
  <1>2. i < j
    <2>. SUFFICES ASSUME ~(i < j)
                  PROVE  FALSE
      OBVIOUS
    <2>1. between = {}
      BY <1>1 DEF Mine
    <2>. QED
      BY <2>1, FS_EmptySet DEF Since
  <1>3. between = (i + 1)..j
    <2>1. \A l \in 1..n : i < l /\ l < j => log[Session(t)][l].turn = t
      BY <1>1 DEF Interrupted, Mine
    <2>2. \A l \in (i + 1)..j : l \in Mine(t)
      BY <1>1, <2>1 DEF Mine
    <2>. QED
      BY <1>1, <2>2 DEF Mine
  <1>4. Cardinality((i + 1)..j) = j - (i + 1) + 1
    BY <1>1, <1>2, FS_Interval
  <1>5. k = j - (i + 1) + 1
    BY <1>3, <1>4 DEF Since
  <1>. QED
    BY <1>1, <1>5

\* Where no turn was interrupted and none has calls to run, the API's rule is kept.
LEMMA PairedUndisturbed ==
    ASSUME TypeInv, CallInv, NEW p \in Peer, ~Interrupted(p),
           \A u \in Turn : Session(u) = p => todo[u] = <<>>
    PROVE  Paired(log[p])
  <1> DEFINE s == log[p]
  <1>1. Len(s) \in Nat /\ s \in Seq(Entry)
    BY LenProperties DEF TypeInv, TypeOK
  <1>2. ASSUME NEW i \in 1..Len(s), NEW u, u = s[i].turn
        PROVE  /\ u \in Turn /\ Session(u) = p /\ todo[u] = <<>> /\ i \in Mine(u)
               /\ CallsAt(u, i) = s[i].ids /\ i \in Places(u, s[i].kind)
               /\ Len(s[i].ids) \in Nat
    <2>1. s[i] \in Entry
      BY <1>1, ElementOfSeq
    <2>2. u \in Turn /\ Session(u) = p /\ s[i].ids \in Seq(Id)
      BY <1>2, <2>1 DEF TypeInv, Entry
    <2>. QED
      BY <1>2, <2>2 DEF Mine, Places, CallsAt
  <1>3. ASSUME NEW i \in 1..Len(s), s[i].kind = "assistant", NEW k \in 1..Len(s[i].ids)
        PROVE  i + k \in 1..Len(s) /\ s[i + k].kind = "result" /\ s[i + k].ids = <<s[i].ids[k]>>
    <2>1. PICK u : u = s[i].turn
      OBVIOUS
    <2>2. /\ u \in Turn /\ Session(u) = p /\ todo[u] = <<>> /\ i \in Mine(u)
          /\ CallsAt(u, i) = s[i].ids /\ i \in Places(u, "assistant") /\ Len(s[i].ids) \in Nat
      BY <1>2, <1>3, <2>1
    <2>3. Answered(u, i, k)
      BY <1>3, <2>2 DEF CallInv, Called, Open
    <2>4. PICK j \in Places(u, "result") :
             Since(u, i, j) = k /\ CallsAt(u, j) = <<CallsAt(u, i)[k]>>
      BY <2>3 DEF Answered
    <2>5. j \in Mine(u) /\ s[j].kind = "result" /\ j \in 1..Len(s) /\ CallsAt(u, j) = s[j].ids
      BY <2>2, <2>4 DEF Places, Mine, CallsAt
    <2>6. k \in Nat \ {0}
      BY <1>3, <2>2
    <2>7. j = i + k
      BY <2>2, <2>4, <2>5, <2>6, Contiguous
    <2>. QED
      BY <2>2, <2>4, <2>5, <2>7
  <1>4. ASSUME NEW j \in 1..Len(s), s[j].kind = "result"
        PROVE  \E i \in 1..Len(s) : s[i].kind = "assistant" /\ j \in Window(s, i)
    <2>1. PICK u : u = s[j].turn
      OBVIOUS
    <2>2. /\ u \in Turn /\ Session(u) = p /\ j \in Mine(u) /\ j \in Places(u, "result")
      BY <1>2, <1>4, <2>1
    <2>3. PICK i \in Places(u, "assistant") : Since(u, i, j) \in 1..Len(CallsAt(u, i))
      BY <2>2 DEF CallInv, Called
    <2>4. /\ i \in Mine(u) /\ i \in 1..Len(s) /\ s[i].turn = u /\ s[i].kind = "assistant"
          /\ CallsAt(u, i) = s[i].ids
      BY <2>2, <2>3 DEF Places, Mine, CallsAt
    <2>5. Len(s[i].ids) \in Nat
      BY <1>2, <2>4
    <2>6. PICK k : k = Since(u, i, j)
      OBVIOUS
    <2>7. k \in 1..Len(s[i].ids) /\ k \in Nat \ {0}
      BY <2>3, <2>4, <2>5, <2>6
    <2>8. j = i + k
      BY <2>2, <2>4, <2>6, <2>7, Contiguous
    <2>. QED
      BY <1>1, <2>4, <2>5, <2>7, <2>8 DEF Window
  <1> DEFINE Asks == {i \in 1..Len(s) : s[i].kind = "assistant"}
             Answers == {k \in 1..Len(s) : s[k].kind = "result"}
  <1>5. ASSUME NEW i \in Asks
        PROVE  {s[k].ids : k \in Window(s, i) \cap Answers} = {<<s[i].ids[j]>> : j \in 1..Len(s[i].ids)}
    <2>1. PICK q : q = Len(s[i].ids)
      OBVIOUS
    <2>2. i \in 1..Len(s) /\ i \in Nat /\ s[i].kind = "assistant" /\ q \in Nat
      BY <1>1, <1>2, <2>1
    <2>3. Window(s, i) = (i + 1)..(i + q)
      BY <2>1 DEF Window
    <2>4. \A k \in Window(s, i) : k - i \in 1..q /\ i + (k - i) = k
      BY <2>2, <2>3
    <2>5. \A k \in 1..q : i + k \in Window(s, i) /\ i + k \in Answers /\ s[i + k].ids = <<s[i].ids[k]>>
      BY <1>3, <2>1, <2>2, <2>3
    <2>6. \A k \in Window(s, i) : s[k].ids = <<s[i].ids[k - i]>>
      BY <2>4, <2>5
    <2>. HIDE DEF s, Asks, Answers
    <2> DEFINE given == {s[k].ids : k \in Window(s, i) \cap Answers}
               asked == {<<s[i].ids[j]>> : j \in 1..q}
    <2>7. ASSUME NEW x \in given
          PROVE  x \in asked
      <3>1. PICK k \in Window(s, i) : x = s[k].ids
        OBVIOUS
      <3>. QED
        BY <2>4, <2>6, <3>1
    <2>8. ASSUME NEW x \in asked
          PROVE  x \in given
      <3>1. PICK k \in 1..q : x = <<s[i].ids[k]>>
        OBVIOUS
      <3>2. x = s[i + k].ids /\ i + k \in Window(s, i) \cap Answers
        BY <2>5, <3>1
      <3>. QED
        BY <3>2
    <2>9. given = asked
      BY <2>7, <2>8
    <2>. QED
      BY <2>1, <2>9
  <1>6. \A k \in Answers : \E i \in Asks : k \in Window(s, i)
    BY <1>4
  <1>. QED
    BY <1>5, <1>6 DEF Paired


\* What was once between the messages of a turn stays there.
LEMMA InterruptedStays ==
    ASSUME TypeOK, NEW t \in Turn, Grown(t), NEW p \in Peer, Interrupted(p)
    PROVE  Interrupted(p)'
  <1>1. /\ Len(log[p]) \in Nat /\ Len(log'[p]) \in Nat /\ Len(log[p]) <= Len(log'[p])
        /\ \A i \in 1..Len(log[p]) : log'[p][i] = log[p][i] /\ i \in 1..Len(log'[p])
    BY LenProperties DEF TypeOK, Grown
  <1>. QED
    BY SMTT(30), <1>1 DEF Interrupted

LEMMA OvertakenStays ==
    ASSUME TypeOK, NEW t \in Turn, Grown(t), NEW u \in Turn, Overtaken(u)
    PROVE  Overtaken(u)'
  <1> DEFINE p == Session(u)
  <1>1. /\ Len(log[p]) \in Nat /\ Len(log'[p]) \in Nat /\ Len(log[p]) <= Len(log'[p])
        /\ \A i \in 1..Len(log[p]) : log'[p][i] = log[p][i] /\ i \in 1..Len(log'[p])
    BY SessionIsPeer, LenProperties DEF TypeOK, Grown
  <1>. QED
    BY <1>1 DEF Overtaken, Session

\* A turn that was overtaken and goes on was interrupted.
LEMMA OvertakenGoesOn ==
    ASSUME TypeOK, NEW u \in Turn, NEW m \in Entry, m.turn = u, Appends(u, <<m>>), Overtaken(u)
    PROVE  Interrupted(Session(u))'
  <1> DEFINE p == Session(u)
             n == Len(log[p])
  <1>1. PICK i \in 1..n, j \in 1..n : i < j /\ log[p][i].turn = u /\ log[p][j].turn # u
    BY DEF Overtaken
  <1>2. /\ n \in Nat /\ Len(log'[p]) = n + 1 /\ log'[p][n + 1] = m
        /\ \A l \in 1..n : log'[p][l] = log[p][l]
    BY OneMore
  <1>3. PICK k : k = n + 1
    OBVIOUS
  <1>4. /\ i \in 1..Len(log'[p]) /\ j \in 1..Len(log'[p]) /\ k \in 1..Len(log'[p])
        /\ i < j /\ j < k
        /\ log'[p][i].turn = u /\ log'[p][j].turn # u /\ log'[p][k].turn = u
    BY <1>1, <1>2, <1>3
  <1>. QED
    BY <1>4 DEF Interrupted, Session

\* Only a turn that has the loop, or finds it free, takes a step.
LEMMA NobodyElse ==
    ASSUME TypeInv, HasLoop, NEW t \in Turn, Run(t)
    PROVE  /\ \A u \in Turn \ {t} : ~Busy(u) /\ ~Busy(u)'
           /\ Busy(t) \/ Begin(t) \/ Return(t)
  <1>1. Busy(t) \/ Begin(t) \/ Return(t)
    BY DEF Run, Fail, Refused, Conclude, Choose, RunTool, Delegate, NextStep, Exhaust, Busy
  <1>2. \A u \in Turn \ {t} : ~Busy(u)
    BY <1>1 DEF HasLoop, Busy, Begin, Return, LoopFree
  <1>. QED
    BY <1>1, <1>2, StepAlone DEF Alone, Busy

LEMMA HasLoopNext ==
    ASSUME TypeInv, HasLoop, NEW t \in Turn, Run(t)
    PROVE  HasLoop'
  <1> DEFINE p == Session(t)
             Last == Len(log'[p]) > 0 /\ log'[p][Len(log'[p])].turn = t
  <1>0. TypeOK
    BY DEF TypeInv
  <1>1. ASSUME NEW m \in Entry, m.turn = t, Appends(t, <<m>>)
        PROVE  Last
    <2>1. Len(log[p]) \in Nat /\ Len(log'[p]) = Len(log[p]) + 1 /\ log'[p][Len(log[p]) + 1] = m
      BY <1>0, <1>1, OneMore
    <2>. QED
      BY <1>1, <2>1
  <1>2. ASSUME Busy(t)'
        PROVE  Last
    <2>1. CASE Begin(t)
      <3>1. Len(log'[p]) # 0 /\ log'[p][Len(log'[p])] = Message("user", t, <<>>)
        BY <1>0, <2>1, BeginGrows
      <3>2. Len(log'[p]) \in Nat
        BY SessionIsPeer, StepGrows, LenProperties DEF Grown
      <3>. QED
        BY <3>1, <3>2 DEF Message
    <2>2. CASE Choose(t)
      <3>1. PICK ids \in Seq(Id) : Appends(t, <<Message("assistant", t, ids)>>)
        BY <2>2, ChooseAppends
      <3>2. Message("assistant", t, ids) \in Entry /\ Message("assistant", t, ids).turn = t
        BY MessageIsEntry
      <3>. QED
        BY <1>1, <3>1, <3>2
    <2>3. CASE RunTool(t) \/ Return(t)
      <3>1. todo[t] # <<>> /\ Result(t)
        BY <2>3 DEF RunTool, Return, TypeInv, Pending
      <3>2. PICK m \in Entry : m.turn = t /\ Appends(t, <<m>>)
        BY <3>1, ResultIsAdded
      <3>. QED
        BY <1>1, <3>2
    <2>4. CASE NextStep(t)
      BY <2>4 DEF NextStep, HasLoop, Busy
    <2>5. CASE Fail(t) \/ Refused(t) \/ Conclude(t) \/ Delegate(t) \/ Exhaust(t)
      BY <1>2, <2>5 DEF Fail, Refused, Conclude, Delegate, Exhaust, End, Busy, TypeInv, TypeOK
    <2>. QED
      BY <2>1, <2>2, <2>3, <2>4, <2>5 DEF Run
  <1>. QED
    BY <1>2, NobodyElse DEF HasLoop, Session

LEMMA RefusalNext == TypeInv /\ CallInv /\ RefusalInv /\ [Next]_vars => RefusalInv'
  <1>. SUFFICES ASSUME TypeInv, CallInv, RefusalInv, [Next]_vars
                PROVE  RefusalInv'
    OBVIOUS
  <1>1. CASE UNCHANGED vars
    BY <1>1 DEF vars, RefusalInv, HasLoop, Busy, Interrupted, Overtaken, Session
  <1>2. ASSUME NEW t \in Turn, Run(t)
        PROVE  RefusalInv'
    <2>1. TypeOK /\ Grown(t) /\ Alone(t) /\ HasLoop
      BY <1>2, StepGrows, StepAlone DEF TypeInv, RefusalInv
    <2>2. HasLoop'
      BY <1>2, <2>1, HasLoopNext
    <2>3. ASSUME NEW x \in Turn, reason'[x] = "refused", reason[x] # "refused"
          PROVE  \/ Interrupted(Session(x))'
                 \/ \E u \in Turn \ {x} : Session(u) = Session(x) /\ todo'[u] # <<>> /\ Overtaken(u)'
      <3>1. x = t /\ Refused(t)
        <4>1. x = t
          BY <2>1, <2>3 DEF Alone
        <4>2. CASE Begin(t) \/ Delegate(t) \/ NextStep(t) \/ Choose(t) \/ RunTool(t) \/ Return(t)
          BY <2>3, <4>1, <4>2 DEF Begin, Delegate, NextStep, Choose, RunTool, Return, Result
        <4>3. CASE Fail(t) \/ Conclude(t) \/ Exhaust(t)
          BY <2>3, <4>1, <4>3 DEF Fail, Conclude, Exhaust, End, TypeInv, TypeOK
        <4>. QED
          BY <1>2, <4>1, <4>2, <4>3 DEF Run
      <3>2. CASE Interrupted(Session(t))
        BY <2>1, <3>1, <3>2, SessionIsPeer, InterruptedStays DEF Session
      <3>3. CASE ~Interrupted(Session(t))
        <4>1. PICK u \in Turn : Session(u) = Session(t) /\ todo[u] # <<>>
          BY <3>1, <3>3, SessionIsPeer, PairedUndisturbed DEF Refused
        <4>2. u # t
          BY <3>1, <4>1 DEF Refused, TypeInv, Pending
        <4>3. Overtaken(u)
          <5> DEFINE n == Len(log[Session(u)])
          <5>1. PICK i \in Places(u, "assistant") : Open(u, i)
            BY <4>1 DEF CallInv, Called
          <5>2. i \in 1..n /\ log[Session(u)][i].turn = u
            BY DEF Places, Mine
          <5>3. n > 0 /\ log[Session(u)][n].turn = t
            BY <2>1, <3>1, <4>1 DEF HasLoop, Busy, Refused
          <5>4. n \in Nat
            BY SessionIsPeer, LenProperties DEF TypeInv, TypeOK
          <5>5. i < n /\ n \in 1..n
            BY <4>2, <5>2, <5>3, <5>4
          <5>. QED
            BY <4>2, <5>2, <5>3, <5>5 DEF Overtaken
        <4>4. todo'[u] # <<>> /\ Overtaken(u)'
          BY <2>1, <4>1, <4>2, <4>3, OvertakenStays DEF Alone
        <4>. QED
          BY <3>1, <4>1, <4>2, <4>4
      <3>. QED
        BY <3>2, <3>3
    <2>4. ASSUME NEW x \in Turn, reason[x] = "refused"
          PROVE  \/ Interrupted(Session(x))'
                 \/ \E u \in Turn \ {x} : Session(u) = Session(x) /\ todo'[u] # <<>> /\ Overtaken(u)'
      <3>1. CASE Interrupted(Session(x))
        <4>1. Session(x) \in Peer /\ Session(x)' = Session(x)
          BY SessionIsPeer DEF Session
        <4>2. ASSUME NEW p \in Peer, Interrupted(p)
              PROVE  Interrupted(p)'
          BY <2>1, <4>2, InterruptedStays
        <4>. QED
          BY <3>1, <4>1, <4>2 DEF Interrupted, Session
      <3>2. ASSUME NEW u \in Turn \ {x}, Session(u) = Session(x), todo[u] # <<>>, Overtaken(u)
            PROVE  \/ Interrupted(Session(x))'
                   \/ todo'[u] # <<>> /\ Overtaken(u)'
        <4>1. Overtaken(u)'
          BY <2>1, <3>2, OvertakenStays
        <4>2. ASSUME todo'[u] = <<>>
              PROVE  Interrupted(Session(x))'
          <5>1. t = u
            BY <2>1, <3>2, <4>2 DEF Alone
          <5>2. ~(Begin(t) \/ Delegate(t) \/ NextStep(t))
            BY <3>2, <4>2, <5>1 DEF Begin, Delegate, NextStep
          <5>3. ~(Fail(t) \/ Refused(t) \/ Conclude(t) \/ Choose(t) \/ Exhaust(t))
            BY <3>2, <5>1 DEF Fail, Refused, Conclude, Choose, Exhaust, TypeInv, Pending
          <5>4. Result(u)
            BY <1>2, <5>1, <5>2, <5>3 DEF Run, RunTool, Return
          <5>5. PICK m \in Entry : m.turn = u /\ Appends(u, <<m>>)
            BY <3>2, <5>4, ResultIsAdded
          <5>6. Interrupted(Session(u))'
            BY <2>1, <3>2, <5>5, OvertakenGoesOn
          <5>. QED
            BY <3>2, <5>6 DEF Interrupted, Session
        <4>. QED
          BY <4>1, <4>2
      <3>. QED
        BY <2>4, <3>1, <3>2 DEF RefusalInv
    <2>. QED
      BY <2>2, <2>3, <2>4 DEF RefusalInv, Session
  <1>. QED
    BY <1>1, <1>2 DEF Next

\* The turns of different peers never make each other's requests fail, nor do turns of one
\* peer that follow each other: if the API refuses a request, a turn of the same peer is
\* suspended with calls to run, or was interrupted by another one (node.py keeps a session
\* per peer and runs its turns as they come).
THEOREM RefusedOnlyWhereTurnsMeet == Spec => []RefusedOnlyIfInterrupted
  <1>1. Init => RefusalInv
    BY DEF Init, RefusalInv, HasLoop, Busy
  <1>2. RefusalInv => RefusedOnlyIfInterrupted
    BY DEF RefusalInv, RefusedOnlyIfInterrupted
  <1>. QED
    BY <1>1, <1>2, TypesHold, CallsHold, RefusalNext, PTL DEF Spec

=============================================================================
