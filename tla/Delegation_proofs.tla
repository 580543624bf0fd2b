-------------------------- MODULE Delegation_proofs --------------------------
(***************************************************************************)
(* What holds of the delegation protocol for every cluster, whitelist and  *)
(* bound: the types, the exactness of _in_flight and _pending, whose       *)
(* answers a coroutine is given, and the promise of ChainSlots.            *)
(***************************************************************************)
EXTENDS Delegation, TLAPS

\* An activation that was accepted has a task.
Assigned == \A f \in Act : pc[f] # "free" => task[f] \in Msg

TypeInv == TypeOK /\ Assigned

-------------------------------------------------------------------------------
(* Messages.                                                               *)

\* The fields of an envelope have the types the handlers rely on.
LEMMA MsgFields ==
    ASSUME NEW m \in Msg
    PROVE  /\ m.to \in Bot /\ m.from \in Bot /\ m.tid \in Id
           /\ m.kind \in {"task", "return"}
  BY DEF Msg

\* What execute publishes for a live activation is an envelope.
LEMMA CallIsMsg ==
    ASSUME TypeInv, NEW f \in Act, pc[f] # "free",
           NEW to \in Bot, NEW t \in Id
    PROVE  Call(f, to, t) \in Msg
  <1>1. task[f] \in Msg
    BY DEF TypeInv, Assigned
  <1>2. At(f) \in Bot
    BY <1>1, MsgFields DEF At
  <1>3. calls[f] + 1 \in Nat
    BY DEF TypeInv, TypeOK
  <1>4. f \in ActOrNone
    BY DelegationAssumption DEF Act, ActOrNone
  <1>. QED
    BY <1>2, <1>3, <1>4 DEF Call, Msg

\* What handle_incoming publishes as the answer of an activation is an envelope.
LEMMA ReplyIsMsg ==
    ASSUME TypeInv, NEW f \in Act, pc[f] # "free"
    PROVE  Reply(f) \subseteq Msg
  <1>1. task[f] \in Msg
    BY DEF TypeInv, Assigned
  <1>2. task[f].from \in Bot /\ Tid(f) \in Id
    BY <1>1, MsgFields DEF Tid
  <1>3. f \in ActOrNone
    BY DelegationAssumption DEF Act, ActOrNone
  <1>. QED
    BY <1>2, <1>3 DEF Reply, Msg

\* The ids that execute may choose are ids.
LEMMA CallIdsAreIds ==
    ASSUME TypeInv, NEW b \in Bot
    PROVE  CallIds(b) \subseteq Id
  BY DelegationAssumption DEF CallIds, Fresh, TypeInv, TypeOK

\* An activation that is not free sits at a bot, under an id.
LEMMA Placed ==
    ASSUME TypeInv, NEW f \in Act, pc[f] # "free"
    PROVE  At(f) \in Bot /\ Tid(f) \in Id
  BY MsgFields DEF TypeInv, Assigned, At, Tid

-------------------------------------------------------------------------------
(* Types.                                                                  *)

LEMMA TypeInit == Init => TypeInv
  BY DelegationAssumption
     DEF Init, TypeInv, TypeOK, Assigned, Act, ActOrNone

LEMMA TypeReceive ==
    ASSUME TypeInv, NEW m \in net, Receive(m)
    PROVE  TypeInv'
  <1>1. m \in Msg
    BY DEF TypeInv, TypeOK
  <1>2. CASE Consume(m)
    BY <1>1, <1>2 DEF Consume, world, tables, TypeInv, TypeOK, Assigned
  <1>3. CASE Ignore(m)
    BY <1>1, <1>3 DEF Ignore, world, tables, locals, TypeInv, TypeOK, Assigned
  <1>4. CASE Accept(m)
    BY <1>1, <1>4 DEF Accept, world, tables, TypeInv, TypeOK, Assigned
  <1>. QED
    BY <1>2, <1>3, <1>4 DEF Receive

LEMMA TypeStep ==
    ASSUME TypeInv, NEW f \in Act, Step(f)
    PROVE  TypeInv'
  <1>1. CASE Start(f)
    <2>1. At(f) \in Bot /\ Tid(f) \in Id
      BY <1>1, Placed DEF Start
    <2>. QED
      BY <1>1, <2>1 DEF Start, world, TypeInv, TypeOK, Assigned
  <1>2. CASE Reject(f)
    <2>1. Reply(f) \subseteq Msg
      BY <1>2, ReplyIsMsg DEF Reject
    <2>. QED
      BY <1>2, <2>1 DEF Reject, world, tables, TypeInv, TypeOK, Assigned
  <1>3. CASE Delegate(f)
    <2>1. At(f) \in Bot
      BY <1>3, Placed DEF Delegate
    <2>2. PICK to \in Peers[At(f)] \ {At(f)}, t \in CallIds(At(f)) :
            /\ net' = net \cup {Call(f, to, t)}
            /\ asked' = [asked EXCEPT ![f] = Call(f, to, t)]
            /\ sent' = [sent EXCEPT ![At(f)] = @ \cup {t}]
            /\ used' = used \cup {t}
      BY <1>3 DEF Delegate
    <2>3. to \in Bot /\ t \in Id
      BY <2>1, <2>2, CallIdsAreIds, DelegationAssumption
    <2>4. Call(f, to, t) \in Msg
      BY <1>3, <2>3, CallIsMsg DEF Delegate
    <2>. QED
      BY <1>3, <2>1, <2>2, <2>3, <2>4 DEF Delegate, TypeInv, TypeOK, Assigned
  <1>4. CASE DelegateFails(f)
    <2>1. At(f) \in Bot
      BY <1>4, Placed DEF DelegateFails
    <2>2. PICK to \in Peers[At(f)] \ {At(f)}, t \in CallIds(At(f)), kept \in BOOLEAN :
            /\ net' = IF kept THEN net \cup {Call(f, to, t)} ELSE net
            /\ sent' = [sent EXCEPT ![At(f)] = @ \cup {t}]
            /\ used' = used \cup {t}
      BY <1>4 DEF DelegateFails
    <2>3. to \in Bot /\ t \in Id
      BY <2>1, <2>2, CallIdsAreIds, DelegationAssumption
    <2>4. Call(f, to, t) \in Msg
      BY <1>4, <2>3, CallIsMsg DEF DelegateFails
    <2>. QED
      BY <1>4, <2>1, <2>2, <2>3, <2>4 DEF DelegateFails, TypeInv, TypeOK, Assigned
  <1>5. CASE Await(f)
    <2>1. f \in ActOrNone
      BY DelegationAssumption DEF Act, ActOrNone
    <2>2. At(f) \in Bot
      BY <1>5, Placed DEF Await
    <2>3. [pending[At(f)] EXCEPT ![asked[f].tid] = f] \in [Id -> ActOrNone]
      BY <2>1, <2>2 DEF TypeInv, TypeOK
    <2>. QED
      BY <1>5, <2>2, <2>3 DEF Await, world, TypeInv, TypeOK, Assigned
  <1>6. CASE Leave(f) /\ pc[f] = "waiting"
    <2>1. 0 \in ActOrNone
      BY DelegationAssumption DEF ActOrNone
    <2>2. At(f) \in Bot
      BY <1>6, Placed
    <2>3. [pending[At(f)] EXCEPT ![asked[f].tid] = 0] \in [Id -> ActOrNone]
      BY <2>1, <2>2 DEF TypeInv, TypeOK
    <2>. QED
      BY <1>6, <2>2, <2>3 DEF Leave, world, TypeInv, TypeOK, Assigned
  <1>7. CASE Fill(f)
    BY <1>7 DEF Fill, world, tables, TypeInv, TypeOK, Assigned
  <1>8. CASE Finish(f)
    <2>1. At(f) \in Bot
      BY <1>8, Placed DEF Finish
    <2>2. Reply(f) \subseteq Msg
      BY <1>8, ReplyIsMsg DEF Finish
    <2>. QED
      BY <1>8, <2>1, <2>2 DEF Finish, world, TypeInv, TypeOK, Assigned
  <1>. QED
    BY <1>1, <1>2, <1>3, <1>4, <1>5, <1>6, <1>7, <1>8 DEF Step, Resume, Timeout

LEMMA TypeWorld ==
    ASSUME TypeInv, Inject \/ (\E m \in net : Lose(m)) \/ (\E b \in Bot : Crash(b))
    PROVE  TypeInv'
  <1>1. CASE Inject
    <2>0. PICK r \in Requester, t \in Fresh : \E to \in Peers[r] \ {r} :
            /\ net' = net \cup {[kind |-> "task", to |-> to, from |-> r, tid |-> t,
                                 src |-> 0, call |-> injected + 1]}
            /\ used' = used \cup {t}
      BY <1>1 DEF Inject
    <2>1. PICK to \in Peers[r] \ {r} :
            /\ net' = net \cup {[kind |-> "task", to |-> to, from |-> r, tid |-> t,
                                 src |-> 0, call |-> injected + 1]}
            /\ used' = used \cup {t}
      BY <2>0
    <2>2. r \in Bot /\ to \in Bot /\ t \in Id
      BY <2>1, DelegationAssumption DEF Fresh
    <2>3. 0 \in ActOrNone /\ injected + 1 \in Nat
      BY DelegationAssumption DEF ActOrNone, TypeInv, TypeOK
    <2>4. [kind |-> "task", to |-> to, from |-> r, tid |-> t,
           src |-> 0, call |-> injected + 1] \in Msg
      BY <2>2, <2>3 DEF Msg
    <2>. QED
      BY <1>1, <2>1, <2>2, <2>3, <2>4
         DEF Inject, tables, locals, TypeInv, TypeOK, Assigned
  <1>2. CASE \E m \in net : Lose(m)
    BY <1>2 DEF Lose, tables, locals, TypeInv, TypeOK, Assigned
  <1>3. CASE \E b \in Bot : Crash(b)
    <2>1. PICK b \in Bot : Crash(b)
      BY <1>3
    <2>2. 0 \in ActOrNone
      BY DelegationAssumption DEF ActOrNone
    <2>. QED
      BY <2>1, <2>2 DEF Crash, TypeInv, TypeOK, Assigned
  <1>. QED
    BY <1>1, <1>2, <1>3

LEMMA TypeNext == TypeInv /\ [Next]_vars => TypeInv'
  <1>. SUFFICES ASSUME TypeInv, [Next]_vars
                PROVE  TypeInv'
    OBVIOUS
  <1>1. CASE Next
    BY <1>1, TypeReceive, TypeStep, TypeWorld DEF Next
  <1>2. CASE UNCHANGED vars
    BY <1>2 DEF vars, TypeInv, TypeOK, Assigned
  <1>. QED
    BY <1>1, <1>2

\* The types, and that every accepted activation has a task.
LEMMA TypeInvariant == Spec => []TypeInv
  <1>. QED
    BY TypeInit, TypeNext, PTL DEF Spec

\* Every table of every bot keeps its type: no handler reads a table at a bot
\* or an id that does not exist.
THEOREM TypeCorrect == Spec => []TypeOK
  <1>1. TypeInv => TypeOK
    BY DEF TypeInv
  <1>. QED
    BY <1>1, TypeInvariant, PTL

-------------------------------------------------------------------------------
(* _in_flight.                                                             *)

LEMMA SlotsInit == Init => SlotsExact
  BY DEF Init, SlotsExact, Live

\* What keeps the activations, their tasks and _in_flight keeps SlotsExact.
LEMMA SlotsFrame ==
    ASSUME SlotsExact, UNCHANGED <<task, inFlight>>,
           \A f \in Act : Live(f)' = Live(f)
    PROVE  SlotsExact'
  BY DEF SlotsExact, At, Tid

LEMMA SlotsReceive ==
    ASSUME TypeInv, SlotsExact, NEW m \in net, Receive(m)
    PROVE  SlotsExact'
  <1>1. CASE Consume(m) \/ Ignore(m)
    <2>1. UNCHANGED <<pc, task, inFlight>>
      BY <1>1 DEF Consume, Ignore, tables, locals
    <2>. QED
      BY <2>1, SlotsFrame DEF Live
  <1>2. CASE Accept(m)
    <2>1. PICK f \in Act :
            /\ pc[f] = "free"
            /\ pc' = [pc EXCEPT ![f] = "queued"]
            /\ task' = [task EXCEPT ![f] = m]
      BY <1>2 DEF Accept
    <2>2. inFlight' = inFlight
      BY <1>2 DEF Accept, tables
    <2>3. \A g \in Act : Live(g)' = Live(g)
      BY <2>1 DEF Live, TypeInv, TypeOK
    <2>4. \A g \in Act : Live(g) => task'[g] = task[g]
      BY <2>1 DEF Live, TypeInv, TypeOK
    <2>. QED
      BY <2>2, <2>3, <2>4 DEF SlotsExact, At, Tid
  <1>. QED
    BY <1>1, <1>2 DEF Receive

LEMMA SlotsStep ==
    ASSUME TypeInv, SlotsExact, NEW f \in Act, Step(f)
    PROVE  SlotsExact'
  <1>1. CASE Start(f)
    <2>1. At(f) \in Bot /\ Tid(f) \in Id
      BY <1>1, Placed DEF Start
    <2>2. /\ task' = task
          /\ inFlight' = [inFlight EXCEPT ![At(f)] = @ \cup {Tid(f)}]
          /\ Tid(f) \notin inFlight[At(f)]
      BY <1>1 DEF Start
    <2>3. \A g \in Act : Live(g)' <=> Live(g) \/ g = f
      BY <1>1 DEF Start, Live, TypeInv, TypeOK
    <2>4. \A g \in Act : At(g)' = At(g) /\ Tid(g)' = Tid(g)
      BY <2>2 DEF At, Tid
    <2>5. \A b \in Bot : inFlight'[b] =
              IF b = At(f) THEN inFlight[b] \cup {Tid(f)} ELSE inFlight[b]
      BY <2>2 DEF TypeInv, TypeOK
    <2>6. \A g \in Act : Live(g) => At(g) \in Bot
      BY Placed DEF Live
    <2>7. ASSUME NEW g \in Act, Live(g) \/ g = f
          PROVE  Tid(g) \in inFlight'[At(g)]
      BY <2>1, <2>5, <2>6, <2>7 DEF SlotsExact
    <2>8. ASSUME NEW b \in Bot, NEW t \in inFlight'[b]
          PROVE  \E g \in Act : (Live(g) \/ g = f) /\ At(g) = b /\ Tid(g) = t
      <3>1. CASE t \in inFlight[b]
        BY <3>1 DEF SlotsExact
      <3>2. CASE b = At(f) /\ t = Tid(f)
        BY <3>2
      <3>. QED
        BY <2>5, <3>1, <3>2
    <2>9. ASSUME NEW g \in Act, NEW h \in Act, Live(g)', Live(h)',
                 At(g) = At(h), Tid(g) = Tid(h)
          PROVE  g = h
      BY <2>2, <2>3, <2>9 DEF SlotsExact
    <2>. QED
      BY <2>3, <2>4, <2>7, <2>8, <2>9 DEF SlotsExact
  <1>2. CASE Finish(f)
    <2>1. At(f) \in Bot /\ Live(f)
      BY <1>2, Placed DEF Finish, Live
    <2>2. /\ task' = task
          /\ inFlight' = [inFlight EXCEPT ![At(f)] = @ \ {Tid(f)}]
      BY <1>2 DEF Finish
    <2>3. \A g \in Act : Live(g)' <=> Live(g) /\ g # f
      BY <1>2 DEF Finish, Live, TypeInv, TypeOK
    <2>4. \A g \in Act : At(g)' = At(g) /\ Tid(g)' = Tid(g)
      BY <2>2 DEF At, Tid
    <2>5. \A b \in Bot : inFlight'[b] =
              IF b = At(f) THEN inFlight[b] \ {Tid(f)} ELSE inFlight[b]
      BY <2>2 DEF TypeInv, TypeOK
    <2>6. \A g \in Act : Live(g) => At(g) \in Bot
      BY Placed DEF Live
    <2>7. ASSUME NEW g \in Act, Live(g), g # f
          PROVE  Tid(g) \in inFlight'[At(g)]
      BY ZenonT(30), <2>1, <2>5, <2>6, <2>7 DEF SlotsExact
    <2>8. ASSUME NEW b \in Bot, NEW t \in inFlight'[b]
          PROVE  \E g \in Act : Live(g) /\ g # f /\ At(g) = b /\ Tid(g) = t
      <3>1. PICK g \in Act : Live(g) /\ At(g) = b /\ Tid(g) = t
        BY <2>5 DEF SlotsExact
      <3>2. g # f
        BY <2>5, <3>1
      <3>. QED
        BY <3>1, <3>2
    <2>9. ASSUME NEW g \in Act, NEW h \in Act, Live(g)', Live(h)',
                 At(g) = At(h), Tid(g) = Tid(h)
          PROVE  g = h
      BY <2>3, <2>9 DEF SlotsExact
    <2>. QED
      BY <2>3, <2>4, <2>7, <2>8, <2>9 DEF SlotsExact
  <1>3. CASE Reject(f) \/ Delegate(f) \/ DelegateFails(f) \/ Await(f)
             \/ Fill(f) \/ Resume(f) \/ Timeout(f)
    <2>1. UNCHANGED <<task, inFlight>>
      BY <1>3 DEF Reject, Delegate, DelegateFails, Await, Fill, Resume, Timeout, Leave, tables
    <2>2. \A g \in Act : Live(g)' = Live(g)
      BY <1>3 DEF Reject, Delegate, DelegateFails, Await, Fill, Resume, Timeout, Leave,
                  Live, TypeInv, TypeOK
    <2>. QED
      BY <2>1, <2>2, SlotsFrame
  <1>. QED
    BY <1>1, <1>2, <1>3 DEF Step

LEMMA SlotsWorld ==
    ASSUME TypeInv, SlotsExact,
           Inject \/ (\E m \in net : Lose(m)) \/ (\E b \in Bot : Crash(b))
    PROVE  SlotsExact'
  <1>1. CASE Inject \/ (\E m \in net : Lose(m))
    <2>1. UNCHANGED <<pc, task, inFlight>>
      BY <1>1 DEF Inject, Lose, tables, locals
    <2>. QED
      BY <2>1, SlotsFrame DEF Live
  <1>2. CASE \E b \in Bot : Crash(b)
    <2>1. PICK b \in Bot : Crash(b)
      BY <1>2
    <2>2. /\ task' = task
          /\ inFlight' = [inFlight EXCEPT ![b] = {}]
      BY <2>1 DEF Crash
    <2>3. \A g \in Act : Live(g)' <=> Live(g) /\ At(g) # b
      BY <2>1 DEF Crash, Live
    <2>4. \A g \in Act : At(g)' = At(g) /\ Tid(g)' = Tid(g)
      BY <2>2 DEF At, Tid
    <2>5. \A d \in Bot : inFlight'[d] = IF d = b THEN {} ELSE inFlight[d]
      BY <2>2 DEF TypeInv, TypeOK
    <2>6. \A g \in Act : Live(g) => At(g) \in Bot
      BY Placed DEF Live
    <2>. QED
      BY <2>3, <2>4, <2>5, <2>6 DEF SlotsExact
  <1>. QED
    BY <1>1, <1>2

LEMMA SlotsNext == TypeInv /\ SlotsExact /\ [Next]_vars => SlotsExact'
  <1>. SUFFICES ASSUME TypeInv, SlotsExact, [Next]_vars
                PROVE  SlotsExact'
    OBVIOUS
  <1>1. CASE Next
    BY <1>1, SlotsReceive, SlotsStep, SlotsWorld DEF Next
  <1>2. CASE UNCHANGED vars
    BY <1>2, SlotsFrame DEF vars, Live
  <1>. QED
    BY <1>1, <1>2

\* _in_flight holds an id exactly while one coroutine of the bot works on it,
\* whatever is delivered, lost, answered late, timed out or restarted.
THEOREM SlotsAreExact == Spec => []SlotsExact
  <1>. QED
    BY TypeInvariant, SlotsInit, SlotsNext, PTL DEF Spec

-------------------------------------------------------------------------------
(* _pending.                                                               *)

LEMMA PendingInit == Init => PendingOwned
  BY DEF Init, PendingOwned

\* What keeps _pending keeps PendingOwned if every waiting activation goes on
\* to wait for the same delegation.
LEMMA PendingFrame ==
    ASSUME PendingOwned, TypeInv, pending' = pending,
           \A f \in Act : pc[f] = "waiting" =>
               pc'[f] = "waiting" /\ task'[f] = task[f] /\ asked'[f] = asked[f]
    PROVE  PendingOwned'
  <1>1. \A b \in Bot, t \in Id : pending[b][t] # 0 => pending[b][t] \in Act
    BY DelegationAssumption DEF TypeInv, TypeOK, Act, ActOrNone
  <1>. QED
    BY <1>1 DEF PendingOwned, At

LEMMA PendingReceive ==
    ASSUME TypeInv, PendingOwned, NEW m \in net, Receive(m)
    PROVE  PendingOwned'
  <1>1. pending' = pending
    BY DEF Receive, Consume, Ignore, Accept, tables
  <1>2. \A f \in Act : pc[f] = "waiting" =>
            pc'[f] = "waiting" /\ task'[f] = task[f] /\ asked'[f] = asked[f]
    BY DEF Receive, Consume, Ignore, Accept, tables, locals, TypeInv, TypeOK
  <1>. QED
    BY <1>1, <1>2, PendingFrame

LEMMA PendingStep ==
    ASSUME TypeInv, PendingOwned, NEW f \in Act, Step(f)
    PROVE  PendingOwned'
  <1>1. \A b \in Bot, t \in Id : pending[b][t] # 0 => pending[b][t] \in Act
    BY DelegationAssumption DEF TypeInv, TypeOK, Act, ActOrNone
  <1>2. CASE Await(f)
    <2>1. At(f) \in Bot /\ f # 0
      BY <1>2, Placed, DelegationAssumption DEF Await, Act
    <2>2. \A b \in Bot, t \in Id : pending'[b][t] =
              IF b = At(f) /\ t = asked[f].tid THEN f ELSE pending[b][t]
      BY <1>2, <2>1 DEF Await, TypeInv, TypeOK
    <2>3. /\ pc' = [pc EXCEPT ![f] = "waiting"] /\ pc[f] = "sending"
          /\ UNCHANGED <<task, asked>>
      BY <1>2 DEF Await
    <2>4. \A g \in Act : pc'[g] = IF g = f THEN "waiting" ELSE pc[g]
      BY <2>3 DEF TypeInv, TypeOK
    <2>. QED
      BY <1>1, <2>1, <2>2, <2>3, <2>4 DEF PendingOwned, At
  <1>3. CASE Leave(f) /\ pc[f] = "waiting"
    <2>1. At(f) \in Bot
      BY <1>3, Placed
    <2>2. \A b \in Bot, t \in Id : pending'[b][t] =
              IF b = At(f) /\ t = asked[f].tid THEN 0 ELSE pending[b][t]
      BY <1>3, <2>1 DEF Leave, TypeInv, TypeOK
    <2>3. \A g \in Act : g # f =>
              pc'[g] = pc[g] /\ task'[g] = task[g] /\ asked'[g] = asked[g]
      BY <1>3 DEF Leave, TypeInv, TypeOK
    <2>. QED
      BY <1>1, <2>2, <2>3 DEF PendingOwned, At
  <1>4. CASE \/ Start(f) \/ Reject(f) \/ Delegate(f) \/ DelegateFails(f)
             \/ Fill(f) \/ Finish(f)
    <2>1. pending' = pending
      BY <1>4 DEF Start, Reject, Delegate, DelegateFails, Fill, Finish, tables
    <2>2. \A g \in Act : pc[g] = "waiting" =>
              pc'[g] = "waiting" /\ task'[g] = task[g] /\ asked'[g] = asked[g]
      BY <1>4 DEF Start, Reject, Delegate, DelegateFails, Fill, Finish, TypeInv, TypeOK,
                  tables
    <2>. QED
      BY <2>1, <2>2, PendingFrame
  <1>. QED
    BY <1>2, <1>3, <1>4 DEF Step, Resume, Timeout

LEMMA PendingWorld ==
    ASSUME TypeInv, PendingOwned,
           Inject \/ (\E m \in net : Lose(m)) \/ (\E b \in Bot : Crash(b))
    PROVE  PendingOwned'
  <1>1. CASE Inject \/ (\E m \in net : Lose(m))
    <2>1. UNCHANGED <<pending, pc, task, asked>>
      BY <1>1 DEF Inject, Lose, tables, locals
    <2>. QED
      BY <2>1, PendingFrame
  <1>2. CASE \E b \in Bot : Crash(b)
    <2>1. PICK b \in Bot : Crash(b)
      BY <1>2
    <2>2. \A d \in Bot, t \in Id : pending'[d][t] = IF d = b THEN 0 ELSE pending[d][t]
      BY <2>1 DEF Crash, TypeInv, TypeOK
    <2>3. \A g \in Act : At(g) # b =>
              pc'[g] = pc[g] /\ task'[g] = task[g] /\ asked'[g] = asked[g]
      BY <2>1 DEF Crash, TypeInv, TypeOK
    <2>4. \A d \in Bot, t \in Id : pending[d][t] # 0 => pending[d][t] \in Act
      BY DelegationAssumption DEF TypeInv, TypeOK, Act, ActOrNone
    <2>. QED
      BY <2>2, <2>3, <2>4 DEF PendingOwned, At
  <1>. QED
    BY <1>1, <1>2

LEMMA PendingNext == TypeInv /\ PendingOwned /\ [Next]_vars => PendingOwned'
  <1>. SUFFICES ASSUME TypeInv, PendingOwned, [Next]_vars
                PROVE  PendingOwned'
    OBVIOUS
  <1>1. CASE Next
    BY <1>1, PendingReceive, PendingStep, PendingWorld DEF Next
  <1>2. CASE UNCHANGED vars
    BY <1>2, PendingFrame DEF vars
  <1>. QED
    BY <1>1, <1>2

\* Whatever _pending holds belongs to a coroutine that awaits it now, under the
\* id it delegated, although waiters overwrite and pop one another's entries.
THEOREM PendingIsOwned == Spec => []PendingOwned
  <1>. QED
    BY TypeInvariant, PendingInit, PendingNext, PTL DEF Spec

-------------------------------------------------------------------------------
(* Answers and echoes.                                                     *)

\* Why b would drop a message that carries t and names it as the sender: it has
\* sent t, it has no LLM, or it has forgotten in a restart what it sent.
Known(b, t) == t \in sent[b] \/ b \in Headless \/ crashes[b] > 0

\* A message's sender knows its id, and a return is on its way to its sender.
Traced(m) == Known(m.from, m.tid) /\ (m.kind = "return" => m.to = m.from)

\* The source of a return is an activation that handles another bot's task, of
\* the same id.
Answered(m) ==
    m.kind = "return" =>
        /\ m.src \in Act /\ pc[m.src] # "free"
        /\ task[m.src].kind = "task"
        /\ m.to = task[m.src].from /\ m.to # task[m.src].to
        /\ m.tid = task[m.src].tid

AnswerInv ==
    /\ \A m \in net : Traced(m) /\ Answered(m)
    /\ \A f \in Act : pc[f] # "free" => Traced(task[f])
    /\ \A f \in Act : pc[f] # "free" /\ task[f].kind = "return" => crashes[At(f)] > 0

LEMMA AnswerInit == Init => AnswerInv
  BY DEF Init, AnswerInv

\* No step makes a bot forget an id it has sent without counting a restart.
LEMMA KnownStays ==
    ASSUME TypeInv, Next
    PROVE  /\ \A b \in Bot, t \in Id : Known(b, t) => Known(b, t)'
           /\ \A b \in Bot : crashes[b] > 0 => crashes'[b] > 0
           /\ \A f \in Act : pc[f] # "free" => pc'[f] # "free" /\ task'[f] = task[f]
  <1>1. ASSUME NEW m \in net, Receive(m) \/ Lose(m)
        PROVE  /\ UNCHANGED <<sent, crashes>>
               /\ \A f \in Act : pc[f] # "free" => pc'[f] # "free" /\ task'[f] = task[f]
    BY <1>1 DEF Receive, Consume, Ignore, Accept, Lose, world, tables, locals, TypeInv, TypeOK
  <1>2. ASSUME NEW g \in Act, Step(g)
        PROVE  /\ UNCHANGED <<crashes, task>>
               /\ \A b \in Bot : sent[b] \subseteq sent'[b]
               /\ \A f \in Act : pc[f] # "free" => pc'[f] # "free"
    BY <1>2 DEF Step, Start, Reject, Delegate, DelegateFails, Await, Fill, Resume, Timeout,
                Leave, Finish, world, tables, TypeInv, TypeOK
  <1>3. CASE Inject
    BY <1>3 DEF Inject, tables, locals, Known
  <1>4. ASSUME NEW b \in Bot, Crash(b)
        PROVE  /\ task' = task
               /\ \A f \in Act : pc[f] # "free" => pc'[f] # "free"
               /\ \A d \in Bot : crashes[d] > 0 => crashes'[d] > 0
               /\ \A d \in Bot : d # b => sent'[d] = sent[d]
               /\ crashes'[b] > 0
    BY <1>4 DEF Crash, TypeInv, TypeOK
  <1>. QED
    BY <1>1, <1>2, <1>3, <1>4 DEF Next, Known

\* What was traced and answered stays so.
LEMMA TracedStays ==
    ASSUME TypeInv, Next, NEW m \in Msg, Traced(m)
    PROVE  Traced(m)' /\ (Answered(m) => Answered(m)')
  <1>1. m.from \in Bot /\ m.tid \in Id
    BY MsgFields
  <1>. QED
    BY <1>1, KnownStays DEF Traced, Answered, Known

\* The messages a step adds to the broker's are traced and answered.
LEMMA AddedTraced ==
    ASSUME TypeInv, AnswerInv, Next, NEW m \in net' \ net
    PROVE  Traced(m)' /\ Answered(m)'
  <1>1. ASSUME NEW f \in Act, Reject(f) \/ Finish(f)
        PROVE  Traced(m)' /\ Answered(m)'
    <2>1. m \in Reply(f) /\ pc[f] # "free"
      BY <1>1 DEF Reject, Finish
    <2>2. /\ task[f].from # At(f)
          /\ m = [kind |-> "return", to |-> task[f].from, from |-> task[f].from,
                  tid |-> Tid(f), src |-> f, call |-> 0]
      BY <2>1 DEF Reply
    <2>3. task[f] \in Msg /\ Traced(task[f])
      BY <2>1 DEF TypeInv, Assigned, AnswerInv
    <2>4. task[f].kind = "task"
      BY <2>2, <2>3, MsgFields DEF Traced, At
    <2>5. pc'[f] # "free" /\ task'[f] = task[f]
      BY <2>1, KnownStays
    <2>6. Known(task[f].from, task[f].tid)'
      BY <2>3, <2>5, MsgFields, KnownStays DEF Traced, Known
    <2>. QED
      BY <2>2, <2>4, <2>5, <2>6 DEF Traced, Answered, Known, At, Tid
  <1>2. ASSUME NEW f \in Act, Delegate(f) \/ DelegateFails(f)
        PROVE  Traced(m)' /\ Answered(m)'
    <2>1. At(f) \in Bot
      BY <1>2, Placed DEF Delegate, DelegateFails
    <2>2. PICK to \in Peers[At(f)] \ {At(f)}, t \in CallIds(At(f)) :
            /\ m = Call(f, to, t)
            /\ sent' = [sent EXCEPT ![At(f)] = @ \cup {t}]
      BY <1>2 DEF Delegate, DelegateFails
    <2>3. t \in sent'[At(f)]
      BY <2>1, <2>2 DEF TypeInv, TypeOK
    <2>. QED
      BY <2>2, <2>3 DEF Call, Traced, Answered, Known
  <1>3. CASE Inject
    <2>1. m.kind = "task" /\ m.from \in Requester
      BY <1>3 DEF Inject
    <2>. QED
      BY <2>1, DelegationAssumption DEF Traced, Answered, Known
  <1>4. CASE \E k \in net : Receive(k) \/ Lose(k)
    BY <1>4 DEF Receive, Consume, Ignore, Accept, Lose
  <1>5. CASE \E f \in Act : Start(f) \/ Await(f) \/ Fill(f) \/ Leave(f)
    BY <1>5 DEF Start, Await, Fill, Leave
  <1>6. CASE \E b \in Bot : Crash(b)
    BY <1>6 DEF Crash
  <1>. QED
    BY <1>1, <1>2, <1>3, <1>4, <1>5, <1>6 DEF Next, Step, Resume, Timeout

\* A message that becomes a task is traced; a return becomes one only at a bot
\* that was restarted.
LEMMA AcceptedTraced ==
    ASSUME TypeInv, AnswerInv, Next, NEW f \in Act, pc[f] = "free", pc'[f] # "free"
    PROVE  /\ task'[f] \in Msg /\ Traced(task'[f])
           /\ task'[f].kind = "return" => crashes'[task'[f].to] > 0
  <1>1. \E m \in net : Accept(m)
    BY SMTT(30) DEF Next, Receive, Consume, Ignore, Lose, Step, Start, Reject, Delegate,
           DelegateFails, Await, Fill, Resume, Timeout, Leave, Finish, Inject, Crash,
           tables, locals, TypeInv, TypeOK
  <1>2. PICK m \in net : Accept(m)
    BY <1>1
  <1>3. task'[f] = m /\ ~ Dropped(m) /\ crashes' = crashes
    BY <1>2 DEF Accept, world, TypeInv, TypeOK
  <1>4. m \in Msg /\ Traced(m)
    BY DEF TypeInv, TypeOK, AnswerInv
  <1>5. m.kind = "return" => crashes[m.to] > 0
    BY <1>3, <1>4 DEF Dropped, Traced, Known
  <1>. QED
    BY <1>3, <1>4, <1>5

LEMMA AnswerNext == TypeInv /\ AnswerInv /\ [Next]_vars => AnswerInv'
  <1>. SUFFICES ASSUME TypeInv, AnswerInv, [Next]_vars
                PROVE  AnswerInv'
    OBVIOUS
  <1>1. CASE Next
    <2>1. \A m \in net' : Traced(m)' /\ Answered(m)'
      <3>. SUFFICES ASSUME NEW m \in net' PROVE Traced(m)' /\ Answered(m)'
        OBVIOUS
      <3>1. CASE m \in net
        BY <1>1, <3>1, TracedStays DEF AnswerInv, TypeInv, TypeOK
      <3>. QED
        BY <1>1, <3>1, AddedTraced
    <2>2. ASSUME NEW f \in Act, pc'[f] # "free"
          PROVE  /\ Traced(task[f])'
                 /\ task'[f].kind = "return" => crashes'[task'[f].to] > 0
      <3>1. CASE pc[f] = "free"
        <4>1. /\ task'[f] \in Msg /\ Traced(task'[f])
              /\ task'[f].kind = "return" => crashes'[task'[f].to] > 0
          BY <1>1, <2>2, <3>1, AcceptedTraced
        <4>. QED
          BY <1>1, <4>1, KnownStays, MsgFields DEF Traced, Known
      <3>2. CASE pc[f] # "free"
        <4>1. task[f] \in Msg /\ Traced(task[f]) /\ task'[f] = task[f]
          BY <1>1, <3>2, KnownStays DEF TypeInv, Assigned, AnswerInv
        <4>2. task[f].kind = "return" => crashes[task[f].to] > 0
          BY <3>2 DEF AnswerInv, At
        <4>. QED
          BY <1>1, <4>1, <4>2, KnownStays, MsgFields DEF Traced, Known
      <3>. QED
        BY <3>1, <3>2
    <2>. QED
      BY <2>1, <2>2 DEF AnswerInv, At
  <1>2. CASE UNCHANGED vars
    BY <1>2 DEF vars, AnswerInv, Traced, Answered, Known, At
  <1>. QED
    BY <1>1, <1>2

LEMMA AnswerInvariant == Spec => []AnswerInv
  <1>. QED
    BY TypeInvariant, AnswerInit, AnswerNext, PTL DEF Spec

\* An answer goes to the bot that asked, never to the bot that gives it, and is
\* never given to an answer: no message travels in circles as its own reply.
THEOREM AnswersAreNotEchoed == Spec => []NoEcho
  <1>1. AnswerInv => NoEcho
    BY DEF AnswerInv, Answered, NoEcho, At
  <1>. QED
    BY <1>1, AnswerInvariant, PTL

\* A late or second answer is handled as a new task only by a bot that has been
\* restarted: sent_tasks is what keeps it from an LLM otherwise.
THEOREM ReturnsRunOnlyAfterRestart == Spec => []ReturnRunOnlyAfterRestart
  <1>1. AnswerInv => ReturnRunOnlyAfterRestart
    BY DEF AnswerInv, ReturnRunOnlyAfterRestart
  <1>. QED
    BY <1>1, AnswerInvariant, PTL

-------------------------------------------------------------------------------
(* The promise of ChainSlots.                                              *)

\* Only Next reaches the abstract phases and keys, so a step that keeps the
\* program counters up to liveness and the tasks of the accepted is a stutter.
LEMMA SlotsStutter ==
    ASSUME \A f \in Act : PhaseOf(f)' = PhaseOf(f),
           \A f \in Act : (pc[f] = "free") = (pc'[f] = "free"),
           \A f \in Act : pc[f] # "free" => task'[f] = task[f]
    PROVE  UNCHANGED <<Phases, Keys>>
  BY DEF Phases, Keys, At, Tid

\* One step of the protocol is one step of ChainSlots, or none.
LEMMA SlotsSimulation ==
    TypeInv /\ SlotsExact /\ [Next]_vars => [Slots!Next]_(Slots!vars)
  <1>. SUFFICES ASSUME TypeInv, SlotsExact, [Next]_vars
                PROVE  Slots!Next \/ UNCHANGED <<Phases, Keys>>
    BY DEF Slots!vars
  <1>1. CASE \E m \in net : Accept(m)
    <2>1. PICK m \in net : Accept(m)
      BY <1>1
    <2>2. PICK f \in Act :
            /\ pc[f] = "free"
            /\ pc' = [pc EXCEPT ![f] = "queued"]
            /\ task' = [task EXCEPT ![f] = m]
      BY <2>1 DEF Accept
    <2>3. m.to \in Bot /\ m.tid \in Id
      BY MsgFields DEF TypeInv, TypeOK
    <2>4. /\ pc'[f] = "queued" /\ task'[f] = m
          /\ \A g \in Act : g # f => pc'[g] = pc[g] /\ task'[g] = task[g]
      BY <2>2 DEF TypeInv, TypeOK
    <2>5. Phases[f] = "unused" /\ Phases' = [Phases EXCEPT ![f] = "queued"]
      BY <2>2, <2>4 DEF Phases, PhaseOf, Live
    <2>6. Keys' = [Keys EXCEPT ![f] = <<m.to, m.tid>>]
      <3>1. Keys'[f] = <<m.to, m.tid>>
        BY <2>4 DEF Keys, At, Tid
      <3>2. \A g \in Act : g # f => Keys'[g] = Keys[g]
        BY <2>4 DEF Keys, At, Tid
      <3>. QED
        BY <3>1, <3>2 DEF Keys
    <2>. QED
      BY <2>3, <2>5, <2>6 DEF Slots!Next, Slots!Arrive, Slots!Move
  <1>2. ASSUME NEW f \in Act, Start(f)
        PROVE  Slots!Next
    <2>1. /\ pc[f] = "queued" /\ Tid(f) \notin inFlight[At(f)]
          /\ pc' = [pc EXCEPT ![f] = "running"] /\ task' = task
      BY <1>2 DEF Start
    <2>2. \A g \in Act : pc'[g] = IF g = f THEN "running" ELSE pc[g]
      BY <2>1 DEF TypeInv, TypeOK
    <2>3. Phases[f] = "queued" /\ Phases' = [Phases EXCEPT ![f] = "active"]
      <3>1. PhaseOf(f) = "queued" /\ PhaseOf(f)' = "active"
        BY <2>1, <2>2 DEF PhaseOf, Live
      <3>2. \A g \in Act : g # f => PhaseOf(g)' = PhaseOf(g)
        BY <2>2 DEF PhaseOf, Live
      <3>. QED
        BY <3>1, <3>2 DEF Phases
    <2>4. Keys' = Keys
      BY <2>1, <2>2 DEF Keys, At, Tid
    <2>5. ~ Slots!Suspended(Keys[f])
      <3>1. ASSUME NEW g \in Act, Phases[g] = "active", Keys[g] = Keys[f]
            PROVE  FALSE
        <4>1. Live(g) /\ pc[g] # "free"
          BY <3>1 DEF Phases, PhaseOf, Live
        <4>2. At(g) = At(f) /\ Tid(g) = Tid(f)
          BY <2>1, <3>1, <4>1 DEF Keys
        <4>. QED
          BY <2>1, <4>1, <4>2 DEF SlotsExact
      <3>. QED
        BY <3>1 DEF Slots!Suspended
    <2>. QED
      BY <2>3, <2>4, <2>5 DEF Slots!Next, Slots!Admit, Slots!Move
  <1>3. ASSUME NEW f \in Act, Reject(f)
        PROVE  Slots!Next
    <2>1. /\ pc[f] = "queued" /\ Tid(f) \in inFlight[At(f)]
          /\ pc' = [pc EXCEPT ![f] = "done"] /\ task' = task
      BY <1>3 DEF Reject
    <2>2. \A g \in Act : pc'[g] = IF g = f THEN "done" ELSE pc[g]
      BY <2>1 DEF TypeInv, TypeOK
    <2>3. Phases[f] = "queued" /\ Phases' = [Phases EXCEPT ![f] = "over"]
      <3>1. PhaseOf(f) = "queued" /\ PhaseOf(f)' = "over"
        BY <2>1, <2>2 DEF PhaseOf, Live
      <3>2. \A g \in Act : g # f => PhaseOf(g)' = PhaseOf(g)
        BY <2>2 DEF PhaseOf, Live
      <3>. QED
        BY <3>1, <3>2 DEF Phases
    <2>4. Keys' = Keys
      BY <2>1, <2>2 DEF Keys, At, Tid
    <2>5. Slots!Suspended(Keys[f])
      <3>1. At(f) \in Bot
        BY <2>1, Placed
      <3>2. PICK g \in Act : Live(g) /\ At(g) = At(f) /\ Tid(g) = Tid(f)
        BY <2>1, <3>1 DEF SlotsExact
      <3>3. pc[g] # "free" /\ Phases[g] = "active"
        BY <3>2 DEF Phases, PhaseOf, Live
      <3>4. Keys[g] = Keys[f]
        BY <2>1, <3>2, <3>3 DEF Keys
      <3>. QED
        BY <3>3, <3>4 DEF Slots!Suspended
    <2>. QED
      BY <2>3, <2>4, <2>5 DEF Slots!Next, Slots!Refuse, Slots!Move
  <1>4. ASSUME NEW f \in Act, Finish(f)
        PROVE  Slots!Next
    <2>1. pc[f] = "running" /\ pc' = [pc EXCEPT ![f] = "done"] /\ task' = task
      BY <1>4 DEF Finish
    <2>2. \A g \in Act : pc'[g] = IF g = f THEN "done" ELSE pc[g]
      BY <2>1 DEF TypeInv, TypeOK
    <2>3. Phases[f] = "active" /\ Phases' = [Phases EXCEPT ![f] = "over"]
      <3>1. PhaseOf(f) = "active" /\ PhaseOf(f)' = "over"
        BY <2>1, <2>2 DEF PhaseOf, Live
      <3>2. \A g \in Act : g # f => PhaseOf(g)' = PhaseOf(g)
        BY <2>2 DEF PhaseOf, Live
      <3>. QED
        BY <3>1, <3>2 DEF Phases
    <2>4. Keys' = Keys
      BY <2>1, <2>2 DEF Keys, At, Tid
    <2>. QED
      BY <2>3, <2>4 DEF Slots!Next, Slots!End, Slots!Move
  <1>5. ASSUME NEW b \in Bot, Crash(b)
        PROVE  Slots!Next
    <2>1. /\ \A g \in Act : pc'[g] = IF pc[g] \notin {"free", "done", "gone"} /\ At(g) = b
                                     THEN "gone" ELSE pc[g]
          /\ task' = task
      BY <1>5 DEF Crash
    <2>2. Keys' = Keys
      BY <2>1 DEF Keys, At, Tid
    <2>3. \A g \in Act : pc[g] # "free" =>
              ((\E t \in Id : Keys[g] = <<b, t>>) <=> At(g) = b)
      BY Placed DEF Keys
    <2>4. \A g \in Act : PhaseOf(g) \in {"queued", "active"} <=>
                            pc[g] \notin {"free", "done", "gone"}
      BY DEF PhaseOf, Live, TypeInv, TypeOK
    <2>5. \A g \in Act : PhaseOf(g)' =
              IF PhaseOf(g) \in {"queued", "active"} /\ At(g) = b THEN "gone" ELSE PhaseOf(g)
      BY <2>1, <2>4 DEF PhaseOf, Live
    <2>6. Phases' = [g \in Act |->
              IF Phases[g] \in {"queued", "active"} /\ \E t \in Id : Keys[g] = <<b, t>>
              THEN "gone" ELSE Phases[g]]
      BY <2>3, <2>4, <2>5 DEF Phases
    <2>. QED
      BY <2>2, <2>6 DEF Slots!Next, Slots!Stop
  <1>6. CASE \/ \E m \in net : Consume(m) \/ Ignore(m) \/ Lose(m)
             \/ \E f \in Act : Delegate(f) \/ DelegateFails(f) \/ Await(f)
                                \/ Fill(f) \/ Resume(f) \/ Timeout(f)
             \/ Inject
             \/ UNCHANGED vars
    <2>1. task' = task
      BY <1>6 DEF Consume, Ignore, Lose, Delegate, DelegateFails, Await, Fill,
                  Resume, Timeout, Leave, Inject, locals, vars
    <2>2. \A f \in Act : /\ Live(f)' = Live(f)
                         /\ ~ Live(f) => pc'[f] = pc[f]
      BY SMTT(30), <1>6
         DEF Consume, Ignore, Lose, Delegate, DelegateFails, Await, Fill,
             Resume, Timeout, Leave, Inject, locals, vars, Live, TypeInv, TypeOK
    <2>3. \A f \in Act : PhaseOf(f)' = PhaseOf(f) /\ (pc[f] = "free") = (pc'[f] = "free")
      BY <2>2 DEF PhaseOf, Live
    <2>. QED
      BY <2>1, <2>3, SlotsStutter
  <1>. QED
    BY <1>1, <1>2, <1>3, <1>4, <1>5, <1>6 DEF Next, Receive, Step

\* The protocol keeps the promise of docs/protocol.md section 5 about the tasks
\* a bot accepts: suspended is refused, delivered may run again.
THEOREM SlotsArePromised == Spec => SlotsPromise
  <1>1. Init => Slots!Init
    <2>. SUFFICES ASSUME Init PROVE Slots!Init
      OBVIOUS
    <2>1. \A f \in Act : pc[f] = "free"
      BY DEF Init
    <2>2. \A f \in Act : PhaseOf(f) = "unused"
      BY <2>1 DEF PhaseOf, Live
    <2>. QED
      BY <2>1, <2>2 DEF Slots!Init, Phases, Keys
  <1>. QED
    BY <1>1, SlotsSimulation, TypeInvariant, SlotsAreExact, PTL
       DEF Spec, SlotsPromise, Slots!Spec

-------------------------------------------------------------------------------
(* Between the paho thread and the loop.                                   *)

\* The waiting coroutine of f may be given m.
Fits(f, m) ==
    /\ pc[f] = "waiting"
    /\ m \in Msg /\ m.to = At(f) /\ m.tid = asked[f].tid
    /\ Answered(m)

\* What the paho thread has handed over, and what a future was set with, fits
\* the delegation that is outstanding now.
HandedInv ==
    /\ \A f \in Act : handed[f] # NoMsg => Fits(f, handed[f])
    /\ \A f \in Act : got[f] # NoMsg => Fits(f, got[f])

LEMMA HandedInit == Init => HandedInv
  BY DEF Init, HandedInv

\* What fits goes on to fit as long as the coroutine waits for that delegation.
LEMMA FitsStays ==
    ASSUME TypeInv, Next, NEW f \in Act, NEW m, Fits(f, m),
           pc'[f] = "waiting", asked'[f] = asked[f]
    PROVE  Fits(f, m)'
  <1>1. task'[f] = task[f]
    BY KnownStays DEF Fits
  <1>2. Answered(m)'
    BY KnownStays DEF Fits, Answered
  <1>. QED
    BY <1>1, <1>2 DEF Fits, At

\* What is handed over, or filled in, was there before, or comes from handed, or
\* is a message for the future that _pending names.
LEMMA HandedEffect ==
    ASSUME TypeInv, HandedInv, Next, NEW f \in Act
    PROVE  /\ handed'[f] # NoMsg =>
                 /\ pc'[f] = pc[f] /\ asked'[f] = asked[f]
                 /\ \/ handed'[f] = handed[f]
                    \/ handed'[f] \in net /\ pending[handed'[f].to][handed'[f].tid] = f
           /\ got'[f] # NoMsg =>
                 /\ pc'[f] = pc[f] /\ asked'[f] = asked[f]
                 /\ got'[f] \in {got[f], handed[f]}
  <1>1. ASSUME NEW m \in net, Consume(m)
        PROVE  /\ UNCHANGED <<pc, asked, got>>
               /\ handed'[f] # handed[f] => handed'[f] = m /\ pending[m.to][m.tid] = f
    BY <1>1 DEF Consume, TypeInv, TypeOK
  <1>2. ASSUME NEW m \in net, Ignore(m) \/ Accept(m) \/ Lose(m)
        PROVE  /\ UNCHANGED <<asked, handed, got>>
               /\ pc'[f] = pc[f] \/ pc[f] = "free"
    BY <1>2 DEF Ignore, Accept, Lose, locals, TypeInv, TypeOK
  <1>3. ASSUME NEW g \in Act, Fill(g)
        PROVE  /\ UNCHANGED <<pc, asked>>
               /\ handed'[f] # NoMsg => handed'[f] = handed[f]
               /\ got'[f] \in {got[f], handed[f]}
    BY <1>3 DEF Fill, TypeInv, TypeOK
  <1>4. ASSUME NEW g \in Act, Leave(g)
        PROVE  /\ f # g => /\ pc'[f] = pc[f] /\ asked'[f] = asked[f]
                           /\ handed'[f] = handed[f] /\ got'[f] = got[f]
               /\ f = g => handed'[f] = NoMsg /\ got'[f] = NoMsg
    BY <1>4 DEF Leave, TypeInv, TypeOK
  <1>5. ASSUME NEW g \in Act, \/ Start(g) \/ Reject(g) \/ Delegate(g)
                              \/ DelegateFails(g) \/ Await(g) \/ Finish(g)
        PROVE  /\ UNCHANGED <<handed, got>>
               /\ f # g => pc'[f] = pc[f] /\ asked'[f] = asked[f]
               /\ pc[g] # "waiting"
    BY <1>5 DEF Start, Reject, Delegate, DelegateFails, Await, Finish, TypeInv, TypeOK
  <1>6. CASE Inject
    BY <1>6 DEF Inject, locals
  <1>7. ASSUME NEW b \in Bot, Crash(b)
        PROVE  \/ /\ pc'[f] = pc[f] /\ asked'[f] = asked[f]
                  /\ handed'[f] = handed[f] /\ got'[f] = got[f]
               \/ handed'[f] = NoMsg /\ got'[f] = NoMsg
    BY <1>7 DEF Crash
  <1>8. handed[f] # NoMsg \/ got[f] # NoMsg => pc[f] = "waiting"
    BY DEF HandedInv, Fits
  <1>. QED
    BY <1>1, <1>2, <1>3, <1>4, <1>5, <1>6, <1>7, <1>8
       DEF Next, Receive, Step, Resume, Timeout

LEMMA HandedNext ==
    TypeInv /\ PendingOwned /\ AnswerInv /\ HandedInv /\ [Next]_vars => HandedInv'
  <1>. SUFFICES ASSUME TypeInv, PendingOwned, AnswerInv, HandedInv, [Next]_vars
                PROVE  HandedInv'
    OBVIOUS
  <1>1. CASE Next
    <2>1. ASSUME NEW f \in Act, NEW m, m = handed'[f], m # NoMsg
          PROVE  Fits(f, m)'
      <3>1. CASE m = handed[f]
        <4>1. Fits(f, m)
          BY <2>1, <3>1 DEF HandedInv
        <4>2. pc'[f] = "waiting" /\ asked'[f] = asked[f]
          BY <1>1, <2>1, <4>1, HandedEffect DEF Fits
        <4>. QED
          BY <1>1, <4>1, <4>2, FitsStays
      <3>2. CASE m \in net /\ pending[m.to][m.tid] = f
        <4>1. m \in Msg /\ m.to \in Bot /\ m.tid \in Id
          BY <3>2, MsgFields DEF TypeInv, TypeOK
        <4>2. f # 0
          BY DelegationAssumption DEF Act
        <4>3. pc[f] = "waiting" /\ At(f) = m.to /\ asked[f].tid = m.tid
          BY <3>2, <4>1, <4>2 DEF PendingOwned
        <4>4. Fits(f, m)
          BY <3>2, <4>1, <4>3 DEF Fits, AnswerInv
        <4>5. pc'[f] = "waiting" /\ asked'[f] = asked[f]
          BY <1>1, <2>1, <4>3, HandedEffect
        <4>. QED
          BY <1>1, <4>4, <4>5, FitsStays
      <3>. QED
        BY <1>1, <2>1, <3>1, <3>2, HandedEffect
    <2>2. ASSUME NEW f \in Act, NEW m, m = got'[f], m # NoMsg
          PROVE  Fits(f, m)'
      <3>1. m \in {got[f], handed[f]} /\ pc'[f] = pc[f] /\ asked'[f] = asked[f]
        BY <1>1, <2>2, HandedEffect
      <3>2. Fits(f, m)
        BY <2>2, <3>1 DEF HandedInv
      <3>3. pc'[f] = "waiting"
        BY <3>1, <3>2 DEF Fits
      <3>. QED
        BY <1>1, <3>1, <3>2, <3>3, FitsStays
    <2>3. ASSUME NEW f \in Act, handed'[f] # NoMsg
          PROVE  (handed[f] # NoMsg => Fits(f, handed[f]))'
      <3>1. PICK m : m = handed'[f]
        OBVIOUS
      <3>2. Fits(f, m)'
        BY <2>1, <2>3, <3>1
      <3>. QED
        BY <3>1, <3>2 DEF Fits, Answered
    <2>4. ASSUME NEW f \in Act, got'[f] # NoMsg
          PROVE  (got[f] # NoMsg => Fits(f, got[f]))'
      <3>1. PICK m : m = got'[f]
        OBVIOUS
      <3>2. Fits(f, m)'
        BY <2>2, <2>4, <3>1
      <3>. QED
        BY <3>1, <3>2 DEF Fits, Answered
    <2>. QED
      BY <2>3, <2>4 DEF HandedInv
  <1>2. CASE UNCHANGED vars
    BY <1>2 DEF vars, HandedInv, Fits, Answered, At
  <1>. QED
    BY <1>1, <1>2

\* In every cluster, with any number of delegations of a task, ids of the LLM,
\* faults and restarts: what a coroutine goes on with carries the id it asked
\* with last and, if it is an answer, answers a delegation of its own bot under
\* that id; nothing handed over for an earlier delegation reaches a later one
\* under another id.
THEOREM AnswersHaveTheirId == Spec => []AnswersOwnId
  <1>1. HandedInv => AnswersOwnId
    BY DEF HandedInv, Fits, Answered, AnswersOwnId, At, Tid
  <1>. QED
    BY <1>1, TypeInvariant, PendingIsOwned, AnswerInvariant, HandedInit, HandedNext,
       PTL DEF Spec
===============================================================================
