--------------------------- MODULE RoutingV1_proofs ---------------------------
(***************************************************************************)
(* Theorems about the legacy routing of tasks, for any number of bots,     *)
(* tasks and commands, failures and crashes.                               *)
(***************************************************************************)
EXTENDS RoutingV1, FiniteSetTheorems, SequenceTheorems, TLAPS

-----------------------------------------------------------------------------
(* Strengthenings, by name.                                                *)

Status == {"new", "returning", "failed"}
Fields == [route : Seq(Bot), orig : BOOLEAN, count : Nat, cmd : {"tool", "chat"}]
Messages == [task : Task, to : Bot, status : Status, k : Fields]

\* The places in the queues of a task.
Waiting(t) == {w \in Bot \X Nat : w[2] \in 1..Len(queue[w[1]][t])}

\* With what its messages have behind them, a task has room for what waits in its queues.
Counted(t) ==
    /\ IsFiniteSet(Waiting(t)) /\ Cardinality(Waiting(t)) <= planned[t]
    /\ \A m \in MessagesOf(t) :
          m.k.count > 0 /\ m.k.count + Cardinality(Waiting(t)) <= planned[t]

TypeInv ==
    /\ IsABag(msgs) /\ BagToSet(msgs) \subseteq Messages
    /\ outgoing \in [Bot -> SUBSET Task] /\ queue \in [Bot -> [Task -> Seq(Command)]]
    /\ callback \in [Task -> {"none", "set", "called"}]
    /\ calls \in [Task -> Nat] /\ finals \in [Task -> Nat]
    /\ planned \in [Task -> 0..MaxCommands]
    /\ bad \in [Task -> 0..1] /\ broken \in [Task -> Nat]
    /\ gone \subseteq Task /\ up \subseteq Bot /\ crashes \in 0..MaxCrashes
    /\ \A t \in Task : calls[t] = (IF callback[t] = "called" THEN 1 ELSE 0)
    /\ \A t \in Task : Counted(t)

\* A bot has commands queued for tasks it has sent only, a message tells of a failure if there
\* was one, and what has an end was created.
PlaceInv ==
    /\ \A b \in Bot, t \in Task : queue[b][t] # <<>> => t \in outgoing[b]
    /\ \A m \in BagToSet(msgs) : m.status = "failed" => bad[m.task] = 1
    /\ \A t \in Task : finals[t] # 0 => Created(t)
    /\ OnePlace

\* What a handler makes, at any time while it runs.
Sendings == UNION {[S -> Nat \ {0}] : S \in SUBSET Messages}
Outcomes ==
    [k : Fields, status : Status \cup {"created", "delegated", "pending"}, sent : Sendings,
     queue : Seq(Command), out : BOOLEAN, planned : 0..MaxCommands, bad : 0..1,
     broken : Nat, gone : BOOLEAN, final : BOOLEAN]

\* At b, what was planned since the handler began with fields k makes up for a count n and
\* the commands that wait.
Within(t, b, k, n, o) ==
    n + Len(o.queue) + planned[t] <= k.count + Len(queue[b][t]) + o.planned

Fine(t, b, k, o) ==
    /\ o \in Outcomes
    /\ Within(t, b, k, o.k.count, o) /\ Within(t, b, k, k.count, o)
    /\ planned[t] <= o.planned /\ bad[t] <= o.bad /\ broken[t] <= o.broken
    /\ \A x \in DOMAIN o.sent :
          /\ x.task = t /\ x.k.count > 0 /\ Within(t, b, k, x.k.count, o)
          /\ x.status = "failed" => o.bad = 1

\* What b has sent, or has commands for, is in its outgoing_tasks.
Known(t, b, o) == t \in outgoing[b] \/ o.queue # <<>> => o.out

\* Nothing has failed.
Whole(o) == o.bad = 0 /\ o.broken = 0 /\ ~ o.gone

\* c is on the route.
On(c, route) == \E i \in 1..Len(route) : route[i] = c

\* A handler that began with the fields k has not sent the task on.
Unsent(k, o) == o.sent = EmptyBag /\ ~ o.final /\ o.k.route = k.route

\* It has, in one message that finds its way back to everybody the task has to come back to,
\* or the task is at its end.
Passed(b, k, o) ==
    \/ o.sent = EmptyBag /\ o.final /\ o.queue = <<>> /\ k.route = <<>>
    \/ /\ ~ o.final
       /\ \E x \in Messages :
             /\ o.sent = SetToBag({x})
             /\ \A c \in Bot : (c # b /\ On(c, k.route)) \/ (c = b /\ o.queue # <<>>) =>
                    c = x.to \/ On(c, x.k.route)

Working(t, b, k, o) ==
    Fine(t, b, k, o) /\ Known(t, b, o) /\ o.k.count > 0 /\ (Whole(o) => Unsent(k, o))
Done(t, b, k, o) ==
    Fine(t, b, k, o) /\ Known(t, b, o) /\ o.k.count > 0 /\ (Whole(o) => Passed(b, k, o))

-----------------------------------------------------------------------------
(* Bags.                                                                   *)

LEMMA SendingsAreBags ==
    /\ \A B : B \in Sendings <=> IsABag(B) /\ DOMAIN B \subseteq Messages
    /\ EmptyBag \in Sendings /\ DOMAIN EmptyBag = {}
  BY DEF Sendings, IsABag, EmptyBag, SetToBag

LEMMA OneMore ==
    ASSUME NEW B \in Sendings, NEW x \in Messages
    PROVE  /\ B (+) SetToBag({x}) \in Sendings
           /\ DOMAIN (B (+) SetToBag({x})) = DOMAIN B \cup {x}
           /\ B = EmptyBag => B (+) SetToBag({x}) = SetToBag({x})
  <1>1. /\ IsABag(B (+) SetToBag({x}))
        /\ DOMAIN (B (+) SetToBag({x})) = DOMAIN B \cup {x}
    BY SendingsAreBags DEF IsABag, (+), SetToBag
  <1>2. B = EmptyBag => B (+) SetToBag({x}) = SetToBag({x})
    BY DEF (+), SetToBag, EmptyBag
  <1>. QED
    BY <1>1, <1>2, SendingsAreBags

-----------------------------------------------------------------------------
(* Sending.                                                                *)

AreWays(ways) ==
    /\ IsFiniteSet(DOMAIN ways)
    /\ \A w \in DOMAIN ways : ways[w].to \in Bot /\ ways[w].route \in Seq(Bot)

\* n publications fail: all, and the message is lost, or those before the way it takes.
SentNone(o, n, r) == r = [o EXCEPT !.k.route = <<>>, !.broken = @ + n, !.gone = TRUE]
SentBy(t, o, ways, status, n, r) ==
    \E w \in DOMAIN ways : \E k \in Fields : \E x \in Messages :
        /\ n = 0 => Before(ways, w) = {}
        /\ k = [o.k EXCEPT !.route = ways[w].route]
        /\ x = Message(t, ways[w].to, status, k)
        /\ r = [o EXCEPT !.k = k, !.broken = @ + n, !.sent = @ (+) SetToBag({x})]

LEMMA SentIs ==
    ASSUME NEW t \in Task, NEW b \in Bot, NEW o \in Outcomes, NEW ways, AreWays(ways),
           NEW status \in Status, NEW r \in Sent(t, o, ways, status)
    PROVE  \E n \in Nat : SentNone(o, n, r) \/ SentBy(t, o, ways, status, n, r)
  <1>1. CASE \E w \in DOMAIN ways :
                r = LET k == [o.k EXCEPT !.route = ways[w].route]
                    IN  [o EXCEPT !.k = k, !.broken = @ + Cardinality(Before(ways, w)),
                                  !.sent = @ (+) SetToBag({Message(t, ways[w].to, status, k)})]
    <2>1. PICK w \in DOMAIN ways :
                r = LET k == [o.k EXCEPT !.route = ways[w].route]
                    IN  [o EXCEPT !.k = k, !.broken = @ + Cardinality(Before(ways, w)),
                                  !.sent = @ (+) SetToBag({Message(t, ways[w].to, status, k)})]
      BY <1>1
    <2>2. PICK n : n = Cardinality(Before(ways, w))
      OBVIOUS
    <2>3. IsFiniteSet(Before(ways, w))
      BY FS_Subset DEF AreWays, Before
    <2>4. n \in Nat /\ (n = 0 => Before(ways, w) = {})
      BY <2>2, <2>3, FS_CardinalityType, FS_EmptySet
    <2>5. PICK k : k = [o.k EXCEPT !.route = ways[w].route]
      OBVIOUS
    <2>6. k \in Fields
      BY <2>5 DEF AreWays, Outcomes, Fields
    <2>7. PICK x : x = Message(t, ways[w].to, status, k)
      OBVIOUS
    <2>8. x \in Messages
      BY <2>6, <2>7 DEF AreWays, Message, Messages
    <2>9. r = [o EXCEPT !.k = k, !.broken = @ + n, !.sent = @ (+) SetToBag({x})]
      BY <2>1, <2>2, <2>5, <2>7
    <2>. QED
      BY <2>4, <2>5, <2>6, <2>7, <2>8, <2>9 DEF SentBy
  <1>2. CASE r = [o EXCEPT !.k.route = <<>>, !.broken = @ + Cardinality(DOMAIN ways),
                           !.gone = TRUE]
    <2>1. Cardinality(DOMAIN ways) \in Nat
      BY FS_CardinalityType DEF AreWays
    <2>. QED
      BY <1>2, <2>1 DEF SentNone
  <1>. QED
    BY <1>1, <1>2 DEF Sent

\* A message goes the way that is tried first.
SentFirst(o, ways, r) ==
    \E w \in DOMAIN ways : \E x \in Messages :
        /\ Before(ways, w) = {} /\ x.to = ways[w].to /\ x.k.route = ways[w].route
        /\ r.sent = o.sent (+) SetToBag({x}) /\ r.final = o.final

\* Adding a message with the count of the task keeps what is fine.
LEMMA SentFine ==
    ASSUME TypeInv, NEW t \in Task, NEW b \in Bot, NEW k0 \in Fields, NEW o, Fine(t, b, k0, o),
           o.k.count > 0, NEW ways, AreWays(ways), NEW status \in Status,
           status = "failed" => o.bad = 1, NEW r \in Sent(t, o, ways, status)
    PROVE  /\ Fine(t, b, k0, r) /\ r.k.count > 0
           /\ r.status = o.status /\ r.queue = o.queue /\ r.bad = o.bad /\ r.out = o.out
           /\ Whole(r) => Whole(o) /\ SentFirst(o, ways, r)
  <1>1. o \in Outcomes
    BY DEF Fine
  <1>2. PICK n \in Nat : SentNone(o, n, r) \/ SentBy(t, o, ways, status, n, r)
    BY <1>1, SentIs
  <1>3. /\ o.broken \in Nat /\ broken[t] \in Nat /\ o.bad \in 0..1 /\ o.k \in Fields
        /\ o.sent \in Sendings
    <2>1. o.broken \in Nat /\ o.bad \in 0..1 /\ o.k \in Fields /\ o.sent \in Sendings
      BY <1>1 DEF Outcomes
    <2>2. broken[t] \in Nat
      BY DEF TypeInv
    <2>. QED
      BY <2>1, <2>2
  <1>4. CASE SentNone(o, n, r)
    <2>1. /\ r \in Outcomes /\ r.gone /\ r.k.count = o.k.count /\ r.status = o.status
          /\ r.queue = o.queue /\ r.bad = o.bad /\ r.sent = o.sent /\ r.out = o.out
          /\ r.planned = o.planned /\ r.broken = o.broken + n
      <3>1. PICK k : k = [o.k EXCEPT !.route = <<>>]
        OBVIOUS
      <3>2. k \in Fields /\ k.count = o.k.count
        <4>1. <<>> \in Seq(Bot)
          OBVIOUS
        <4>. QED
          BY <1>3, <3>1, <4>1 DEF Fields
      <3>3. r = [o EXCEPT !.k = k, !.broken = @ + n, !.gone = TRUE]
        BY <1>4, <3>1 DEF SentNone
      <3>4. o.broken + n \in Nat
        BY <1>3
      <3>5. /\ r.gone /\ r.k = k /\ r.status = o.status
            /\ r.queue = o.queue /\ r.bad = o.bad /\ r.sent = o.sent /\ r.out = o.out
            /\ r.planned = o.planned /\ r.broken = o.broken + n
        BY <1>1, <3>3 DEF Outcomes
      <3>6. r \in Outcomes
        BY <1>1, <3>2, <3>3, <3>4 DEF Outcomes
      <3>. QED
        BY <3>2, <3>5, <3>6
    <2>2. broken[t] <= r.broken
      BY <1>3, <2>1 DEF Fine
    <2>. QED
      BY <2>1, <2>2 DEF Fine, Within, Whole
  <1>5. CASE SentBy(t, o, ways, status, n, r)
    <2>1. PICK w \in DOMAIN ways, k \in Fields, x \in Messages :
                    /\ n = 0 => Before(ways, w) = {}
                    /\ k = [o.k EXCEPT !.route = ways[w].route]
                    /\ x = Message(t, ways[w].to, status, k)
                    /\ r = [o EXCEPT !.k = k, !.broken = @ + n, !.sent = @ (+) SetToBag({x})]
      BY <1>5 DEF SentBy
    <2>2. k.count = o.k.count /\ k.route = ways[w].route
      BY <1>3, <2>1 DEF Fields
    <2>3. /\ x.task = t /\ x.to = ways[w].to /\ x.status = status /\ x.k = k
      BY <2>1 DEF Message
    <2>4. PICK B : B = o.sent (+) SetToBag({x})
      OBVIOUS
    <2>5. B \in Sendings /\ DOMAIN B = DOMAIN o.sent \cup {x}
      BY <1>3, <2>4, OneMore
    <2>6. /\ r \in Outcomes /\ r.gone = o.gone /\ r.k = k /\ r.status = o.status
          /\ r.queue = o.queue /\ r.bad = o.bad /\ r.sent = B /\ r.out = o.out
          /\ r.planned = o.planned /\ r.broken = o.broken + n /\ r.final = o.final
      <3>1. r = [o EXCEPT !.k = k, !.broken = @ + n, !.sent = B]
        BY <2>1, <2>4
      <3>2. o.broken + n \in Nat
        BY <1>3
      <3>3. /\ r.gone = o.gone /\ r.k = k /\ r.status = o.status
            /\ r.queue = o.queue /\ r.bad = o.bad /\ r.sent = B /\ r.out = o.out
            /\ r.planned = o.planned /\ r.broken = o.broken + n /\ r.final = o.final
        BY <1>1, <3>1 DEF Outcomes
      <3>4. r \in Outcomes
        BY <1>1, <2>5, <3>1, <3>2 DEF Outcomes
      <3>. QED
        BY <3>3, <3>4
    <2>7. broken[t] <= r.broken /\ (r.broken = 0 => n = 0 /\ o.broken = 0)
      BY <1>3, <2>6 DEF Fine
    <2>8. Fine(t, b, k0, r)
      BY <2>2, <2>3, <2>5, <2>6, <2>7 DEF Fine, Within
    <2>9. Whole(r) => Before(ways, w) = {} /\ Whole(o)
      BY <2>1, <2>6, <2>7 DEF Whole
    <2>. QED
      BY <2>2, <2>3, <2>4, <2>6, <2>8, <2>9 DEF SentFirst
  <1>. QED
    BY <1>2, <1>4, <1>5

\* The part of a route before one of its places is a route.
LEMMA PartOfRoute ==
    ASSUME NEW route \in Seq(Bot), NEW i \in 0..Len(route)
    PROVE  /\ SubSeq(route, 1, i - 1) \in Seq(Bot)
           /\ Len(SubSeq(route, 1, i - 1)) = (IF i = 0 THEN 0 ELSE i - 1)
           /\ \A j \in 1..(i - 1) : SubSeq(route, 1, i - 1)[j] = route[j]
  <1>1. Len(route) \in Nat /\ \A j \in 1..Len(route) : route[j] \in Bot
    OBVIOUS
  <1>2. 1 \in Int /\ i - 1 \in Int /\ \A j \in 1..(i - 1) : route[j] \in Bot
    BY <1>1
  <1>. QED
    BY <1>1, <1>2, SubSeqProperties

LEMMA HookWaysAre ==
    ASSUME NEW t \in Task, NEW b \in Bot, NEW route \in Seq(Bot)
    PROVE  AreWays(HookWays(t, b, route)) /\ DOMAIN HookWays(t, b, route) \subseteq 0..Len(route)
  <1> DEFINE ways == HookWays(t, b, route)
  <1>1. DOMAIN ways \subseteq 0..Len(route) /\ Len(route) \in Nat
    BY DEF HookWays
  <1>2. IsFiniteSet(DOMAIN ways)
    <2>1. PICK D : D = DOMAIN ways
      OBVIOUS
    <2>2. IsFiniteSet(0..Len(route))
      BY <1>1, FS_Interval
    <2>. QED
      BY <1>1, <2>1, <2>2, FS_Subset
  <1>3. ASSUME NEW i \in DOMAIN ways
        PROVE  ways[i].to \in Bot /\ ways[i].route \in Seq(Bot)
    <2>1. /\ ways[i].to = IF i = 0 THEN Origin[t] ELSE route[i]
          /\ ways[i].route = SubSeq(route, 1, i - 1)
      BY DEF HookWays, Way
    <2>2. i \in 0..Len(route) /\ Origin[t] \in Bot /\ (i # 0 => route[i] \in Bot)
      BY <1>1, RoutingAssumption
    <2>3. SubSeq(route, 1, i - 1) \in Seq(Bot)
      BY <2>2, PartOfRoute
    <2>. QED
      BY <2>1, <2>2, <2>3
  <1>. QED
    BY <1>1, <1>2, <1>3 DEF AreWays

\* The first way that process_return tries is to the last bot of the route.
LEMMA ReturnWaysAre ==
    ASSUME NEW t \in Task, NEW b \in Bot, NEW route \in Seq(Bot)
    PROVE  /\ AreWays(ReturnWays(t, b, route))
           /\ DOMAIN ReturnWays(t, b, route) = {} => route = <<>>
           /\ \A w \in DOMAIN ReturnWays(t, b, route) :
                Before(ReturnWays(t, b, route), w) = {} /\ route # <<>> =>
                    /\ ReturnWays(t, b, route)[w].route = Rest(route)
                    /\ route[Len(route)] # b =>
                            ReturnWays(t, b, route)[w].to = route[Len(route)]
  <1>1. CASE route = <<>>
    <2>1. ReturnWays(t, b, route) = HookWays(t, b, route)
      BY <1>1 DEF ReturnWays
    <2>. QED
      BY <1>1, <2>1, HookWaysAre
  <1>2. CASE route # <<>>
    <2>1. PICK n \in Nat \ {0} : n = Len(route)
      BY <1>2
    <2>2. Rest(route) \in Seq(Bot) /\ Len(Rest(route)) = n - 1
      BY <2>1, PartOfRoute DEF Rest
    <2>3. PICK hooks : hooks = HookWays(t, b, Rest(route))
      OBVIOUS
    <2>4. /\ IsFiniteSet(DOMAIN hooks) /\ DOMAIN hooks \subseteq 0..(n - 1)
          /\ \A w \in DOMAIN hooks : hooks[w].to \in Bot /\ hooks[w].route \in Seq(Bot)
      BY <2>2, <2>3, HookWaysAre DEF AreWays
    <2>5. PICK to \in Bot : to = (IF n = 0 \/ route[n] = b THEN Origin[t] ELSE route[n])
      BY <2>1, RoutingAssumption
    <2>6. PICK ways : ways = ReturnWays(t, b, route)
      OBVIOUS
    <2>7. ways = [i \in DOMAIN hooks \cup {n} |-> IF i = n THEN Way(to, Rest(route)) ELSE hooks[i]]
      BY <2>1, <2>3, <2>5, <2>6 DEF ReturnWays
    <2>8. DOMAIN ways = DOMAIN hooks \cup {n} /\ ways[n].to = to /\ ways[n].route = Rest(route)
          /\ \A w \in DOMAIN hooks : w < n /\ ways[w] = hooks[w]
      BY <2>1, <2>4, <2>7 DEF Way
    <2>9. IsFiniteSet(DOMAIN ways)
      BY <2>4, <2>8, FS_AddElement
    <2>10. AreWays(ways)
      BY <2>2, <2>4, <2>5, <2>8, <2>9 DEF AreWays
    <2>11. \A w \in DOMAIN ways : Before(ways, w) = {} => w = n
      BY <2>1, <2>4, <2>8 DEF Before
    <2>. QED
      BY <1>2, <2>1, <2>5, <2>6, <2>8, <2>10, <2>11
  <1>. QED
    BY <1>1, <1>2

LEMMA FineIs ==
    ASSUME NEW t \in Task, NEW b \in Bot, NEW k0 \in Fields, NEW o, Fine(t, b, k0, o)
    PROVE  /\ o \in Outcomes /\ o.k \in Fields /\ o.k.count \in Nat /\ o.k.route \in Seq(Bot)
           /\ o.sent \in Sendings /\ o.queue \in Seq(Command) /\ Len(o.queue) \in Nat
           /\ o.planned \in Nat /\ o.bad \in 0..1 /\ o.broken \in Nat /\ k0.count \in Nat
           /\ o.out \in BOOLEAN /\ o.final \in BOOLEAN /\ o.gone \in BOOLEAN
  <1>1. /\ o \in Outcomes /\ o.k \in Fields /\ o.sent \in Sendings /\ o.queue \in Seq(Command)
        /\ o.planned \in 0..MaxCommands /\ o.bad \in 0..1 /\ o.broken \in Nat
        /\ o.out \in BOOLEAN /\ o.final \in BOOLEAN /\ o.gone \in BOOLEAN
    BY DEF Fine, Outcomes
  <1>2. o.k.count \in Nat /\ o.k.route \in Seq(Bot) /\ k0.count \in Nat
    BY <1>1 DEF Fields
  <1>. QED
    BY <1>1, <1>2, RoutingAssumption

LEMMA CountsAre ==
    ASSUME TypeInv, NEW t \in Task, NEW b \in Bot
    PROVE  /\ planned[t] \in 0..MaxCommands /\ planned[t] \in Nat /\ MaxCommands \in Nat
           /\ bad[t] \in 0..1 /\ broken[t] \in Nat
           /\ queue[b][t] \in Seq(Command) /\ Len(queue[b][t]) \in Nat
  <1>1. queue[b][t] \in Seq(Command)
    BY DEF TypeInv
  <1>. QED
    BY <1>1, RoutingAssumption DEF TypeInv

\* The route, and what was on it, is on the route on which a delegation puts the bot.
LEMMA OnPushed ==
    ASSUME NEW b \in Bot, NEW route \in Seq(Bot)
    PROVE  /\ Pushed(route, b) \in Seq(Bot) /\ On(b, Pushed(route, b))
           /\ \A c \in Bot : On(c, route) => On(c, Pushed(route, b))
  <1>1. PICK r : r = Pushed(route, b)
    OBVIOUS
  <1>2. /\ r \in Seq(Bot) /\ Len(r) = Len(route) + 1 /\ r[Len(route) + 1] = b
        /\ \A i \in 1..Len(route) : r[i] = route[i]
    BY <1>1, AppendProperties DEF Pushed
  <1>3. Len(route) \in Nat
    OBVIOUS
  <1>. QED
    BY <1>1, <1>2, <1>3 DEF On

\* A delegation is done with the task, whether it reaches the next bot or is answered.
LEMMA ForwardDone ==
    ASSUME TypeInv, NEW t \in Task, NEW b \in Bot, NEW k0 \in Fields, NEW o, Fine(t, b, k0, o),
           Within(t, b, k0, o.k.count + 1, o), Whole(o) => Unsent(k0, o),
           NEW c \in Command, NEW r \in Forward(t, b, o, c)
    PROVE  Done(t, b, k0, r) /\ r.status = "delegated"
  <1>1. /\ o \in Outcomes /\ o.k \in Fields /\ o.k.count \in Nat /\ o.k.route \in Seq(Bot)
        /\ o.sent \in Sendings /\ o.broken \in Nat /\ broken[t] \in Nat
    BY FineIs, CountsAre
  <1>2. c.to \in Bot /\ c.cmd \in {"tool", "chat"}
    BY DEF Command
  <1>3. PICK route \in Seq(Bot) : route = Pushed(o.k.route, b)
    BY <1>1, OnPushed
  <1>4. PICK k : k = [o.k EXCEPT !.cmd = c.cmd, !.count = @ + 1, !.route = route]
    OBVIOUS
  <1>5. k \in Fields /\ k.count = o.k.count + 1 /\ k.route = route
    <2>1. o.k.count + 1 \in Nat
      BY <1>1
    <2>. QED
      BY <1>1, <1>2, <1>4, <2>1 DEF Fields
  <1>6. PICK o1 : o1 = [o EXCEPT !.k = k, !.status = "delegated", !.out = TRUE]
    OBVIOUS
  <1>7. /\ o1.k = k /\ o1.status = "delegated" /\ o1.out = TRUE /\ o1.sent = o.sent
        /\ o1.queue = o.queue /\ o1.planned = o.planned /\ o1.bad = o.bad
        /\ o1.broken = o.broken /\ o1.gone = o.gone /\ o1.final = o.final
    BY <1>1, <1>6 DEF Outcomes
  <1>8. o1 \in Outcomes
    BY <1>1, <1>5, <1>6 DEF Outcomes
  <1>9. Fine(t, b, k0, o1)
    BY <1>5, <1>7, <1>8 DEF Fine, Within
  <1>10. CASE r = [o1 EXCEPT !.sent = @ (+) SetToBag({Message(t, c.to, "new", k)})]
    <2>1. PICK x : x = Message(t, c.to, "new", k)
      OBVIOUS
    <2>2. x \in Messages /\ x.task = t /\ x.to = c.to /\ x.status = "new" /\ x.k = k
      BY <1>2, <1>5, <2>1 DEF Message, Messages, Status
    <2>3. PICK B : B = o.sent (+) SetToBag({x})
      OBVIOUS
    <2>4. /\ B \in Sendings /\ DOMAIN B = DOMAIN o.sent \cup {x}
          /\ o.sent = EmptyBag => B = SetToBag({x})
      BY <1>1, <2>2, <2>3, OneMore
    <2>5. r = [o1 EXCEPT !.sent = B]
      BY <1>7, <1>10, <2>1, <2>3
    <2>6. /\ r.k = k /\ r.status = "delegated" /\ r.out = TRUE /\ r.sent = B
          /\ r.queue = o1.queue /\ r.planned = o1.planned /\ r.bad = o1.bad
          /\ r.broken = o1.broken /\ r.gone = o1.gone /\ r.final = o1.final
      BY <1>7, <1>8, <2>5 DEF Outcomes
    <2>7. r \in Outcomes
      BY <1>8, <2>4, <2>5 DEF Outcomes
    <2>8. Fine(t, b, k0, r)
      <3>1. \A y \in DOMAIN B : y \in DOMAIN o1.sent \/ y = x
        BY <1>7, <2>4
      <3>2. x.k.count > 0 /\ Within(t, b, k0, x.k.count, r) /\ x.status # "failed"
        BY <1>1, <1>5, <1>7, <2>2, <2>6 DEF Within
      <3>. QED
        BY <1>9, <2>2, <2>6, <2>7, <3>1, <3>2 DEF Fine, Within
    <2>9. Whole(r) => Passed(b, k0, r)
      <3>1. SUFFICES ASSUME Whole(r)
                     PROVE  Passed(b, k0, r)
        OBVIOUS
      <3>2. o.sent = EmptyBag /\ ~ o.final /\ o.k.route = k0.route
        BY <1>7, <2>6, <3>1 DEF Whole, Unsent
      <3>3. \A d \in Bot : On(d, k0.route) \/ d = b => On(d, x.k.route)
        BY <1>1, <1>3, <1>5, <2>2, <3>2, OnPushed
      <3>. QED
        BY <1>7, <2>2, <2>4, <2>6, <3>2, <3>3 DEF Passed
    <2>. QED
      BY <1>1, <1>5, <2>6, <2>8, <2>9 DEF Done, Known
  <1>11. CASE r \in Sent(t, [o1 EXCEPT !.broken = @ + 1], HookWays(t, b, k.route), "new")
    <2>1. PICK o2 : o2 = [o1 EXCEPT !.broken = @ + 1]
      OBVIOUS
    <2>2. /\ o2.k = k /\ o2.status = "delegated" /\ o2.out = TRUE /\ o2.sent = o1.sent
          /\ o2.queue = o1.queue /\ o2.planned = o1.planned /\ o2.bad = o1.bad
          /\ o2.broken = o.broken + 1
      BY <1>7, <1>8, <2>1 DEF Outcomes
    <2>3. o2 \in Outcomes
      <3>1. o1.broken + 1 \in Nat
        BY <1>1, <1>7
      <3>. QED
        BY <1>8, <2>1, <3>1 DEF Outcomes
    <2>4. Fine(t, b, k0, o2)
      <3>1. broken[t] <= o2.broken
        BY <1>1, <1>7, <1>9, <2>2 DEF Fine
      <3>. QED
        BY <1>7, <1>9, <2>2, <2>3, <3>1 DEF Fine, Within
    <2>5. o2.k.count > 0 /\ ~ Whole(o2)
      BY <1>1, <1>5, <2>2 DEF Whole
    <2>6. AreWays(HookWays(t, b, k.route))
      BY <1>5, HookWaysAre
    <2>7. PICK ways : ways = HookWays(t, b, k.route)
      OBVIOUS
    <2>8. r \in Sent(t, o2, ways, "new") /\ AreWays(ways)
      BY <1>11, <2>1, <2>6, <2>7
    <2>9. "new" \in Status
      BY DEF Status
    <2>10. /\ Fine(t, b, k0, r) /\ r.k.count > 0 /\ r.status = o2.status /\ r.out = o2.out
           /\ ~ Whole(r)
      <3>1. PICK new \in Status : new = "new"
        BY <2>9
      <3>2. r \in Sent(t, o2, ways, new) /\ new # "failed"
        BY <2>8, <3>1
      <3>. QED
        BY <2>4, <2>5, <2>8, <3>2, SentFine
    <2>. QED
      BY <2>2, <2>10 DEF Done, Known
  <1>12. Pushed(o.k.route, b) = route
    BY <1>3
  <1>. QED
    BY <1>4, <1>6, <1>10, <1>11, <1>12 DEF Forward

-----------------------------------------------------------------------------
(* The executor.                                                           *)

\* A failure is answered, and counted.
LEMMA FailedWorks ==
    ASSUME TypeInv, NEW t \in Task, NEW b \in Bot, NEW k0 \in Fields, NEW o,
           Working(t, b, k0, o), NEW r \in Failed(t, b, o)
    PROVE  Working(t, b, k0, r) /\ r.status = "failed" /\ r.queue = o.queue
  <1>1. /\ o \in Outcomes /\ o.k \in Fields /\ o.k.count \in Nat /\ o.k.route \in Seq(Bot)
        /\ Fine(t, b, k0, o) /\ o.gone \in BOOLEAN /\ o.bad \in 0..1 /\ bad[t] \in 0..1
    BY FineIs, CountsAre DEF Working
  <1>2. PICK o1 : o1 = [o EXCEPT !.status = "failed", !.bad = 1]
    OBVIOUS
  <1>3. /\ o1.k = o.k /\ o1.status = "failed" /\ o1.out = o.out /\ o1.sent = o.sent
        /\ o1.queue = o.queue /\ o1.planned = o.planned /\ o1.bad = 1
        /\ o1.broken = o.broken
    BY <1>1, <1>2 DEF Outcomes
  <1>4. o1 \in Outcomes
    <2>1. "failed" \in Status /\ 1 \in 0..1
      BY DEF Status
    <2>. QED
      BY <1>1, <1>2, <2>1 DEF Outcomes
  <1>5. Fine(t, b, k0, o1)
    BY <1>1, <1>3, <1>4 DEF Fine, Within
  <1>6. PICK ways : ways = HookWays(t, b, o.k.route)
    OBVIOUS
  <1>7. AreWays(ways)
    BY <1>1, <1>6, HookWaysAre
  <1>8. PICK failed \in Status : failed = "failed"
    BY DEF Status
  <1>9. PICK r1 \in Sent(t, o1, ways, failed) : r = [r1 EXCEPT !.gone = o.gone]
    BY <1>2, <1>6, <1>8 DEF Failed
  <1>10. /\ Fine(t, b, k0, r1) /\ r1.k.count > 0 /\ r1.status = o1.status
         /\ r1.queue = o1.queue /\ r1.bad = o1.bad /\ r1.out = o1.out
    BY <1>3, <1>5, <1>7, <1>9, SentFine DEF Working
  <1>11. r1 \in Outcomes
    BY <1>10 DEF Fine
  <1>12. r \in Outcomes
    BY <1>1, <1>9, <1>11 DEF Outcomes
  <1>13. /\ r.k = r1.k /\ r.status = r1.status /\ r.out = r1.out /\ r.sent = r1.sent
         /\ r.queue = r1.queue /\ r.planned = r1.planned /\ r.bad = r1.bad
         /\ r.broken = r1.broken
    BY <1>9, <1>11 DEF Outcomes
  <1>14. Fine(t, b, k0, r)
    BY <1>10, <1>12, <1>13 DEF Fine, Within
  <1>. QED
    BY <1>3, <1>10, <1>13, <1>14 DEF Working, Known, Whole

\* What a command makes: the task is delegated, or it failed, or it has a result.
Ran(t, b, k, o, r) ==
    \/ Done(t, b, k, r) /\ r.status = "delegated"
    \/ Working(t, b, k, r) /\ r.status \in {"failed", "pending"} /\ r.queue = o.queue

\* A plan makes room for what it sends and leaves in the queue.
LEMMA PlannedHasRoom ==
    ASSUME TypeInv, NEW t \in Task, NEW b \in Bot, NEW k0 \in Fields, NEW o,
           Fine(t, b, k0, o), Whole(o) => Unsent(k0, o), NEW p \in Plans(b, o)
    PROVE  /\ Fine(t, b, k0, Planned(o, p)) /\ Head(p) \in Command
           /\ Within(t, b, k0, o.k.count + 1, Planned(o, p)) /\ Planned(o, p).k = o.k
           /\ Planned(o, p).status = o.status /\ Planned(o, p).out = o.out
           /\ Whole(Planned(o, p)) => Unsent(k0, Planned(o, p))
           /\ Planned(o, p).planned > 0
  <1>1. /\ o \in Outcomes /\ o.queue \in Seq(Command) /\ Len(o.queue) \in Nat
        /\ o.planned \in Nat /\ o.k.count \in Nat /\ k0.count \in Nat
        /\ planned[t] \in Nat /\ Len(queue[b][t]) \in Nat /\ MaxCommands \in Nat
    BY FineIs, CountsAre
  <1>2. PICK n \in 1..MaxPlan : p \in [1..n -> Command] /\ o.planned + Len(p) <= MaxCommands
    BY DEF Plans
  <1>3. n \in Nat \ {0}
    BY <1>2, RoutingAssumption
  <1>4. p \in Seq(Command) /\ Len(p) = n /\ p # <<>>
    BY <1>2, <1>3
  <1>5. Head(p) \in Command /\ Tail(p) \in Seq(Command) /\ Len(Tail(p)) = n - 1
    BY <1>3, <1>4, HeadTailProperties
  <1>6. PICK q \in Seq(Command) : q = (IF Len(p) > 1 THEN Tail(p) ELSE o.queue)
    BY <1>1, <1>5
  <1>7. Len(q) \in Nat /\ Len(q) + 1 <= Len(o.queue) + n
    BY <1>1, <1>3, <1>4, <1>5, <1>6
  <1>8. PICK r : r = [o EXCEPT !.planned = o.planned + n, !.queue = q]
    OBVIOUS
  <1>9. r = Planned(o, p)
    BY <1>4, <1>6, <1>8 DEF Planned
  <1>10. /\ r.k = o.k /\ r.status = o.status /\ r.out = o.out /\ r.sent = o.sent
         /\ r.queue = q /\ r.planned = o.planned + n /\ r.bad = o.bad
         /\ r.broken = o.broken /\ r.gone = o.gone /\ r.final = o.final
    BY <1>1, <1>8 DEF Outcomes
  <1>11. r \in Outcomes
    <2>1. o.planned + n \in 0..MaxCommands
      BY <1>1, <1>2, <1>3, <1>4
    <2>. QED
      BY <1>1, <1>6, <1>8, <2>1 DEF Outcomes
  <1>12. ASSUME NEW c \in Nat, Within(t, b, k0, c, o)
         PROVE  Within(t, b, k0, c, r) /\ Within(t, b, k0, c + 1, r)
    <2>1. c + Len(o.queue) + planned[t] <= k0.count + Len(queue[b][t]) + o.planned
      BY <1>12 DEF Within
    <2>2. /\ c + 1 + Len(q) + planned[t] <= k0.count + Len(queue[b][t]) + (o.planned + n)
          /\ c + Len(q) + planned[t] <= k0.count + Len(queue[b][t]) + (o.planned + n)
      <3>1. ASSUME NEW w \in Nat, NEW x \in Nat, NEW p0 \in Nat, NEW kc \in Nat, NEW y \in Nat,
                   NEW p1 \in Nat, c + w + p0 <= kc + y + p1, x + 1 <= w + n
            PROVE  c + 1 + x + p0 <= kc + y + (p1 + n) /\ c + x + p0 <= kc + y + (p1 + n)
        BY <1>3, <3>1
      <3>. QED
        BY <1>1, <1>7, <2>1, <3>1
    <2>. QED
      BY <1>10, <2>2 DEF Within
  <1>13. Fine(t, b, k0, r)
    <2>1. Within(t, b, k0, o.k.count, r) /\ Within(t, b, k0, k0.count, r)
      BY <1>1, <1>12 DEF Fine
    <2>2. planned[t] <= r.planned
      BY <1>1, <1>3, <1>10 DEF Fine
    <2>3. ASSUME NEW x \in DOMAIN o.sent
          PROVE  Within(t, b, k0, x.k.count, r)
      <3>1. x.k.count \in Nat
        BY <1>1 DEF Outcomes, Sendings, Messages, Fields
      <3>. QED
        BY <1>12, <3>1 DEF Fine
    <2>. QED
      BY <1>10, <1>11, <2>1, <2>2, <2>3 DEF Fine
  <1>14. Within(t, b, k0, o.k.count + 1, r)
    BY <1>1, <1>12 DEF Fine
  <1>15. Whole(r) => Unsent(k0, r)
    BY <1>10 DEF Whole, Unsent
  <1>. QED
    BY <1>1, <1>3, <1>5, <1>9, <1>10, <1>13, <1>14, <1>15

LEMMA ChatRuns ==
    ASSUME TypeInv, NEW t \in Task, NEW b \in Bot, NEW k0 \in Fields, NEW o,
           Working(t, b, k0, o), NEW r \in Chat(t, b, o)
    PROVE  Ran(t, b, k0, o, r)
  <1>1. o \in Outcomes /\ o.k \in Fields /\ o.k.count \in Nat
    BY FineIs DEF Working
  <1>2. PICK o1 : o1 = [o EXCEPT !.k.orig = TRUE]
    OBVIOUS
  <1>3. PICK o2 : o2 = [o1 EXCEPT !.status = "pending"]
    OBVIOUS
  <1>4. Working(t, b, k0, o1) /\ o1.queue = o.queue /\ o1.planned = o.planned
    <2>1. PICK k : k = [o.k EXCEPT !.orig = TRUE]
      OBVIOUS
    <2>2. k \in Fields /\ k.route = o.k.route /\ k.count = o.k.count
      BY <1>1, <2>1 DEF Fields
    <2>3. o1 = [o EXCEPT !.k = k]
      BY <1>2, <2>1
    <2>4. o1 \in Outcomes
      BY <1>1, <2>2, <2>3 DEF Outcomes
    <2>5. /\ o1.k = k /\ o1.status = o.status /\ o1.out = o.out /\ o1.sent = o.sent
          /\ o1.queue = o.queue /\ o1.planned = o.planned /\ o1.bad = o.bad
          /\ o1.broken = o.broken /\ o1.gone = o.gone /\ o1.final = o.final
      BY <1>1, <2>3 DEF Outcomes
    <2>. QED
      BY <2>2, <2>4, <2>5 DEF Working, Fine, Within, Known, Whole, Unsent
  <1>5. ASSUME NEW s \in Failed(t, b, o1)
        PROVE  Ran(t, b, k0, o, s)
    BY <1>4, FailedWorks DEF Ran
  <1>6. Ran(t, b, k0, o, o2)
    <2>1. /\ o2 \in Outcomes /\ o2.k = o1.k /\ o2.status = "pending" /\ o2.out = o1.out
          /\ o2.sent = o1.sent /\ o2.queue = o1.queue /\ o2.planned = o1.planned
          /\ o2.bad = o1.bad /\ o2.broken = o1.broken /\ o2.gone = o1.gone
          /\ o2.final = o1.final
      BY <1>3, <1>4 DEF Outcomes, Working, Fine
    <2>. QED
      BY <1>4, <2>1 DEF Ran, Working, Fine, Within, Known, Whole, Unsent
  <1>7. ASSUME NEW p \in Plans(b, o), NEW s \in Forward(t, b, Planned(o1, p), Head(p))
        PROVE  Ran(t, b, k0, o, s)
    <2>1. p \in Plans(b, o1)
      BY <1>4 DEF Plans
    <2>2. PICK q : q = Planned(o1, p)
      OBVIOUS
    <2>3. /\ Fine(t, b, k0, q) /\ Head(p) \in Command
          /\ Within(t, b, k0, q.k.count + 1, q) /\ (Whole(q) => Unsent(k0, q))
      BY <1>4, <2>1, <2>2, PlannedHasRoom DEF Working
    <2>. QED
      BY <2>2, <2>3, ForwardDone DEF Ran
  <1>. QED
    BY <1>2, <1>3, <1>5, <1>6, <1>7 DEF Chat, MayFail

LEMMA ExecuteRuns ==
    ASSUME TypeInv, NEW t \in Task, NEW b \in Bot, NEW k0 \in Fields, NEW o,
           Working(t, b, k0, o), NEW r \in Execute(t, b, o)
    PROVE  Ran(t, b, k0, o, r)
  <1>1. CASE r \in Chat(t, b, o)
    BY <1>1, ChatRuns
  <1>2. CASE r \in Failed(t, b, o)
    BY <1>2, FailedWorks DEF Ran
  <1>3. CASE r = [o EXCEPT !.status = "pending"]
    <2>1. /\ r \in Outcomes /\ r.k = o.k /\ r.status = "pending" /\ r.out = o.out
          /\ r.sent = o.sent /\ r.queue = o.queue /\ r.planned = o.planned
          /\ r.bad = o.bad /\ r.broken = o.broken /\ r.gone = o.gone /\ r.final = o.final
      BY <1>3 DEF Outcomes, Working, Fine
    <2>. QED
      BY <2>1 DEF Ran, Working, Fine, Within, Known, Whole, Unsent
  <1>. QED
    BY <1>1, <1>2, <1>3 DEF Execute, MayFail

-----------------------------------------------------------------------------
(* process_return and on_message.                                          *)

\* What is taken off the route is the bot that gets the answer.
LEMMA OnRest ==
    ASSUME NEW route \in Seq(Bot), route # <<>>, NEW c \in Bot, On(c, route)
    PROVE  c = route[Len(route)] \/ On(c, Rest(route))
  <1>1. PICK n \in Nat \ {0} : n = Len(route)
    OBVIOUS
  <1>2. /\ Len(SubSeq(route, 1, n - 1)) = n - 1
        /\ \A j \in 1..(n - 1) : SubSeq(route, 1, n - 1)[j] = route[j]
    BY <1>1, PartOfRoute
  <1>3. PICK i \in 1..n : route[i] = c
    BY <1>1 DEF On
  <1>4. CASE i = n
    BY <1>1, <1>3, <1>4
  <1>5. CASE i # n
    <2>1. i \in 1..(n - 1)
      BY <1>1, <1>3, <1>5
    <2>2. PICK s : s = SubSeq(route, 1, n - 1)
      OBVIOUS
    <2>3. Len(s) = n - 1 /\ s[i] = c
      BY <1>2, <1>3, <2>1, <2>2
    <2>4. On(c, s)
      BY <2>1, <2>3 DEF On
    <2>. QED
      BY <1>1, <2>2, <2>4 DEF Rest
  <1>. QED
    BY <1>4, <1>5

\* When nothing waits, an answer is done with the task.
LEMMA AnswerDone ==
    ASSUME TypeInv, NEW t \in Task, NEW b \in Bot, NEW k0 \in Fields, NEW o,
           Working(t, b, k0, o), o.queue = <<>>, NEW r \in Answer(t, b, o)
    PROVE  Done(t, b, k0, r)
  <1>1. /\ o \in Outcomes /\ o.k \in Fields /\ o.k.route \in Seq(Bot) /\ Fine(t, b, k0, o)
        /\ o.sent \in Sendings /\ o.k.count > 0
    BY FineIs DEF Working
  <1>2. PICK ways : ways = ReturnWays(t, b, o.k.route)
    OBVIOUS
  <1>3. /\ AreWays(ways) /\ (DOMAIN ways = {} => o.k.route = <<>>)
        /\ \A w \in DOMAIN ways : Before(ways, w) = {} /\ o.k.route # <<>> =>
                /\ ways[w].route = Rest(o.k.route)
                /\ o.k.route[Len(o.k.route)] # b => ways[w].to = o.k.route[Len(o.k.route)]
    BY <1>1, <1>2, ReturnWaysAre
  <1>4. CASE DOMAIN ways = {} /\ r = [o EXCEPT !.final = TRUE]
    <2>1. r \in Outcomes
      BY <1>1, <1>4 DEF Outcomes
    <2>2. /\ r.k = o.k /\ r.status = o.status /\ r.out = o.out /\ r.sent = o.sent
          /\ r.queue = o.queue /\ r.planned = o.planned /\ r.bad = o.bad
          /\ r.broken = o.broken /\ r.gone = o.gone /\ r.final = TRUE
      BY <1>1, <1>4 DEF Outcomes
    <2>3. Fine(t, b, k0, r) /\ Known(t, b, r)
      BY <2>1, <2>2 DEF Working, Fine, Within, Known
    <2>4. Whole(r) => Passed(b, k0, r)
      BY <1>3, <1>4, <2>2 DEF Working, Whole, Unsent, Passed
    <2>. QED
      BY <1>1, <2>2, <2>3, <2>4 DEF Done
  <1>5. CASE r \in Sent(t, o, ways, "returning")
    <2>1. PICK back \in Status : back = "returning"
      BY DEF Status
    <2>2. r \in Sent(t, o, ways, back) /\ back # "failed"
      BY <1>5, <2>1
    <2>3. /\ Fine(t, b, k0, r) /\ r.k.count > 0
          /\ r.status = o.status /\ r.queue = o.queue /\ r.bad = o.bad /\ r.out = o.out
          /\ Whole(r) => Whole(o) /\ SentFirst(o, ways, r)
      BY <1>1, <1>3, <2>2, SentFine
    <2>4. ASSUME Whole(r)
          PROVE  Passed(b, k0, r)
      <3>1. o.sent = EmptyBag /\ ~ o.final /\ o.k.route = k0.route
        BY <2>3, <2>4 DEF Working, Unsent
      <3>2. PICK w \in DOMAIN ways, x \in Messages :
                /\ Before(ways, w) = {} /\ x.to = ways[w].to /\ x.k.route = ways[w].route
                /\ r.sent = o.sent (+) SetToBag({x}) /\ r.final = o.final
        BY <2>3, <2>4 DEF SentFirst
      <3>3. r.sent = SetToBag({x}) /\ ~ r.final /\ r.queue = <<>>
        BY <1>1, <2>3, <3>1, <3>2, OneMore
      <3>4. ASSUME NEW c \in Bot, c # b, On(c, k0.route)
            PROVE  c = x.to \/ On(c, x.k.route)
        <4>1. o.k.route # <<>>
          BY <3>1, <3>4 DEF On
        <4>2. c = o.k.route[Len(o.k.route)] \/ On(c, Rest(o.k.route))
          BY <1>1, <3>1, <3>4, <4>1, OnRest
        <4>. QED
          BY <1>3, <3>2, <3>4, <4>1, <4>2
      <3>. QED
        BY <3>3, <3>4 DEF Passed
    <2>. QED
      BY <2>3, <2>4 DEF Done, Working, Known
  <1>. QED
    BY <1>2, <1>4, <1>5 DEF Answer

\* Whatever the state of the task, process_return is done with it: unless the task was
\* delegated nothing has been sent, and only what comes back finds commands that wait.
LEMMA ReturnDone ==
    ASSUME TypeInv, NEW t \in Task, NEW b \in Bot, NEW k0 \in Fields, NEW o,
           \/ Done(t, b, k0, o) /\ o.status = "delegated"
           \/ /\ Working(t, b, k0, o) /\ o.status # "delegated"
              /\ o.status \in {"returning", "failed"} \/ o.queue = <<>>,
           NEW r \in ProcessReturn(t, b, o)
    PROVE  Done(t, b, k0, r)
  <1>1. CASE o.status = "delegated"
    BY <1>1 DEF ProcessReturn
  <1>2. CASE o.status \in {"returning", "failed"} /\ o.queue # <<>>
    <2>1. /\ Working(t, b, k0, o) /\ o \in Outcomes /\ o.k \in Fields /\ o.queue \in Seq(Command)
          /\ o.k.count \in Nat /\ k0.count \in Nat /\ Fine(t, b, k0, o)
          /\ planned[t] \in Nat /\ Len(queue[b][t]) \in Nat /\ o.planned \in Nat
      BY <1>2, FineIs, CountsAre DEF Working
    <2>2. PICK k : k = [o.k EXCEPT !.orig = FALSE]
      OBVIOUS
    <2>3. k \in Fields /\ k.route = o.k.route /\ k.count = o.k.count
      BY <2>1, <2>2 DEF Fields
    <2>4. PICK q : q = Tail(o.queue)
      OBVIOUS
    <2>5. /\ q \in Seq(Command) /\ Len(q) \in Nat /\ Len(o.queue) = Len(q) + 1
          /\ Head(o.queue) \in Command
      BY <1>2, <2>1, <2>4, HeadTailProperties
    <2>6. PICK s : s = [o EXCEPT !.k = k, !.queue = q]
      OBVIOUS
    <2>7. s \in Outcomes
      BY <2>1, <2>3, <2>5, <2>6 DEF Outcomes
    <2>8. /\ s.k = k /\ s.status = o.status /\ s.out = o.out /\ s.sent = o.sent
          /\ s.queue = q /\ s.planned = o.planned /\ s.bad = o.bad
          /\ s.broken = o.broken /\ s.gone = o.gone /\ s.final = o.final
      BY <2>1, <2>6 DEF Outcomes
    <2>9. ASSUME NEW c \in Nat, Within(t, b, k0, c, o)
          PROVE  Within(t, b, k0, c, s) /\ Within(t, b, k0, c + 1, s)
      <3>1. c + Len(o.queue) + planned[t] <= k0.count + Len(queue[b][t]) + o.planned
        BY <2>9 DEF Within
      <3>2. /\ c + 1 + Len(q) + planned[t] <= k0.count + Len(queue[b][t]) + o.planned
            /\ c + Len(q) + planned[t] <= k0.count + Len(queue[b][t]) + o.planned
        <4>1. ASSUME NEW w \in Nat, NEW p0 \in Nat, NEW kc \in Nat, NEW y \in Nat, NEW p1 \in Nat,
                     c + (w + 1) + p0 <= kc + y + p1
              PROVE  c + 1 + w + p0 <= kc + y + p1 /\ c + w + p0 <= kc + y + p1
          BY <4>1
        <4>. QED
          BY <2>1, <2>5, <3>1, <4>1
      <3>. QED
        BY <2>8, <3>2 DEF Within
    <2>10. Fine(t, b, k0, s)
      <3>1. ASSUME NEW x \in DOMAIN o.sent
            PROVE  Within(t, b, k0, x.k.count, s)
        <4>1. x.k.count \in Nat
          BY <2>1 DEF Outcomes, Sendings, Messages, Fields
        <4>. QED
          BY <2>1, <2>9, <4>1 DEF Fine
      <3>2. Within(t, b, k0, o.k.count, s) /\ Within(t, b, k0, k0.count, s)
        BY <2>1, <2>9 DEF Fine
      <3>. QED
        BY <2>1, <2>3, <2>7, <2>8, <3>1, <3>2 DEF Fine
    <2>11. Within(t, b, k0, s.k.count + 1, s)
      BY <2>1, <2>3, <2>8, <2>9 DEF Fine
    <2>12. Whole(s) => Unsent(k0, s)
      BY <2>1, <2>3, <2>8 DEF Whole, Unsent, Working
    <2>13. r \in Forward(t, b, s, Head(o.queue))
      BY <1>2, <2>2, <2>4, <2>6 DEF ProcessReturn
    <2>. QED
      BY <2>5, <2>10, <2>11, <2>12, <2>13, ForwardDone
  <1>3. CASE /\ o.status # "delegated" /\ o.queue = <<>>
             /\ r \in UNION {IF s.status = "delegated" THEN {s} ELSE Answer(t, b, s)
                               : s \in Chat(t, b, o)}
    <2>1. PICK s \in Chat(t, b, o) : r \in IF s.status = "delegated" THEN {s} ELSE Answer(t, b, s)
      BY <1>3
    <2>2. Ran(t, b, k0, o, s)
      BY <1>3, ChatRuns
    <2>3. CASE s.status = "delegated"
      BY <2>1, <2>2, <2>3 DEF Ran
    <2>4. CASE s.status # "delegated"
      <3>1. Working(t, b, k0, s) /\ s.queue = <<>> /\ r \in Answer(t, b, s)
        BY <1>3, <2>1, <2>2, <2>4 DEF Ran
      <3>. QED
        BY <3>1, AnswerDone
    <2>. QED
      BY <2>3, <2>4
  <1>4. CASE r \in Answer(t, b, o) /\ o.status # "delegated" /\ o.queue = <<>>
    BY <1>4, AnswerDone
  <1>. QED
    BY <1>1, <1>2, <1>3, <1>4 DEF ProcessReturn

\* What a handler begins with.
LEMMA OutcomeFine ==
    ASSUME TypeInv, PlaceInv, NEW t \in Task, NEW b \in Bot, NEW k \in Fields,
           NEW status \in Status \cup {"created"}, NEW o, o = Outcome(t, b, k, status)
    PROVE  /\ Fine(t, b, k, o) /\ Known(t, b, o) /\ Unsent(k, o)
           /\ o.k = k /\ o.status = status /\ o.queue = queue[b][t]
           /\ o.out = (t \in outgoing[b]) /\ o.bad = bad[t] /\ ~ o.gone
  <1>1. /\ planned[t] \in 0..MaxCommands /\ bad[t] \in 0..1 /\ broken[t] \in Nat
        /\ queue[b][t] \in Seq(Command) /\ planned[t] \in Nat /\ Len(queue[b][t]) \in Nat
    BY CountsAre
  <1>2. EmptyBag \in Sendings /\ DOMAIN EmptyBag = {}
    BY SendingsAreBags
  <1>3. PICK e : e = EmptyBag
    OBVIOUS
  <1>4. /\ o.k = k /\ o.status = status /\ o.sent = e /\ o.queue = queue[b][t]
        /\ o.out = (t \in outgoing[b]) /\ o.planned = planned[t] /\ o.bad = bad[t]
        /\ o.broken = broken[t] /\ o.gone = FALSE /\ o.final = FALSE
    BY <1>3 DEF Outcome
  <1>5. o \in Outcomes
    <2>1. o = [k |-> k, status |-> status, sent |-> e, queue |-> queue[b][t],
               out |-> t \in outgoing[b], planned |-> planned[t], bad |-> bad[t],
               broken |-> broken[t], gone |-> FALSE, final |-> FALSE]
      BY <1>3 DEF Outcome
    <2>2. status \in Status \cup {"created", "delegated", "pending"}
      OBVIOUS
    <2>3. (t \in outgoing[b]) \in BOOLEAN
      OBVIOUS
    <2>. QED
      BY <1>1, <1>2, <1>3, <2>1, <2>2, <2>3 DEF Outcomes
  <1>6. k.count \in Nat
    BY DEF Fields
  <1>7. Fine(t, b, k, o)
    <2>1. Within(t, b, k, k.count, o)
      BY <1>1, <1>4, <1>6 DEF Within
    <2>2. bad[t] <= o.bad /\ broken[t] <= o.broken /\ planned[t] <= o.planned
      BY <1>1, <1>4
    <2>. QED
      BY <1>2, <1>3, <1>4, <1>5, <2>1, <2>2 DEF Fine
  <1>8. Known(t, b, o)
    BY <1>4 DEF Known, PlaceInv
  <1>9. Unsent(k, o)
    BY <1>3, <1>4 DEF Unsent
  <1>. QED
    BY <1>4, <1>7, <1>8, <1>9

LEMMA MessageTypes ==
    ASSUME TypeInv, NEW m \in BagToSet(msgs)
    PROVE  /\ m \in Messages /\ m.task \in Task /\ m.to \in Bot /\ m.status \in Status
           /\ m.k \in Fields /\ m.k.count \in Nat /\ m.k.count > 0 /\ m.k.route \in Seq(Bot)
  <1>1. m \in Messages
    BY DEF TypeInv
  <1>2. m.task \in Task /\ m.to \in Bot /\ m.status \in Status /\ m.k \in Fields
    BY <1>1 DEF Messages
  <1>3. m.k.count \in Nat /\ m.k.route \in Seq(Bot)
    BY <1>2 DEF Fields
  <1>4. m.k.count > 0
    BY <1>2 DEF TypeInv, Counted, MessagesOf
  <1>. QED
    BY <1>1, <1>2, <1>3, <1>4

\* A handler is done with the task that its message tells of.
LEMMA HandledDone ==
    ASSUME TypeInv, PlaceInv, NEW m \in BagToSet(msgs), NEW r \in Handled(m.task, m.to, m)
    PROVE  Done(m.task, m.to, m.k, r)
  <1>1. PICK t \in Task, b \in Bot, k0 \in Fields : t = m.task /\ b = m.to /\ k0 = m.k
    BY MessageTypes
  <1>2. PICK o : o = Outcome(t, b, k0, m.status)
    OBVIOUS
  <1>3. m.status \in Status /\ k0.count > 0
    BY <1>1, MessageTypes
  <1>4. /\ Working(t, b, k0, o) /\ o.k = k0 /\ o.status = m.status /\ o.queue = queue[b][t]
        /\ o.out = (t \in outgoing[b]) /\ o.bad = bad[t] /\ ~ o.gone
    BY <1>2, <1>3, OutcomeFine DEF Working
  <1>5. CASE m.status = "new" /\ o.out
    <2>1. r = [o EXCEPT !.gone = TRUE]
      BY <1>1, <1>2, <1>5 DEF Handled
    <2>2. o \in Outcomes
      BY <1>4 DEF Working, Fine
    <2>3. r \in Outcomes
      BY <2>1, <2>2 DEF Outcomes
    <2>4. /\ r.k = o.k /\ r.status = o.status /\ r.out = o.out /\ r.sent = o.sent
          /\ r.queue = o.queue /\ r.planned = o.planned /\ r.bad = o.bad
          /\ r.broken = o.broken /\ r.gone = TRUE /\ r.final = o.final
      BY <2>1, <2>2 DEF Outcomes
    <2>. QED
      BY <1>1, <1>4, <2>3, <2>4 DEF Done, Working, Fine, Within, Known, Whole
  <1>6. CASE m.status = "new" /\ ~ o.out
    <2>1. PICK s \in Execute(t, b, o) : r \in ProcessReturn(t, b, s)
      BY <1>1, <1>2, <1>6 DEF Handled
    <2>2. Ran(t, b, k0, o, s)
      BY <1>4, <2>1, ExecuteRuns
    <2>3. o.queue = <<>>
      BY <1>4, <1>6 DEF PlaceInv
    <2>. QED
      BY <1>1, <2>1, <2>2, <2>3, ReturnDone DEF Ran
  <1>7. CASE m.status = "failed" /\ ~ o.out
    <2>1. PICK s \in Sent(t, o, HookWays(t, b, o.k.route), "failed") :
                  r \in ProcessReturn(t, b, [s EXCEPT !.gone = o.gone])
      BY <1>1, <1>2, <1>7 DEF Handled
    <2>2. o.bad = 1 /\ Fine(t, b, k0, o) /\ o.k.count > 0 /\ o.k.route \in Seq(Bot)
          /\ o.gone \in BOOLEAN
      BY <1>1, <1>4, <1>7, FineIs DEF PlaceInv, Working
    <2>3. PICK ways : ways = HookWays(t, b, o.k.route)
      OBVIOUS
    <2>4. AreWays(ways)
      BY <2>2, <2>3, HookWaysAre
    <2>5. PICK failed \in Status : failed = "failed"
      BY <1>3, <1>7
    <2>6. s \in Sent(t, o, ways, failed)
      BY <2>1, <2>3, <2>5
    <2>7. /\ Fine(t, b, k0, s) /\ s.k.count > 0
          /\ s.status = o.status /\ s.queue = o.queue /\ s.bad = o.bad /\ s.out = o.out
      BY <2>2, <2>4, <2>6, SentFine
    <2>8. PICK q : q = [s EXCEPT !.gone = o.gone]
      OBVIOUS
    <2>9. s \in Outcomes
      BY <2>7 DEF Fine
    <2>10. q \in Outcomes
      BY <2>2, <2>8, <2>9 DEF Outcomes
    <2>11. /\ q.k = s.k /\ q.status = s.status /\ q.out = s.out /\ q.sent = s.sent
           /\ q.queue = s.queue /\ q.planned = s.planned /\ q.bad = s.bad
           /\ q.broken = s.broken
      BY <2>8, <2>9 DEF Outcomes
    <2>12. Working(t, b, k0, q) /\ q.status = "failed"
      BY <1>4, <1>7, <2>2, <2>7, <2>10, <2>11 DEF Working, Fine, Within, Known, Whole
    <2>. QED
      BY <1>1, <2>1, <2>8, <2>12, ReturnDone
  <1>8. CASE r \in ProcessReturn(t, b, o) /\ m.status \in {"returning", "failed"}
    BY <1>1, <1>4, <1>8, ReturnDone
  <1>. QED
    BY <1>1, <1>2, <1>3, <1>5, <1>6, <1>7, <1>8 DEF Handled, Status

-----------------------------------------------------------------------------
(* The steps.                                                              *)

LEMMA BagsLeft ==
    ASSUME NEW B, IsABag(B), NEW m \in DOMAIN B, NEW L, L = B (-) SetToBag({m})
    PROVE  /\ IsABag(L) /\ DOMAIN L \subseteq DOMAIN B
           /\ \A e \in DOMAIN B : e # m => e \in DOMAIN L /\ L[e] = B[e]
           /\ B[m] = 1 => m \notin DOMAIN L
  <1>1. /\ B \in [DOMAIN B -> Nat \ {0}]
    BY DEF IsABag
  <1>2. PICK S : S = SetToBag({m})
    OBVIOUS
  <1>3. DOMAIN S = {m} /\ S[m] = 1
    BY <1>2 DEF SetToBag
  <1>4. PICK D : D = [e \in DOMAIN B |-> IF e \in DOMAIN S THEN B[e] - S[e] ELSE B[e]]
    OBVIOUS
  <1>5. PICK left : left = {d \in DOMAIN D : D[d] > 0}
    OBVIOUS
  <1>6. L = [e \in left |-> D[e]]
    BY <1>2, <1>4, <1>5 DEF (-)
  <1>7. \A e \in DOMAIN B : D[e] = (IF e = m THEN B[m] - 1 ELSE B[e]) /\ B[e] \in Nat \ {0}
    BY <1>1, <1>3, <1>4
  <1>8. /\ left \subseteq DOMAIN B /\ \A e \in DOMAIN B : e # m => e \in left
        /\ \A e \in left : D[e] \in Nat \ {0}
        /\ B[m] = 1 => m \notin left
    BY <1>4, <1>5, <1>7
  <1>9. IsABag(L)
    BY <1>6, <1>8 DEF IsABag
  <1>. QED
    BY <1>6, <1>7, <1>8, <1>9

LEMMA NothingLeft ==
    ASSUME NEW B, IsABag(B)
    PROVE  B (-) EmptyBag = B
  <1>1. B \in [DOMAIN B -> Nat \ {0}]
    BY DEF IsABag
  <1>2. PICK S : S = EmptyBag
    OBVIOUS
  <1>3. DOMAIN S = {}
    BY <1>2 DEF EmptyBag, SetToBag
  <1>4. B (-) S = [e \in {d \in DOMAIN B : B[d] > 0} |-> B[e]]
    BY <1>1, <1>3 DEF (-)
  <1>5. {d \in DOMAIN B : B[d] > 0} = DOMAIN B
    BY <1>1
  <1>. QED
    BY <1>1, <1>2, <1>4, <1>5

LEMMA BagsAdded ==
    ASSUME NEW B, IsABag(B), NEW S, IsABag(S)
    PROVE  /\ IsABag(B (+) S) /\ DOMAIN (B (+) S) = DOMAIN B \cup DOMAIN S
           /\ \A e \in DOMAIN B \ DOMAIN S : (B (+) S)[e] = B[e]
           /\ \A e \in DOMAIN S \ DOMAIN B : (B (+) S)[e] = S[e]
  <1>1. B \in [DOMAIN B -> Nat \ {0}] /\ S \in [DOMAIN S -> Nat \ {0}]
    BY DEF IsABag
  <1>. QED
    BY <1>1 DEF (+), IsABag

\* The places of one bot in the queues, and those of the others.
LEMMA PlacesAdd ==
    ASSUME NEW W, IsFiniteSet(W), NEW b \in Bot, NEW n \in Nat, \A w \in W : w[1] # b
    PROVE  /\ IsFiniteSet(W \cup ({b} \X (1..n))) /\ Cardinality(W) \in Nat
           /\ Cardinality(W \cup ({b} \X (1..n))) = Cardinality(W) + n
  <1>1. IsFiniteSet({b}) /\ Cardinality({b}) = 1
    BY FS_Singleton
  <1>2. IsFiniteSet(1..n) /\ Cardinality(1..n) = n
    BY FS_Interval
  <1>3. PICK P : P = {b} \X (1..n)
    OBVIOUS
  <1>4. IsFiniteSet(P) /\ Cardinality(P) = Cardinality({b}) * Cardinality(1..n)
    BY <1>1, <1>2, <1>3, FS_Product
  <1>5. Cardinality(P) = n
    BY <1>1, <1>2, <1>4
  <1>6. W \cap P = {}
    BY <1>3
  <1>7. Cardinality(W) \in Nat /\ Cardinality(W \cap P) = 0
    BY <1>6, FS_CardinalityType, FS_EmptySet
  <1>8. /\ IsFiniteSet(W \cup P)
        /\ Cardinality(W \cup P) = Cardinality(W) + Cardinality(P) - Cardinality(W \cap P)
    BY <1>4, FS_Union
  <1>. QED
    BY <1>3, <1>5, <1>7, <1>8

LEMMA WaitingAfter ==
    ASSUME TypeInv, NEW t \in Task, NEW b \in Bot, NEW q \in Seq(Command),
           queue' = [queue EXCEPT ![b][t] = q]
    PROVE  /\ IsFiniteSet(Waiting(t)') /\ Cardinality(Waiting(t)') \in Nat
           /\ Cardinality(Waiting(t)) \in Nat
           /\ Cardinality(Waiting(t)') + Len(queue[b][t]) = Cardinality(Waiting(t)) + Len(q)
           /\ \A u \in Task \ {t} : Waiting(u)' = Waiting(u)
  <1>1. queue \in [Bot -> [Task -> Seq(Command)]] /\ IsFiniteSet(Waiting(t))
    BY DEF TypeInv, Counted
  <1>2. PICK n \in Nat : n = Len(queue[b][t])
    BY <1>1
  <1>3. PICK l \in Nat : l = Len(q)
    OBVIOUS
  <1>4. PICK W : W = {w \in Waiting(t) : w[1] # b}
    OBVIOUS
  <1>5. /\ queue'[b][t] = q /\ \A u \in Task \ {t} : queue'[b][u] = queue[b][u]
        /\ \A c \in Bot \ {b} : queue'[c] = queue[c]
    BY <1>1
  <1>6. Waiting(t) = W \cup ({b} \X (1..n))
    BY <1>2, <1>4 DEF Waiting
  <1>7. Waiting(t)' = W \cup ({b} \X (1..l))
    <2>1. Waiting(t)' = {w \in Bot \X Nat : w[2] \in 1..Len(queue'[w[1]][t])}
      BY DEF Waiting
    <2>2. W = {w \in Bot \X Nat : w[1] # b /\ w[2] \in 1..Len(queue[w[1]][t])}
      BY <1>4 DEF Waiting
    <2>3. \A w \in Bot \X Nat :
             w \in Waiting(t)' <=> w \in W \/ (w[1] = b /\ w[2] \in 1..l)
      BY <1>3, <1>5, <2>1, <2>2
    <2>4. W \subseteq Bot \X Nat /\ {b} \X (1..l) \subseteq Bot \X Nat
      BY <2>2
    <2>. QED
      BY <2>1, <2>3, <2>4
  <1>8. IsFiniteSet(W) /\ \A w \in W : w[1] # b
    BY <1>1, <1>4, FS_Subset
  <1>9. \A u \in Task \ {t} : Waiting(u)' = Waiting(u)
    BY <1>5 DEF Waiting
  <1>10. /\ IsFiniteSet(Waiting(t)') /\ Cardinality(Waiting(t)') = Cardinality(W) + l
         /\ Cardinality(Waiting(t)) = Cardinality(W) + n /\ Cardinality(W) \in Nat
    <2>1. /\ IsFiniteSet(W \cup ({b} \X (1..l))) /\ Cardinality(W) \in Nat
          /\ Cardinality(W \cup ({b} \X (1..l))) = Cardinality(W) + l
      BY <1>8, PlacesAdd
    <2>2. Cardinality(W \cup ({b} \X (1..n))) = Cardinality(W) + n
      BY <1>8, PlacesAdd
    <2>. QED
      BY <1>6, <1>7, <2>1, <2>2
  <1>11. PICK c \in Nat : c = Cardinality(W)
    BY <1>10
  <1>12. Cardinality(Waiting(t)') = c + l /\ Cardinality(Waiting(t)) = c + n
    BY <1>10, <1>11
  <1>13. /\ Cardinality(Waiting(t)') \in Nat /\ Cardinality(Waiting(t)) \in Nat
         /\ Cardinality(Waiting(t)') + n = Cardinality(Waiting(t)) + l
    BY <1>12
  <1>. QED
    BY <1>2, <1>3, <1>9, <1>10, <1>11, <1>13

\* The messages that are left when a handler has taken its own: of the task t none, as long as
\* all is well, and only who is on the route that the message had has commands waiting.
Taken(t, b, k, L) ==
    /\ IsABag(L) /\ DOMAIN L \subseteq BagToSet(msgs)
    /\ \A y \in BagToSet(msgs) : y.task # t => y \in DOMAIN L /\ L[y] = msgs[y]
    /\ k.count + Cardinality(Waiting(t)) <= planned[t]
    /\ AllWell(t) =>
          /\ finals[t] = 0 /\ \A y \in DOMAIN L : y.task # t
          /\ \A c \in Bot \ {b} : queue[c][t] # <<>> => On(c, k.route)

\* What a handler does to the state.
Does(t, b, o, L) ==
    /\ msgs' = L (+) o.sent
    /\ outgoing' = IF o.out THEN [outgoing EXCEPT ![b] = @ \cup {t}] ELSE outgoing
    /\ queue' = [queue EXCEPT ![b][t] = o.queue]
    /\ planned' = [planned EXCEPT ![t] = o.planned]
    /\ bad' = [bad EXCEPT ![t] = o.bad] /\ broken' = [broken EXCEPT ![t] = o.broken]
    /\ gone' = IF o.gone THEN gone \cup {t} ELSE gone
    /\ finals' = IF o.final THEN [finals EXCEPT ![t] = @ + 1] ELSE finals
    /\ IF o.final /\ callback[t] = "set"
       THEN callback' = [callback EXCEPT ![t] = "called"] /\ calls' = [calls EXCEPT ![t] = @ + 1]
       ELSE callback' = callback /\ calls' = calls
    /\ up' = up /\ crashes' = crashes

LEMMA ApplyDoes ==
    ASSUME NEW t \in Task, NEW b \in Bot, NEW o, NEW consumed, Apply(t, b, o, consumed),
           NEW L, L = msgs (-) consumed
    PROVE  Does(t, b, o, L)
  BY DEF Apply, Does, Called

\* After the handler, the messages of its task are those left of it and what it sent.
LEMMA MessagesAfter ==
    ASSUME TypeInv, NEW t \in Task, NEW b \in Bot, NEW k0 \in Fields, NEW o,
           Fine(t, b, k0, o), NEW L, Taken(t, b, k0, L), Does(t, b, o, L)
    PROVE  /\ IsABag(msgs') /\ BagToSet(msgs') = DOMAIN L \cup DOMAIN o.sent
           /\ DOMAIN o.sent \subseteq Messages /\ \A y \in DOMAIN o.sent : y.task = t
           /\ \A y \in DOMAIN L \ DOMAIN o.sent : msgs'[y] = L[y]
           /\ \A y \in DOMAIN o.sent \ DOMAIN L : msgs'[y] = o.sent[y]
           /\ \A u \in Task \ {t} : MessagesOf(u)' = MessagesOf(u)
           /\ \A u \in Task \ {t} : \A y \in MessagesOf(u) : msgs'[y] = msgs[y]
  <1>1. o.sent \in Sendings
    BY FineIs
  <1>2. IsABag(o.sent) /\ DOMAIN o.sent \subseteq Messages
    BY <1>1, SendingsAreBags
  <1>3. IsABag(L) /\ DOMAIN L \subseteq DOMAIN msgs /\ msgs' = L (+) o.sent
    BY DEF Taken, Does, BagToSet
  <1>4. /\ IsABag(msgs') /\ DOMAIN msgs' = DOMAIN L \cup DOMAIN o.sent
        /\ \A y \in DOMAIN L \ DOMAIN o.sent : msgs'[y] = L[y]
        /\ \A y \in DOMAIN o.sent \ DOMAIN L : msgs'[y] = o.sent[y]
    <2>1. /\ IsABag(L (+) o.sent) /\ DOMAIN (L (+) o.sent) = DOMAIN L \cup DOMAIN o.sent
          /\ \A e \in DOMAIN L \ DOMAIN o.sent : (L (+) o.sent)[e] = L[e]
          /\ \A e \in DOMAIN o.sent \ DOMAIN L : (L (+) o.sent)[e] = o.sent[e]
      BY <1>2, <1>3, BagsAdded
    <2>. QED
      BY <1>3, <2>1
  <1>5. \A y \in DOMAIN o.sent : y.task = t
    BY DEF Fine
  <1>6. \A y \in DOMAIN msgs : y.task # t => y \in DOMAIN L /\ L[y] = msgs[y]
    BY DEF Taken, BagToSet
  <1>7. ASSUME NEW u \in Task \ {t}
        PROVE  MessagesOf(u)' = MessagesOf(u) /\ \A y \in MessagesOf(u) : msgs'[y] = msgs[y]
    <2>1. \A y : y \in DOMAIN msgs' /\ y.task = u <=> y \in DOMAIN msgs /\ y.task = u
      BY <1>3, <1>4, <1>5, <1>6
    <2>2. MessagesOf(u)' = MessagesOf(u)
      BY <2>1 DEF MessagesOf, BagToSet
    <2>3. \A y \in MessagesOf(u) : msgs'[y] = msgs[y]
      BY <1>4, <1>5, <1>6 DEF MessagesOf, BagToSet
    <2>. QED
      BY <2>2, <2>3
  <1>. QED
    BY <1>2, <1>4, <1>5, <1>7 DEF BagToSet

\* The count of every task makes up for what it has sent and what waits.
LEMMA CountedAfter ==
    ASSUME TypeInv, NEW t \in Task, NEW b \in Bot, NEW k0 \in Fields, NEW o,
           Fine(t, b, k0, o), NEW L, Taken(t, b, k0, L), Does(t, b, o, L)
    PROVE  \A u \in Task : Counted(u)'
  <1>1. /\ planned[t] \in Nat /\ o.planned \in Nat /\ k0.count \in Nat /\ o.queue \in Seq(Command)
        /\ Len(o.queue) \in Nat /\ Len(queue[b][t]) \in Nat
    BY FineIs, CountsAre
  <1>2. /\ planned \in [Task -> 0..MaxCommands] /\ planned' = [planned EXCEPT ![t] = o.planned]
        /\ queue' = [queue EXCEPT ![b][t] = o.queue]
    BY DEF TypeInv, Does
  <1>3. planned'[t] = o.planned /\ \A u \in Task \ {t} : planned'[u] = planned[u]
    BY <1>2
  <1>4. /\ IsFiniteSet(Waiting(t)') /\ Cardinality(Waiting(t)') \in Nat
        /\ Cardinality(Waiting(t)) \in Nat
        /\ Cardinality(Waiting(t)') + Len(queue[b][t]) = Cardinality(Waiting(t)) + Len(o.queue)
        /\ \A u \in Task \ {t} : Waiting(u)' = Waiting(u)
    BY <1>1, <1>2, WaitingAfter
  <1>5. PICK w0 \in Nat, w1 \in Nat :
            w0 = Cardinality(Waiting(t)) /\ w1 = Cardinality(Waiting(t)')
    BY <1>4
  <1>6. w1 + Len(queue[b][t]) = w0 + Len(o.queue) /\ k0.count + w0 <= planned[t]
    BY <1>4, <1>5 DEF Taken
  <1>7. ASSUME NEW u \in Task \ {t}
        PROVE  Counted(u)'
    <2>1. Counted(u)
      BY DEF TypeInv
    <2>2. planned'[u] = planned[u] /\ Waiting(u)' = Waiting(u)
      BY <1>3, <1>4, <1>7
    <2>3. MessagesOf(u)' = MessagesOf(u)
      BY <1>7, MessagesAfter
    <2>. QED
      BY <2>1, <2>2, <2>3 DEF Counted
  <1>8. ASSUME NEW n \in Nat, Within(t, b, k0, n, o)
        PROVE  n + w1 <= o.planned
    <2>1. n + Len(o.queue) + planned[t] <= k0.count + Len(queue[b][t]) + o.planned
      BY <1>8 DEF Within
    <2>2. ASSUME NEW x \in Nat, NEW y \in Nat, NEW p0 \in Nat, NEW p1 \in Nat, NEW c \in Nat,
                 n + x + p0 <= c + y + p1, w1 + y = w0 + x, c + w0 <= p0
          PROVE  n + w1 <= p1
      BY <2>2
    <2>. QED
      BY <1>1, <1>6, <2>1, <2>2
  <1>9. w1 <= o.planned
    <2>1. Within(t, b, k0, k0.count, o)
      BY DEF Fine
    <2>. QED
      BY <1>1, <1>8, <2>1
  <1>10. ASSUME NEW m \in MessagesOf(t)'
         PROVE  m.k.count > 0 /\ m.k.count + w1 <= o.planned
    <2>1. m \in DOMAIN L \/ m \in DOMAIN o.sent
      BY <1>10, MessagesAfter DEF MessagesOf
    <2>2. m \in Messages /\ m.task = t
      BY <1>10, <2>1, MessagesAfter DEF MessagesOf, TypeInv, Taken
    <2>3. m.k.count \in Nat
      BY <2>2 DEF Messages, Fields
    <2>4. CASE m \in DOMAIN o.sent
      BY <1>8, <2>3, <2>4 DEF Fine
    <2>5. CASE m \in DOMAIN L
      <3>1. m.k.count > 0 /\ m.k.count + w0 <= planned[t]
        BY <1>5, <2>2, <2>5 DEF TypeInv, Counted, MessagesOf, Taken
      <3>2. Within(t, b, k0, k0.count, o)
        BY DEF Fine
      <3>3. k0.count + Len(o.queue) + planned[t] <= k0.count + Len(queue[b][t]) + o.planned
        BY <3>2 DEF Within
      <3>4. ASSUME NEW x \in Nat, NEW y \in Nat, NEW p0 \in Nat, NEW p1 \in Nat, NEW c \in Nat,
                   NEW n \in Nat, n + w0 <= p0, c + x + p0 <= c + y + p1, w1 + y = w0 + x
            PROVE  n + w1 <= p1
        BY <3>4
      <3>. QED
        BY <1>1, <1>6, <2>3, <3>1, <3>3, <3>4
    <2>. QED
      BY <2>1, <2>4, <2>5
  <1>11. Counted(t)'
    BY <1>3, <1>4, <1>5, <1>9, <1>10 DEF Counted
  <1>. QED
    BY <1>7, <1>11

LEMMA TypeAfter ==
    ASSUME TypeInv, NEW t \in Task, NEW b \in Bot, NEW k0 \in Fields, NEW o,
           Fine(t, b, k0, o), NEW L, Taken(t, b, k0, L), Does(t, b, o, L)
    PROVE  TypeInv'
  <1>1. IsABag(msgs') /\ BagToSet(msgs') \subseteq Messages
    <2>1. /\ IsABag(msgs') /\ BagToSet(msgs') = DOMAIN L \cup DOMAIN o.sent
          /\ DOMAIN o.sent \subseteq Messages
      BY MessagesAfter
    <2>2. DOMAIN L \subseteq Messages
      BY DEF TypeInv, Taken
    <2>. QED
      BY <2>1, <2>2
  <1>2. /\ o.planned \in 0..MaxCommands /\ o.bad \in 0..1 /\ o.broken \in Nat
        /\ o.queue \in Seq(Command)
    BY DEF Fine, Outcomes
  <1>3. outgoing' \in [Bot -> SUBSET Task] /\ queue' \in [Bot -> [Task -> Seq(Command)]]
    BY <1>2 DEF TypeInv, Does
  <1>4. /\ planned' \in [Task -> 0..MaxCommands] /\ bad' \in [Task -> 0..1]
        /\ broken' \in [Task -> Nat]
    BY <1>2 DEF TypeInv, Does
  <1>5. /\ finals' \in [Task -> Nat] /\ gone' \subseteq Task
        /\ up' \subseteq Bot /\ crashes' \in 0..MaxCrashes
    BY DEF TypeInv, Does
  <1>6. /\ callback' \in [Task -> {"none", "set", "called"}] /\ calls' \in [Task -> Nat]
        /\ \A u \in Task : calls'[u] = (IF callback'[u] = "called" THEN 1 ELSE 0)
    <2>1. /\ callback \in [Task -> {"none", "set", "called"}] /\ calls \in [Task -> Nat]
          /\ \A u \in Task : calls[u] = (IF callback[u] = "called" THEN 1 ELSE 0)
      BY DEF TypeInv
    <2>2. CASE o.final /\ callback[t] = "set"
      <3>1. /\ callback' = [callback EXCEPT ![t] = "called"]
            /\ calls' = [calls EXCEPT ![t] = @ + 1] /\ calls[t] = 0
        BY <2>1, <2>2 DEF Does
      <3>. QED
        BY <2>1, <3>1
    <2>3. CASE ~ (o.final /\ callback[t] = "set")
      BY <2>1, <2>3 DEF Does
    <2>. QED
      BY <2>2, <2>3
  <1>7. \A u \in Task : Counted(u)'
    BY CountedAfter
  <1>. QED
    BY <1>1, <1>3, <1>4, <1>5, <1>6, <1>7 DEF TypeInv

\* What OnePlace says of one task.
OneOf(t) ==
    /\ \/ finals[t] = 0 /\ \E m \in MessagesOf(t) : MessagesOf(t) = {m} /\ msgs[m] = 1
       \/ finals[t] = 1 /\ MessagesOf(t) = {}
    /\ \A b \in Bot : queue[b][t] # <<>> =>
            \E m \in MessagesOf(t) : m.to = b \/ On(b, m.k.route)

LEMMA OnePlaceIs == OnePlace <=> \A t \in Task : AllWell(t) /\ Created(t) => OneOf(t)
  BY DEF OnePlace, OneOf, On

\* A handler that is done with its task leaves it in one place.
LEMMA OneAfter ==
    ASSUME TypeInv, NEW t \in Task, NEW b \in Bot, NEW k0 \in Fields, NEW o,
           Done(t, b, k0, o), NEW L, Taken(t, b, k0, L), Does(t, b, o, L), AllWell(t)'
    PROVE  OneOf(t)'
  <1>1. /\ Fine(t, b, k0, o) /\ o \in Outcomes /\ o.bad \in 0..1 /\ o.broken \in Nat
        /\ bad[t] \in 0..1 /\ broken[t] \in Nat /\ o.queue \in Seq(Command)
    BY FineIs, CountsAre DEF Done
  <1>2. Whole(o) /\ AllWell(t)
    <2>1. bad'[t] = o.bad /\ broken'[t] = o.broken
      BY DEF Does, TypeInv
    <2>2. o.bad = 0 /\ o.broken = 0 /\ t \notin gone'
      BY <2>1 DEF AllWell
    <2>3. ~ o.gone /\ t \notin gone
      BY <2>2 DEF Does
    <2>4. bad[t] = 0 /\ broken[t] = 0
      BY <1>1, <2>2 DEF Fine
    <2>. QED
      BY <2>2, <2>3, <2>4 DEF Whole, AllWell
  <1>3. /\ finals[t] = 0 /\ \A y \in DOMAIN L : y.task # t
        /\ \A c \in Bot \ {b} : queue[c][t] # <<>> => On(c, k0.route)
    BY <1>2 DEF Taken
  <1>4. MessagesOf(t)' = DOMAIN o.sent
    BY <1>1, <1>3, MessagesAfter DEF MessagesOf
  <1>5. queue'[b][t] = o.queue /\ \A c \in Bot \ {b} : queue'[c][t] = queue[c][t]
    BY <1>1 DEF TypeInv, Does
  <1>6. CASE o.sent = EmptyBag /\ o.final /\ o.queue = <<>> /\ k0.route = <<>>
    <2>1. finals'[t] = 1
      BY <1>3, <1>6 DEF TypeInv, Does
    <2>2. MessagesOf(t)' = {}
      BY <1>4, <1>6, SendingsAreBags
    <2>3. ASSUME NEW c \in Bot, queue'[c][t] # <<>>
          PROVE  FALSE
      <3>1. c # b /\ On(c, k0.route)
        BY <1>3, <1>5, <1>6, <2>3
      <3>. QED
        BY <1>6, <3>1 DEF On
    <2>. QED
      BY <2>1, <2>2, <2>3 DEF OneOf
  <1>7. CASE /\ ~ o.final
             /\ \E x \in Messages :
                   /\ o.sent = SetToBag({x})
                   /\ \A c \in Bot : (c # b /\ On(c, k0.route)) \/ (c = b /\ o.queue # <<>>) =>
                          c = x.to \/ On(c, x.k.route)
    <2>1. PICK x \in Messages :
                   /\ o.sent = SetToBag({x})
                   /\ \A c \in Bot : (c # b /\ On(c, k0.route)) \/ (c = b /\ o.queue # <<>>) =>
                          c = x.to \/ On(c, x.k.route)
      BY <1>7
    <2>2. finals'[t] = 0
      BY <1>3, <1>7 DEF Does
    <2>3. DOMAIN o.sent = {x} /\ o.sent[x] = 1
      BY <2>1 DEF SetToBag
    <2>4. MessagesOf(t)' = {x}
      BY <1>4, <2>3
    <2>5. msgs'[x] = 1
      <3>1. x.task = t /\ x \notin DOMAIN L
        BY <1>1, <1>3, <2>3 DEF Fine
      <3>. QED
        BY <1>1, <2>3, <3>1, MessagesAfter
    <2>6. ASSUME NEW c \in Bot, queue'[c][t] # <<>>
          PROVE  x.to = c \/ On(c, x.k.route)
      BY <1>3, <1>5, <2>1, <2>6
    <2>. QED
      BY <2>2, <2>4, <2>5, <2>6 DEF OneOf
  <1>. QED
    BY <1>2, <1>6, <1>7 DEF Done, Passed

LEMMA PlaceAfter ==
    ASSUME TypeInv, PlaceInv, NEW t \in Task, NEW b \in Bot, NEW k0 \in Fields, NEW o,
           Done(t, b, k0, o), o.planned > 0, NEW L, Taken(t, b, k0, L), Does(t, b, o, L)
    PROVE  PlaceInv'
  <1>1. /\ Fine(t, b, k0, o) /\ o \in Outcomes /\ o.bad \in 0..1 /\ o.broken \in Nat
        /\ bad[t] \in 0..1 /\ o.queue \in Seq(Command) /\ o.out \in BOOLEAN
        /\ o.planned \in Nat
    BY FineIs, CountsAre DEF Done
  <1>2. /\ bad'[t] = o.bad /\ planned'[t] = o.planned
        /\ \A u \in Task \ {t} : /\ bad'[u] = bad[u] /\ broken'[u] = broken[u]
                                 /\ planned'[u] = planned[u] /\ finals'[u] = finals[u]
                                 /\ (u \in gone' <=> u \in gone)
                                 /\ \A c \in Bot : queue'[c][u] = queue[c][u]
    BY DEF TypeInv, Does
  <1>3. ASSUME NEW c \in Bot, NEW u \in Task, queue'[c][u] # <<>>
        PROVE  u \in outgoing'[c]
    <2>1. queue'[b][t] = o.queue /\ (c # b \/ u # t => queue'[c][u] = queue[c][u])
      BY <1>1 DEF TypeInv, Does
    <2>2. o.out => t \in outgoing'[b]
      BY DEF TypeInv, Does
    <2>3. outgoing[c] \subseteq outgoing'[c]
      BY DEF TypeInv, Does
    <2>4. o.queue # <<>> => o.out
      BY DEF Done, Known
    <2>. QED
      BY <1>3, <2>1, <2>2, <2>3, <2>4 DEF PlaceInv
  <1>4. ASSUME NEW m \in BagToSet(msgs'), m.status = "failed"
        PROVE  bad'[m.task] = 1
    <2>1. m \in DOMAIN L \/ m \in DOMAIN o.sent
      BY <1>1, MessagesAfter
    <2>2. CASE m \in DOMAIN o.sent
      <3>1. m.task = t /\ o.bad = 1
        BY <1>1, <1>4, <2>2 DEF Fine
      <3>. QED
        BY <1>2, <3>1
    <2>3. CASE m \in DOMAIN L
      <3>1. m \in BagToSet(msgs) /\ m.task \in Task /\ bad[m.task] = 1
        BY <1>4, <2>3, MessageTypes DEF Taken, PlaceInv
      <3>2. bad[t] = 1 => o.bad = 1
        BY <1>1 DEF Fine
      <3>. QED
        BY <1>2, <3>1, <3>2
    <2>. QED
      BY <2>1, <2>2, <2>3
  <1>5. ASSUME NEW u \in Task, finals'[u] # 0
        PROVE  Created(u)'
    <2>1. CASE u = t
      BY <1>2, <2>1 DEF Created
    <2>2. CASE u # t
      BY <1>2, <1>5, <2>2 DEF Created, PlaceInv
    <2>. QED
      BY <2>1, <2>2
  <1>6. ASSUME NEW u \in Task, AllWell(u)', Created(u)'
        PROVE  OneOf(u)'
    <2>1. CASE u = t
      BY <1>6, <2>1, OneAfter
    <2>2. CASE u # t
      <3>1. AllWell(u) /\ Created(u)
        BY <1>2, <1>6, <2>2 DEF AllWell, Created
      <3>2. OneOf(u)
        BY <3>1, OnePlaceIs DEF PlaceInv
      <3>3. MessagesOf(u)' = MessagesOf(u) /\ \A y \in MessagesOf(u) : msgs'[y] = msgs[y]
        BY <1>1, <2>2, MessagesAfter
      <3>. QED
        BY <1>2, <2>2, <3>2, <3>3 DEF OneOf
    <2>. QED
      BY <2>1, <2>2
  <1>7. OnePlace'
    BY <1>6 DEF OnePlace, OneOf, On
  <1>. QED
    BY <1>3, <1>4, <1>5, <1>7 DEF PlaceInv

LEMMA NotCreated ==
    ASSUME TypeInv, PlaceInv, NEW t \in Task, ~ Created(t)
    PROVE  /\ planned[t] = 0 /\ Cardinality(Waiting(t)) = 0 /\ finals[t] = 0
           /\ \A c \in Bot : queue[c][t] = <<>>
           /\ \A y \in BagToSet(msgs) : y.task # t
  <1>1. planned[t] = 0 /\ finals[t] = 0
    <2>1. planned[t] \in Nat /\ finals[t] \in Nat /\ ~ (planned[t] > 0)
      BY CountsAre DEF Created, TypeInv
    <2>. QED
      BY <2>1 DEF Created, PlaceInv
  <1>2. IsFiniteSet(Waiting(t)) /\ Cardinality(Waiting(t)) <= 0
    BY <1>1 DEF TypeInv, Counted
  <1>3. Cardinality(Waiting(t)) = 0 /\ Waiting(t) = {}
    BY <1>2, FS_CardinalityType, FS_EmptySet
  <1>4. ASSUME NEW c \in Bot, queue[c][t] # <<>>
        PROVE  FALSE
    <2>1. queue[c][t] \in Seq(Command)
      BY DEF TypeInv
    <2>2. 1 \in 1..Len(queue[c][t])
      BY <1>4, <2>1
    <2>3. <<c, 1>> \in Waiting(t)
      BY <2>2 DEF Waiting
    <2>. QED
      BY <1>3, <2>3
  <1>5. ASSUME NEW y \in BagToSet(msgs), y.task = t
        PROVE  FALSE
    <2>1. y.k.count > 0 /\ y.k.count \in Nat
      BY MessageTypes
    <2>2. y.k.count + Cardinality(Waiting(t)) <= planned[t]
      BY <1>5 DEF TypeInv, Counted, MessagesOf
    <2>. QED
      BY <1>1, <1>3, <2>1, <2>2
  <1>. QED
    BY <1>1, <1>3, <1>4, <1>5

LEMMA CreateKeeps ==
    ASSUME TypeInv, PlaceInv, NEW t \in Task, Create(t)
    PROVE  TypeInv' /\ PlaceInv'
  <1>1. PICK b \in Bot : b = Origin[t]
    BY RoutingAssumption
  <1>2. PICK k : k = [route |-> <<>>, orig |-> FALSE, count |-> 0, cmd |-> "tool"]
    OBVIOUS
  <1>3. k \in Fields /\ k.count = 0
    <2>1. <<>> \in Seq(Bot)
      OBVIOUS
    <2>. QED
      BY <1>2, <2>1 DEF Fields
  <1>4. PICK o0 : o0 = Outcome(t, b, k, "created")
    OBVIOUS
  <1>5. PICK p \in Plans(b, o0) :
                \E o \in Forward(t, b, Planned(o0, p), Head(p)) : Apply(t, b, o, EmptyBag)
    BY <1>1, <1>2, <1>4 DEF Create
  <1>16. PICK o \in Forward(t, b, Planned(o0, p), Head(p)) : Apply(t, b, o, EmptyBag)
    BY <1>5
  <1>6. Fine(t, b, k, o0) /\ Unsent(k, o0)
    BY <1>3, <1>4, OutcomeFine
  <1>7. PICK q : q = Planned(o0, p)
    OBVIOUS
  <1>8. /\ Fine(t, b, k, q) /\ Head(p) \in Command /\ Within(t, b, k, q.k.count + 1, q)
        /\ Whole(q) => Unsent(k, q)
    BY <1>3, <1>6, <1>7, PlannedHasRoom
  <1>9. Done(t, b, k, o)
    BY <1>3, <1>7, <1>8, ForwardDone
  <1>10. ~ Created(t)
    BY DEF Create
  <1>11. /\ planned[t] = 0 /\ Cardinality(Waiting(t)) = 0 /\ finals[t] = 0
         /\ \A c \in Bot : queue[c][t] = <<>>
         /\ \A y \in BagToSet(msgs) : y.task # t
    BY <1>10, NotCreated
  <1>12. Taken(t, b, k, msgs)
    BY <1>3, <1>11 DEF Taken, TypeInv, BagToSet
  <1>13. Does(t, b, o, msgs)
    <2>1. msgs (-) EmptyBag = msgs
      BY NothingLeft DEF TypeInv
    <2>2. PICK L : L = msgs (-) EmptyBag
      OBVIOUS
    <2>3. Does(t, b, o, L)
      BY <1>16, <2>2, ApplyDoes
    <2>. QED
      BY <2>1, <2>2, <2>3
  <1>14. Fine(t, b, k, o) /\ o.k.count > 0
    BY <1>9 DEF Done
  <1>15. o.planned > 0
    <2>1. o.k.count + Len(o.queue) + planned[t] <= k.count + Len(queue[b][t]) + o.planned
      BY <1>14 DEF Fine, Within
    <2>2. o.k.count \in Nat /\ Len(o.queue) \in Nat /\ o.planned \in Nat
      BY <1>3, <1>14, FineIs
    <2>3. Len(queue[b][t]) = 0
      BY <1>11
    <2>. QED
      BY <1>3, <1>11, <1>14, <2>1, <2>2, <2>3
  <1>. QED
    BY <1>3, <1>9, <1>12, <1>13, <1>14, <1>15, TypeAfter, PlaceAfter

LEMMA HandleKeeps ==
    ASSUME TypeInv, PlaceInv, NEW m \in BagToSet(msgs), Handle(m)
    PROVE  TypeInv' /\ PlaceInv'
  <1>1. PICK t \in Task, b \in Bot, k \in Fields : t = m.task /\ b = m.to /\ k = m.k
    BY MessageTypes
  <1>2. PICK o \in Handled(t, b, m) : Apply(t, b, o, SetToBag({m}))
    BY <1>1 DEF Handle
  <1>3. Done(t, b, k, o)
    BY <1>1, <1>2, HandledDone
  <1>4. PICK L : L = msgs (-) SetToBag({m})
    OBVIOUS
  <1>5. Does(t, b, o, L)
    BY <1>2, <1>4, ApplyDoes
  <1>6. /\ IsABag(L) /\ DOMAIN L \subseteq DOMAIN msgs
        /\ \A e \in DOMAIN msgs : e # m => e \in DOMAIN L /\ L[e] = msgs[e]
        /\ msgs[m] = 1 => m \notin DOMAIN L
    <2>1. IsABag(msgs) /\ m \in DOMAIN msgs
      BY DEF TypeInv, BagToSet
    <2>. QED
      BY <1>4, <2>1, BagsLeft
  <1>7. m \in MessagesOf(t)
    BY <1>1 DEF MessagesOf
  <1>8. k.count > 0 /\ k.count + Cardinality(Waiting(t)) <= planned[t]
    BY <1>1, <1>7 DEF TypeInv, Counted
  <1>9. planned[t] > 0
    <2>1. Cardinality(Waiting(t)) \in Nat /\ planned[t] \in Nat /\ k.count \in Nat
      BY <1>1, MessageTypes, CountsAre, FS_CardinalityType DEF TypeInv, Counted
    <2>. QED
      BY <1>8, <2>1
  <1>10. ASSUME AllWell(t)
         PROVE  /\ finals[t] = 0 /\ \A y \in DOMAIN L : y.task # t
                /\ \A c \in Bot \ {b} : queue[c][t] # <<>> => On(c, k.route)
    <2>1. OneOf(t)
      BY <1>9, <1>10, OnePlaceIs DEF PlaceInv, Created
    <2>2. finals[t] = 0 /\ MessagesOf(t) = {m} /\ msgs[m] = 1
      BY <1>7, <2>1 DEF OneOf
    <2>3. \A y \in DOMAIN L : y.task # t
      BY <1>6, <2>2 DEF MessagesOf, BagToSet
    <2>4. \A c \in Bot \ {b} : queue[c][t] # <<>> => On(c, k.route)
      BY <1>1, <2>1, <2>2 DEF OneOf
    <2>. QED
      BY <2>2, <2>3, <2>4
  <1>11. Taken(t, b, k, L)
    BY <1>1, <1>6, <1>8, <1>10 DEF Taken, BagToSet
  <1>12. Fine(t, b, k, o)
    BY <1>3 DEF Done
  <1>13. o.planned > 0
    <2>1. planned[t] \in Nat /\ o.planned \in Nat /\ planned[t] <= o.planned
      BY <1>12, FineIs, CountsAre DEF Fine
    <2>. QED
      BY <1>9, <2>1
  <1>. QED
    BY <1>3, <1>5, <1>11, <1>12, <1>13, TypeAfter, PlaceAfter

\* A crash only takes commands that wait, and the callbacks.
LEMMA CrashKeeps ==
    ASSUME TypeInv, PlaceInv, NEW b \in Bot, Crash(b)
    PROVE  TypeInv' /\ PlaceInv'
  <1>1. /\ queue' = [queue EXCEPT ![b] = [t \in Task |-> <<>>]]
        /\ queue \in [Bot -> [Task -> Seq(Command)]]
    BY DEF Crash, TypeInv
  <1>2. \A c \in Bot, t \in Task : queue'[c][t] = (IF c = b THEN <<>> ELSE queue[c][t])
    BY <1>1
  <1>3. queue' \in [Bot -> [Task -> Seq(Command)]]
    <2>1. [t \in Task |-> <<>>] \in [Task -> Seq(Command)]
      OBVIOUS
    <2>. QED
      BY <1>1, <2>1
  <1>4. ASSUME NEW t \in Task
        PROVE  Counted(t)'
    <2>1. Counted(t) /\ MessagesOf(t)' = MessagesOf(t) /\ planned' = planned
      BY DEF TypeInv, MessagesOf, Crash
    <2>2. Waiting(t)' \subseteq Waiting(t)
      BY <1>2 DEF Waiting
    <2>3. PICK W, V : W = Waiting(t) /\ V = Waiting(t)'
      OBVIOUS
    <2>4. /\ IsFiniteSet(W) /\ IsFiniteSet(V) /\ Cardinality(V) <= Cardinality(W)
          /\ Cardinality(V) \in Nat /\ Cardinality(W) \in Nat
      BY <2>1, <2>2, <2>3, FS_Subset, FS_CardinalityType DEF Counted
    <2>5. planned[t] \in Nat
      BY CountsAre
    <2>6. \A m \in MessagesOf(t) : m.k.count \in Nat
      BY MessageTypes DEF MessagesOf
    <2>7. /\ Cardinality(V) <= planned[t]
          /\ \A m \in MessagesOf(t) : m.k.count > 0 /\ m.k.count + Cardinality(V) <= planned[t]
      BY <2>1, <2>3, <2>4, <2>5, <2>6 DEF Counted
    <2>. QED
      BY <2>1, <2>3, <2>4, <2>7 DEF Counted
  <1>5. /\ callback' \in [Task -> {"none", "set", "called"}] /\ calls' = calls
        /\ \A t \in Task : callback'[t] = "called" <=> callback[t] = "called"
    BY DEF Crash, TypeInv
  <1>6. TypeInv'
    <2>1. /\ msgs' = msgs /\ finals' = finals /\ planned' = planned /\ bad' = bad
          /\ broken' = broken /\ crashes' \in 0..MaxCrashes
      BY RoutingAssumption DEF Crash, TypeInv
    <2>2. /\ outgoing' \in [Bot -> SUBSET Task] /\ gone' \subseteq Task /\ up' \subseteq Bot
      BY DEF Crash, TypeInv
    <2>. QED
      BY <1>3, <1>4, <1>5, <2>1, <2>2 DEF TypeInv
  <1>7. ASSUME NEW t \in Task, AllWell(t)', Created(t)'
        PROVE  OneOf(t)'
    <2>1. AllWell(t) /\ Created(t) /\ queue[b][t] = <<>>
      BY <1>7 DEF AllWell, Created, Crash
    <2>2. OneOf(t)
      BY <2>1, OnePlaceIs DEF PlaceInv
    <2>3. MessagesOf(t)' = MessagesOf(t) /\ msgs' = msgs /\ finals' = finals
      BY DEF Crash, MessagesOf
    <2>. QED
      BY <1>2, <2>2, <2>3 DEF OneOf
  <1>8. OnePlace'
    BY <1>7 DEF OnePlace, OneOf, On
  <1>9. \A c \in Bot, t \in Task : queue'[c][t] # <<>> => t \in outgoing'[c]
    <2>1. \A c \in Bot \ {b} : outgoing'[c] = outgoing[c]
      BY DEF Crash, TypeInv
    <2>. QED
      BY <1>2, <2>1 DEF PlaceInv
  <1>. QED
    BY <1>6, <1>8, <1>9 DEF PlaceInv, Crash, Created

LEMMA LoseKeeps ==
    ASSUME TypeInv, PlaceInv, NEW m \in BagToSet(msgs), Lose(m)
    PROVE  TypeInv' /\ PlaceInv'
  <1>1. PICK t \in Task : t = m.task
    BY MessageTypes
  <1>2. /\ IsABag(msgs') /\ DOMAIN msgs' \subseteq DOMAIN msgs
        /\ \A e \in DOMAIN msgs : e # m => e \in DOMAIN msgs' /\ msgs'[e] = msgs[e]
    <2>1. IsABag(msgs) /\ m \in DOMAIN msgs
      BY DEF TypeInv, BagToSet
    <2>2. PICK L : L = msgs (-) SetToBag({m})
      OBVIOUS
    <2>3. /\ IsABag(L) /\ DOMAIN L \subseteq DOMAIN msgs
          /\ \A e \in DOMAIN msgs : e # m => e \in DOMAIN L /\ L[e] = msgs[e]
      BY <2>1, <2>2, BagsLeft
    <2>4. msgs' = L
      BY <2>2 DEF Lose
    <2>. QED
      BY <2>3, <2>4
  <1>3. /\ \A u \in Task : MessagesOf(u)' \subseteq MessagesOf(u)
        /\ \A u \in Task \ {t} : MessagesOf(u)' = MessagesOf(u)
        /\ \A u \in Task \ {t} : \A y \in MessagesOf(u) : msgs'[y] = msgs[y]
    BY <1>1, <1>2 DEF MessagesOf, BagToSet
  <1>4. /\ queue' = queue /\ planned' = planned /\ finals' = finals /\ outgoing' = outgoing
        /\ callback' = callback /\ calls' = calls /\ bad' = bad /\ broken' = broken
        /\ up' = up /\ crashes' = crashes /\ gone' = gone \cup {t}
    BY <1>1 DEF Lose
  <1>5. \A u \in Task : Waiting(u)' = Waiting(u)
    BY <1>4 DEF Waiting
  <1>6. ASSUME NEW u \in Task
        PROVE  Counted(u)'
    BY <1>3, <1>4, <1>5 DEF TypeInv, Counted
  <1>7. TypeInv'
    BY <1>2, <1>4, <1>6 DEF TypeInv, BagToSet
  <1>8. ASSUME NEW u \in Task, AllWell(u)', Created(u)'
        PROVE  OneOf(u)'
    <2>1. u # t /\ AllWell(u) /\ Created(u)
      BY <1>4, <1>8 DEF AllWell, Created
    <2>2. OneOf(u)
      BY <2>1, OnePlaceIs DEF PlaceInv
    <2>. QED
      BY <1>3, <1>4, <2>1, <2>2 DEF OneOf
  <1>9. OnePlace'
    BY <1>8 DEF OnePlace, OneOf, On
  <1>. QED
    BY <1>2, <1>4, <1>7, <1>9 DEF PlaceInv, BagToSet, Created

LEMMA RoutingNext == TypeInv /\ PlaceInv /\ [Next]_vars => TypeInv' /\ PlaceInv'
  <1>. SUFFICES ASSUME TypeInv, PlaceInv, [Next]_vars
                PROVE  TypeInv' /\ PlaceInv'
    OBVIOUS
  <1>1. ASSUME NEW t \in Task, Create(t)
        PROVE  TypeInv' /\ PlaceInv'
    BY <1>1, CreateKeeps
  <1>2. ASSUME NEW m \in BagToSet(msgs), Handle(m)
        PROVE  TypeInv' /\ PlaceInv'
    BY <1>2, HandleKeeps
  <1>3. ASSUME NEW m \in BagToSet(msgs), Lose(m)
        PROVE  TypeInv' /\ PlaceInv'
    BY <1>3, LoseKeeps
  <1>4. ASSUME NEW b \in Bot, Crash(b)
        PROVE  TypeInv' /\ PlaceInv'
    BY <1>4, CrashKeeps
  <1>5. CASE /\ up' \subseteq Bot
             /\ UNCHANGED <<msgs, outgoing, queue, callback, calls, finals, planned, bad, broken,
                            gone, crashes>>
    <2>1. \A t \in Task : Waiting(t)' = Waiting(t) /\ MessagesOf(t)' = MessagesOf(t)
      BY <1>5 DEF Waiting, MessagesOf
    <2>2. TypeInv'
      BY <1>5, <2>1 DEF TypeInv, Counted
    <2>. QED
      BY <1>5, <2>2 DEF PlaceInv, OnePlace, Created, AllWell, MessagesOf
  <1>6. CASE UNCHANGED vars
    BY <1>5, <1>6 DEF vars, TypeInv
  <1>7. ASSUME NEW b \in Bot, Restart(b)
        PROVE  TypeInv' /\ PlaceInv'
    BY <1>5, <1>7 DEF Restart, TypeInv
  <1>. QED
    BY <1>1, <1>2, <1>3, <1>4, <1>6, <1>7 DEF Next

LEMMA RoutingInit == Init => TypeInv /\ PlaceInv
  <1>. SUFFICES ASSUME Init
                PROVE  TypeInv /\ PlaceInv
    OBVIOUS
  <1>1. IsABag(msgs) /\ BagToSet(msgs) = {}
    BY SendingsAreBags DEF Init, BagToSet
  <1>2. /\ queue \in [Bot -> [Task -> Seq(Command)]]
        /\ \A b \in Bot, t \in Task : queue[b][t] = <<>>
    BY DEF Init
  <1>3. ASSUME NEW t \in Task
        PROVE  Counted(t)
    <2>1. Waiting(t) = {} /\ MessagesOf(t) = {} /\ planned[t] = 0
      BY <1>1, <1>2 DEF Waiting, MessagesOf, Init
    <2>. QED
      BY <2>1, FS_EmptySet DEF Counted
  <1>4. TypeInv
    BY <1>1, <1>2, <1>3, RoutingAssumption DEF TypeInv, Init
  <1>. QED
    BY <1>1, <1>2, <1>4 DEF PlaceInv, OnePlace, Created, Init

\* What TypeInv says of types, and that a message has behind it one command or more of those
\* that were planned for its task, and none too many.
LEMMA TypesFollow == TypeInv => TypeOK
  <1>. SUFFICES ASSUME TypeInv
                PROVE  TypeOK
    OBVIOUS
  <1>1. ASSUME NEW m \in BagToSet(msgs)
        PROVE  /\ m.task \in Task /\ m.to \in Bot /\ m.status \in {"new", "returning", "failed"}
               /\ m.k.route \in Seq(Bot) /\ m.k.count \in 1..planned[m.task]
    <2>1. /\ m.task \in Task /\ m.to \in Bot /\ m.status \in Status /\ m.k.route \in Seq(Bot)
          /\ m.k.count \in Nat /\ m.k.count > 0
      BY MessageTypes
    <2>2. /\ planned[m.task] \in Nat /\ IsFiniteSet(Waiting(m.task))
          /\ m.k.count + Cardinality(Waiting(m.task)) <= planned[m.task]
      BY <2>1, RoutingAssumption DEF TypeInv, Counted, MessagesOf
    <2>3. Cardinality(Waiting(m.task)) \in Nat
      BY <2>2, FS_CardinalityType
    <2>. QED
      BY <2>1, <2>2, <2>3 DEF Status
  <1>2. calls \in [Task -> 0..1]
    BY DEF TypeInv
  <1>. QED
    BY <1>1, <1>2 DEF TypeInv, TypeOK

-----------------------------------------------------------------------------
(* The theorems.                                                           *)

\* The types, the one call of the archive callback, and the count of commands.
THEOREM TypeCorrect == Spec => []TypeOK
  <1>1. Init => TypeInv /\ PlaceInv
    BY RoutingInit
  <1>2. TypeInv /\ PlaceInv /\ [Next]_vars => TypeInv' /\ PlaceInv'
    BY RoutingNext
  <1>3. TypeInv => TypeOK
    BY TypesFollow
  <1>. QED
    BY <1>1, <1>2, <1>3, PTL DEF Spec

\* As long as nothing of it fails or is lost a task is in one message, or at its end, once;
\* and a bot that has commands queued for it gets it back.
THEOREM TasksAreInOnePlace == Spec => []OnePlace
  <1>1. Init => TypeInv /\ PlaceInv
    BY RoutingInit
  <1>2. TypeInv /\ PlaceInv /\ [Next]_vars => TypeInv' /\ PlaceInv'
    BY RoutingNext
  <1>3. PlaceInv => OnePlace
    BY DEF PlaceInv
  <1>. QED
    BY <1>1, <1>2, <1>3, PTL DEF Spec

=============================================================================
