---------------------------- MODULE Console_proofs ----------------------------
(***************************************************************************)
(* Theorems about the legacy console and its event stream, for any number  *)
(* of questions, chats, workers, viewers and sizes of the queues.          *)
(***************************************************************************)
EXTENDS Console, FiniteSetTheorems, SequenceTheorems, TLAPS

-----------------------------------------------------------------------------
(* Strengthenings, by name.                                                *)

StreamTypes ==
    /\ queued \in 0..DispatcherSize /\ wire \in Nat /\ stored \in Nat
    /\ lock \in {"free", "add"} /\ viewer \in [Viewer -> {"off", "open", "closed", "leaving"}]
    /\ subscribers \in Seq(Viewer) /\ todo \in Seq(Viewer)
    /\ inbox \in [Viewer -> Seq(Nat)] /\ \A v \in Viewer : Len(inbox[v]) <= ViewerSize
    /\ writing \in [Viewer -> Nat] /\ seen \in [Viewer -> Nat]

Once(s) == \A i, j \in 1..Len(s) : s[i] = s[j] => i = j
Holds(s, v) == \E i \in 1..Len(s) : s[i] = v

\* Who is subscribed, and whom an add has yet to serve.
Subscribed ==
    /\ Once(subscribers) /\ Once(todo)
    /\ \A v \in Viewer : Holds(subscribers, v) <=> viewer[v] # "off"
    /\ \A v \in Viewer : Holds(todo, v) => viewer[v] # "off"
    /\ lock = "free" => todo = <<>>

\* A viewer that is not there has nothing coming; one that leaves writes nothing.
Nothing ==
    \A v \in Viewer :
        /\ viewer[v] = "off" => inbox[v] = <<>>
        /\ viewer[v] \in {"off", "leaving"} => writing[v] = 0
        /\ seen[v] <= stored

StreamInv == StreamTypes /\ Subscribed /\ Nothing /\ StreamInOrder

ConsoleTypes ==
    /\ task \in [Task -> {"new", "out", "unsent"}]
    /\ answer \in [Answer -> {"none", "back", "stored", "seen", "done"}]
    /\ asking \in Question \cup {None} /\ current \in Question \cup {None}
    /\ box \in [Question -> Seq(Answer)] /\ got \in [Question -> SUBSET Answer]
    /\ before \in [Question -> SUBSET Answer]
    /\ results \subseteq Task
    /\ IsFiniteSet(Busy) /\ Cardinality(Busy) <= Workers

\* Whoever is waited for has the current queue; what was not sent has no answer.
Waits ==
    /\ asking # None => current = asking
    /\ \A m \in Answer : task[m[1]] # "out" => answer[m] = "none"

\* A question that was not asked has nothing.
NotAsked ==
    \A q \in Question :
        task[q] = "new" => got[q] = {} /\ (asking # q => box[q] = <<>> /\ current # q)

\* What is in a box, or was taken from it, came after the question; nothing is in two places.
Answers ==
    /\ \A q \in Question : \A m \in before[q] : answer[m] = "done"
    /\ \A q \in Question : \A i \in 1..Len(box[q]) :
        answer[box[q][i]] = "done" /\ box[q][i] \notin before[q]
    /\ \A q, r \in Question : \A i \in 1..Len(box[q]), j \in 1..Len(box[r]) :
        box[q][i] = box[r][j] => q = r /\ i = j
    /\ \A q, r \in Question : \A i \in 1..Len(box[q]) : box[q][i] \notin got[r]
    /\ \A q \in Question : \A m \in got[q] : answer[m] = "done"

\* There is something in the queue that is waited at, if an answer was dealt with.
BoxedIfWaited ==
    \A m \in Answer : asking = m[1] /\ answer[m] = "done" => box[asking] # <<>>

AnswerInv == Waits /\ NotAsked /\ Answers /\ AnswerIsFresh /\ BoxedIfWaited

-----------------------------------------------------------------------------
(* Sequences.                                                              *)

\* The n numbers that follow a.
Run(a, n) == [i \in 1..n |-> a + i]

LEMMA RunIsSeq ==
    ASSUME NEW a \in Nat, NEW n \in Nat
    PROVE  Run(a, n) \in Seq(Nat) /\ Len(Run(a, n)) = n /\ \A i \in 1..n : Run(a, n)[i] = a + i
  BY DEF Run

LEMMA RunIsEmpty ==
    ASSUME NEW a \in Nat, NEW n \in Nat, Run(a, n) # <<>>
    PROVE  n \in Nat \ {0}
  <1>1. Run(a, n) \in Seq(Nat) /\ Len(Run(a, n)) = n
    BY RunIsSeq
  <1>. QED
    BY <1>1, EmptySeq

LEMMA RunGrows ==
    ASSUME NEW a \in Nat, NEW n \in Nat
    PROVE  Append(Run(a, n), a + n + 1) = Run(a, n + 1)
  <1> DEFINE s == Append(Run(a, n), a + n + 1)
             t == Run(a, n + 1)
  <1>1. /\ s \in Seq(Nat) /\ Len(s) = n + 1
        /\ \A i \in 1..n : s[i] = a + i
        /\ s[n + 1] = a + n + 1
    <2>1. Run(a, n) \in Seq(Nat) /\ Len(Run(a, n)) = n /\ \A i \in 1..n : Run(a, n)[i] = a + i
      BY RunIsSeq
    <2>2. /\ s \in Seq(Nat) /\ Len(s) = Len(Run(a, n)) + 1
          /\ \A i \in 1..Len(Run(a, n)) : s[i] = Run(a, n)[i]
          /\ s[Len(Run(a, n)) + 1] = a + n + 1
      BY <2>1, AppendProperties
    <2>. QED
      BY <2>1, <2>2
  <1>2. t \in Seq(Nat) /\ Len(t) = n + 1 /\ \A i \in 1..(n + 1) : t[i] = a + i
    <2>1. n + 1 \in Nat
      OBVIOUS
    <2>. QED
      BY <2>1, RunIsSeq
  <1>3. \A i \in 1..Len(s) : s[i] = t[i]
    BY <1>1, <1>2
  <1>4. s = t
    <2>. HIDE DEF s, t
    <2>. QED
      BY <1>1, <1>2, <1>3, SeqEqual
  <1>. QED
    BY <1>4

LEMMA RunShrinks ==
    ASSUME NEW a \in Nat, NEW n \in Nat \ {0}
    PROVE  Head(Run(a, n)) = a + 1 /\ Tail(Run(a, n)) = Run(a + 1, n - 1)
  <1> DEFINE s == Tail(Run(a, n))
             t == Run(a + 1, n - 1)
  <1>1. Run(a, n) \in Seq(Nat) /\ Len(Run(a, n)) = n /\ \A i \in 1..n : Run(a, n)[i] = a + i
    BY RunIsSeq
  <1>2. s \in Seq(Nat) /\ Len(s) = n - 1 /\ \A i \in 1..(n - 1) : s[i] = a + i + 1
    <2>1. Run(a, n) # <<>>
      BY <1>1
    <2>2. s \in Seq(Nat) /\ Len(s) = n - 1 /\ \A i \in 1..(n - 1) : s[i] = Run(a, n)[i + 1]
      BY <1>1, <2>1, HeadTailProperties
    <2>. QED
      BY <1>1, <2>2
  <1>3. t \in Seq(Nat) /\ Len(t) = n - 1 /\ \A i \in 1..(n - 1) : t[i] = a + 1 + i
    <2>1. a + 1 \in Nat /\ n - 1 \in Nat
      OBVIOUS
    <2>. QED
      BY <2>1, RunIsSeq
  <1>4. s = t
    <2>. HIDE DEF s, t
    <2>. QED
      BY <1>2, <1>3, SeqEqual
  <1>. QED
    BY <1>1, <1>4

\* What a viewer is to get: what is being written, what is in its queue, what is to be put.
LEMMA PutLast ==
    ASSUME NEW w \in Seq(Nat), NEW s \in Seq(Nat), NEW x \in Nat
    PROVE  /\ w \o s \o <<x>> = Append(w \o s \o <<>>, x)
           /\ w \o s \o <<x>> = w \o Append(s, x) \o <<>>
  <1>1. w \o s \in Seq(Nat) /\ <<x>> \in Seq(Nat) /\ Append(s, x) \in Seq(Nat)
           /\ w \o Append(s, x) \in Seq(Nat)
    BY ConcatProperties, AppendProperties
  <1>2. w \o s \o <<>> = w \o s /\ w \o Append(s, x) \o <<>> = w \o Append(s, x)
    BY <1>1, ConcatEmptySeq
  <1>3. Append(w \o s, x) = (w \o s) \o <<x>>
    BY <1>1, AppendIsConcat
  <1>4. w \o Append(s, x) = (w \o s) \o <<x>>
    BY <1>1, AppendIsConcat, ConcatAssociative
  <1>. QED
    BY <1>2, <1>3, <1>4

LEMMA TakeFirst ==
    ASSUME NEW s \in Seq(Nat), NEW x \in Seq(Nat), s # <<>>
    PROVE  <<>> \o s \o x = <<Head(s)>> \o Tail(s) \o x
  <1>1. <<>> \o s = s
    BY ConcatEmptySeq
  <1>2. s = <<Head(s)>> \o Tail(s)
    OBVIOUS
  <1>. QED
    BY <1>1, <1>2

LEMMA WrittenFirst ==
    ASSUME NEW w \in Nat, NEW s \in Seq(Nat), NEW x \in Seq(Nat)
    PROVE  /\ Head(<<w>> \o s \o x) = w
           /\ Tail(<<w>> \o s \o x) = <<>> \o s \o x
           /\ <<w>> \o s \o x # <<>>
  <1>1. <<w>> \in Seq(Nat) /\ s \o x \in Seq(Nat) /\ <<>> \o s = s
    BY ConcatProperties, ConcatEmptySeq
  <1>2. <<w>> \o s \o x = <<w>> \o (s \o x)
    BY <1>1, ConcatAssociative
  <1>. QED
    BY SMTT(30), <1>1, <1>2
\* Taking a viewer off the list, and an entry off the head.
LEMMA RemainingIs ==
    ASSUME subscribers \in Seq(Viewer), Once(subscribers), NEW v \in Viewer
    PROVE  /\ Remaining(v) \in Seq(Viewer) /\ Once(Remaining(v))
           /\ \A w \in Viewer : Holds(Remaining(v), w) <=> Holds(subscribers, w) /\ w # v
  <1> DEFINE Places == {i \in 1..Len(subscribers) : subscribers[i] = v}
             n == Len(subscribers)
  <1>1. CASE Places = {}
    BY <1>1 DEF Remaining, Holds
  <1>2. ASSUME NEW p \in Places
        PROVE  /\ Remaining(v) \in Seq(Viewer) /\ Once(Remaining(v))
               /\ \A w \in Viewer : Holds(Remaining(v), w) <=> Holds(subscribers, w) /\ w # v
    <2>1. Places = {p}
      BY DEF Once
    <2>2. (CHOOSE i \in Places : \A j \in Places : i <= j) = p
      BY <2>1
    <2>3. p \in 1..n /\ subscribers[p] = v /\ n \in Nat
      OBVIOUS
    <2> DEFINE a == SubSeq(subscribers, 1, p - 1)
               b == SubSeq(subscribers, p + 1, n)
    <2>4. Remaining(v) = a \o b
      BY <2>1, <2>2 DEF Remaining
    <2>5. a \in Seq(Viewer) /\ Len(a) = p - 1 /\ \A i \in 1..(p - 1) : a[i] = subscribers[i]
      BY <2>3
    <2>6. b \in Seq(Viewer) /\ Len(b) = n - p /\ \A i \in 1..(n - p) : b[i] = subscribers[p + i]
      BY <2>3
    <2> HIDE DEF a, b
    <2>7. /\ a \o b \in Seq(Viewer) /\ Len(a \o b) = n - 1
          /\ \A i \in 1..(n - 1) :
                (a \o b)[i] = IF i < p THEN subscribers[i] ELSE subscribers[i + 1]
      <3>1. /\ a \o b \in Seq(Viewer) /\ Len(a \o b) = Len(a) + Len(b)
            /\ \A i \in 1..(Len(a) + Len(b)) :
                (a \o b)[i] = IF i <= Len(a) THEN a[i] ELSE b[i - Len(a)]
        BY <2>5, <2>6, ConcatProperties
      <3>. QED
        BY <3>1, <2>3, <2>5, <2>6
    <2>8. Once(a \o b)
      <3>1. ASSUME NEW i \in 1..(n - 1), NEW j \in 1..(n - 1), (a \o b)[i] = (a \o b)[j]
            PROVE  i = j
        BY SMTT(30), <3>1, <2>3, <2>7 DEF Once
      <3>. QED
        BY <3>1, <2>7 DEF Once
    <2>9. ASSUME NEW w \in Viewer
          PROVE  Holds(a \o b, w) <=> Holds(subscribers, w) /\ w # v
      <3>1. ASSUME Holds(a \o b, w)
            PROVE  Holds(subscribers, w) /\ w # v
        <4>1. PICK i \in 1..(n - 1) : (a \o b)[i] = w
          BY <3>1, <2>7 DEF Holds
        <4>2. PICK j \in 1..n : j # p /\ subscribers[j] = w
          BY SMTT(30), <4>1, <2>3, <2>7
        <4>. QED
          BY <4>2, <2>3 DEF Holds, Once
      <3>2. ASSUME Holds(subscribers, w), w # v
            PROVE  Holds(a \o b, w)
        <4>1. PICK j \in 1..n : subscribers[j] = w
          BY <3>2 DEF Holds
        <4>2. j # p
          BY <4>1, <3>2, <2>3
        <4>3. \E i \in 1..(n - 1) : (a \o b)[i] = w
          <5>1. CASE j < p
            <6>1. j \in 1..(n - 1)
              BY <5>1, <2>3
            <6>2. (a \o b)[j] = subscribers[j]
              BY <5>1, <6>1, <2>7
            <6>. QED
              BY <6>1, <6>2, <4>1
          <5>2. CASE j > p
            <6>1. j - 1 \in 1..(n - 1) /\ ~(j - 1 < p) /\ (j - 1) + 1 = j
              BY <5>2, <2>3
            <6>2. (a \o b)[j - 1] = subscribers[j]
              BY <6>1, <2>7
            <6>. QED
              BY <6>1, <6>2, <4>1
          <5>3. j < p \/ j > p
            BY <4>2, <2>3
          <5>. QED
            BY <5>1, <5>2, <5>3
        <4>. QED
          BY <4>3, <2>7 DEF Holds
      <3>. QED
        BY <3>1, <3>2
    <2>. QED
      BY <2>4, <2>7, <2>8, <2>9
  <1>. QED
    BY <1>1, <1>2

LEMMA TailIs ==
    ASSUME NEW S, NEW s \in Seq(S), s # <<>>, Once(s), NEW v
    PROVE  /\ Tail(s) \in Seq(S) /\ Once(Tail(s))
           /\ Holds(Tail(s), v) <=> Holds(s, v) /\ v # Head(s)
           /\ Holds(s, Head(s))
  <1>1. /\ Tail(s) \in Seq(S) /\ Len(Tail(s)) = Len(s) - 1 /\ Len(s) \in Nat \ {0}
        /\ \A i \in 1..(Len(s) - 1) : Tail(s)[i] = s[i + 1]
        /\ Head(s) = s[1]
    BY HeadTailProperties, EmptySeq
  <1>2. Once(Tail(s))
    BY <1>1 DEF Once
  <1>3. Holds(Tail(s), v) => Holds(s, v) /\ v # Head(s)
    BY <1>1 DEF Holds, Once
  <1>4. ASSUME Holds(s, v), v # Head(s)
        PROVE  Holds(Tail(s), v)
    <2>1. PICK i \in 1..Len(s) : s[i] = v
      BY <1>4 DEF Holds
    <2>2. i - 1 \in 1..(Len(s) - 1) /\ s[(i - 1) + 1] = v
      BY <2>1, <1>1, <1>4
    <2>3. Tail(s)[i - 1] = v
      BY <2>2, <1>1
    <2>. QED
      BY <2>2, <2>3, <1>1 DEF Holds
  <1>5. Holds(s, Head(s))
    BY <1>1 DEF Holds
  <1>. QED
    BY <1>1, <1>2, <1>3, <1>4, <1>5

LEMMA AppendIs ==
    ASSUME NEW S, NEW s \in Seq(S), NEW v \in S, ~Holds(s, v), Once(s), NEW w
    PROVE  /\ Append(s, v) \in Seq(S) /\ Once(Append(s, v))
           /\ Holds(Append(s, v), w) <=> Holds(s, w) \/ w = v
  <1>1. /\ Append(s, v) \in Seq(S) /\ Len(Append(s, v)) = Len(s) + 1 /\ Len(s) \in Nat
        /\ \A i \in 1..Len(s) : Append(s, v)[i] = s[i]
        /\ Append(s, v)[Len(s) + 1] = v
    BY AppendProperties, LenProperties
  <1>2. Once(Append(s, v))
    BY <1>1 DEF Once, Holds
  <1>3. Holds(Append(s, v), w) => Holds(s, w) \/ w = v
    BY <1>1 DEF Holds
  <1>4. Holds(s, w) \/ w = v => Holds(Append(s, v), w)
    BY <1>1 DEF Holds
  <1>. QED
    BY <1>1, <1>2, <1>3, <1>4
-----------------------------------------------------------------------------
(* The stream: types and subscriptions.                                    *)

LEMMA StreamInitially == StreamInit => StreamInv
  <1>. SUFFICES ASSUME StreamInit
                PROVE  StreamInv
    OBVIOUS
  <1>1. StreamTypes
    BY EventStreamAssumption DEF StreamInit, StreamTypes
  <1>2. Subscribed
    BY DEF StreamInit, Subscribed, Once, Holds
  <1>3. Nothing /\ StreamInOrder
    BY DEF StreamInit, Nothing, StreamInOrder
  <1>. QED
    BY <1>1, <1>2, <1>3 DEF StreamInv

LEMMA EnqueueTypes ==
    ASSUME StreamTypes
    PROVE  Enqueued \in 0..DispatcherSize
  BY EventStreamAssumption DEF StreamTypes, Enqueued

LEMMA StreamTypesKept ==
    ASSUME StreamTypes, Subscribed, StreamNext
    PROVE  StreamTypes'
  <1>. USE DEF StreamTypes
  <1>1. CASE Publish
    BY <1>1, EventStreamAssumption DEF Publish, Published
  <1>2. CASE Add
    BY <1>2 DEF Add
  <1>3. CASE Put
    <2>1. Head(todo) \in Viewer /\ Tail(todo) \in Seq(Viewer)
      BY <1>3, HeadTailProperties DEF Put
    <2>2. Append(inbox[Head(todo)], stored) \in Seq(Nat)
             /\ Len(Append(inbox[Head(todo)], stored)) <= ViewerSize
      BY SMTT(30), <1>3, <2>1, EventStreamAssumption, AppendProperties, LenProperties DEF Put, PutIn
    <2>. QED
      BY <1>3, <2>1, <2>2 DEF Put, PutIn
  <1>4. CASE AddDone
    BY <1>4 DEF AddDone
  <1>5. ASSUME NEW v \in Viewer, Subscribe(v)
        PROVE  StreamTypes'
    <2>1. Append(subscribers, v) \in Seq(Viewer)
      BY AppendProperties
    <2>. QED
      BY <1>5, <2>1 DEF Subscribe
  <1>6. ASSUME NEW v \in Viewer, Take(v)
        PROVE  StreamTypes'
    <2>1. /\ Head(inbox[v]) \in Nat /\ Tail(inbox[v]) \in Seq(Nat)
          /\ Len(Tail(inbox[v])) <= ViewerSize
      BY <1>6, EventStreamAssumption, HeadTailProperties, LenProperties DEF Take
    <2>. QED
      BY <1>6, <2>1 DEF Take
  <1>7. ASSUME NEW v \in Viewer, Write(v) \/ WriteFails(v) \/ Close(v)
        PROVE  StreamTypes'
    <2>1. CASE Write(v)
      BY <1>7, <2>1 DEF Write
    <2>2. CASE WriteFails(v)
      BY <1>7, <2>2 DEF WriteFails
    <2>3. CASE Close(v)
      BY <1>7, <2>3 DEF Close
    <2>. QED
      BY <1>7, <2>1, <2>2, <2>3
  <1>8. ASSUME NEW v \in Viewer, Unsubscribe(v)
        PROVE  StreamTypes'
    <2>1. Remaining(v) \in Seq(Viewer)
      BY RemainingIs DEF Subscribed
    <2>2. <<>> \in Seq(Nat) /\ Len(<<>>) <= ViewerSize
      BY EventStreamAssumption
    <2>. QED
      BY <1>8, <2>1, <2>2 DEF Unsubscribe
  <1>. QED
    BY <1>1, <1>2, <1>3, <1>4, <1>5, <1>6, <1>7, <1>8 DEF StreamNext, Deliver

LEMMA SubscribedKept ==
    ASSUME StreamTypes, Subscribed, StreamNext
    PROVE  Subscribed'
  <1>. USE DEF Subscribed
  <1>1. CASE Publish
    BY <1>1 DEF Publish
  <1>2. CASE Add
    BY <1>2 DEF Add
  <1>3. CASE Put
    <2>1. Once(Tail(todo)) /\ \A v \in Viewer : Holds(Tail(todo), v) => Holds(todo, v)
      BY <1>3, TailIs DEF Put, StreamTypes
    <2>. QED
      BY <1>3, <2>1 DEF Put
  <1>4. CASE AddDone
    BY <1>4 DEF AddDone
  <1>5. ASSUME NEW v \in Viewer, Subscribe(v)
        PROVE  Subscribed'
    <2>1. ~Holds(subscribers, v)
      BY <1>5 DEF Subscribe
    <2>2. /\ Once(Append(subscribers, v))
          /\ \A w \in Viewer : Holds(Append(subscribers, v), w) <=> Holds(subscribers, w) \/ w = v
      BY <2>1, AppendIs DEF StreamTypes
    <2>. QED
      BY <1>5, <2>2 DEF Subscribe, StreamTypes
  <1>6. ASSUME NEW v \in Viewer, Take(v) \/ Write(v)
        PROVE  Subscribed'
    BY <1>6 DEF Take, Write
  <1>7. ASSUME NEW v \in Viewer, WriteFails(v) \/ Close(v)
        PROVE  Subscribed'
    BY <1>7 DEF WriteFails, Close, StreamTypes
  <1>8. ASSUME NEW v \in Viewer, Unsubscribe(v)
        PROVE  Subscribed'
    <2>1. /\ Once(Remaining(v))
          /\ \A w \in Viewer : Holds(Remaining(v), w) <=> Holds(subscribers, w) /\ w # v
      BY RemainingIs DEF StreamTypes
    <2>2. todo = <<>> /\ \A w \in Viewer : ~Holds(todo, w)
      BY <1>8 DEF Unsubscribe, Holds
    <2>. QED
      BY <1>8, <2>1, <2>2 DEF Unsubscribe, StreamTypes
  <1>. QED
    BY <1>1, <1>2, <1>3, <1>4, <1>5, <1>6, <1>7, <1>8 DEF StreamNext, Deliver
-----------------------------------------------------------------------------
(* The stream: every viewer gets the events in order.                      *)

Writes(v) == IF writing[v] = 0 THEN <<>> ELSE <<writing[v]>>
Coming(v) == IF Holds(todo, v) THEN <<stored>> ELSE <<>>

LEMMA PendingParts ==
    ASSUME StreamTypes, NEW v \in Viewer
    PROVE  /\ Pending(v) = Writes(v) \o inbox[v] \o Coming(v)
           /\ Writes(v) \in Seq(Nat) /\ inbox[v] \in Seq(Nat) /\ Coming(v) \in Seq(Nat)
           /\ stored \in Nat /\ seen[v] \in Nat /\ writing[v] \in Nat
  <1>1. DOMAIN todo = 1..Len(todo)
    BY LenProperties DEF StreamTypes
  <1>. QED
    BY <1>1 DEF StreamTypes, Pending, Writes, Coming, Holds

LEMMA NextPendingParts ==
    ASSUME StreamTypes', NEW v \in Viewer
    PROVE  Pending(v)' = Writes(v)' \o inbox'[v] \o Coming(v)'
  <1>1. DOMAIN todo' = 1..Len(todo')
    BY LenProperties DEF StreamTypes
  <1>. QED
    BY <1>1 DEF StreamTypes, Pending, Writes, Coming, Holds

\* What a viewer is owed is a run of numbers, and what it has pending is that run.
InOrder(v) == Pending(v) = Owing(v)
LEMMA OwingIsRun ==
    ASSUME NEW v \in Viewer
    PROVE  Owing(v) = Run(seen[v], stored - seen[v])
  BY DEF Owing, Run

LEMMA NextOwingIsRun ==
    ASSUME NEW v \in Viewer
    PROVE  Owing(v)' = Run(seen'[v], stored' - seen'[v])
  BY DEF Owing, Run

\* A viewer that a step does not concern.
LEMMA InOrderKept ==
    ASSUME StreamTypes, StreamTypes', NEW v \in Viewer, InOrder(v),
           stored' = stored, seen'[v] = seen[v], writing'[v] = writing[v], inbox'[v] = inbox[v],
           Holds(todo, v)' <=> Holds(todo, v)
    PROVE  InOrder(v)'
  <1>1. Pending(v)' = Pending(v)
    BY PendingParts, NextPendingParts DEF Writes, Coming
  <1>2. Owing(v)' = Owing(v)
    BY OwingIsRun, NextOwingIsRun
  <1>. QED
    BY <1>1, <1>2 DEF InOrder

\* A new event comes to everybody who is subscribed.
LEMMA InOrderByAdd ==
    ASSUME StreamInv, StreamTypes', Add, NEW v \in Viewer, InOrder(v), Holds(subscribers, v)
    PROVE  InOrder(v)'
  <1>1. StreamTypes /\ seen[v] <= stored /\ seen[v] \in Nat /\ stored \in Nat
    BY PendingParts DEF StreamInv, Nothing
  <1>2. todo = <<>>
    BY DEF StreamInv, Subscribed, Add
  <1>3. /\ Coming(v) = <<>> /\ Coming(v)' = <<stored + 1>>
        /\ Writes(v)' = Writes(v) /\ inbox' = inbox /\ seen' = seen /\ stored' = stored + 1
    BY <1>2 DEF Add, Coming, Holds, Writes
  <1>4. Pending(v)' = Append(Pending(v), stored + 1)
    <2>1. Pending(v) = Writes(v) \o inbox[v] \o <<>>
      BY <1>1, <1>3, PendingParts
    <2>2. Pending(v)' = Writes(v) \o inbox[v] \o <<stored + 1>>
      BY <1>3, NextPendingParts
    <2>3. Writes(v) \in Seq(Nat) /\ inbox[v] \in Seq(Nat) /\ stored + 1 \in Nat
      BY <1>1, PendingParts
    <2>4. PICK n \in Nat : n = stored + 1
      BY <2>3
    <2>5. PICK a \in Seq(Nat) : a = Writes(v)
      BY <2>3
    <2>6. PICK b \in Seq(Nat) : b = inbox[v]
      BY <2>3
    <2>7. a \o b \o <<n>> = Append(a \o b \o <<>>, n)
      BY PutLast
    <2>. QED
      BY <2>1, <2>2, <2>4, <2>5, <2>6, <2>7
  <1>5. Owing(v)' = Append(Owing(v), stored + 1)
    <2>1. stored - seen[v] \in Nat /\ seen[v] + (stored - seen[v]) + 1 = stored + 1
             /\ (stored - seen[v]) + 1 = (stored + 1) - seen[v]
      BY <1>1
    <2>2. Append(Run(seen[v], stored - seen[v]), seen[v] + (stored - seen[v]) + 1)
             = Run(seen[v], (stored - seen[v]) + 1)
      BY <1>1, <2>1, RunGrows
    <2>. QED
      BY <1>3, <2>1, <2>2, OwingIsRun, NextOwingIsRun
  <1>. QED
    BY <1>4, <1>5 DEF InOrder

\* The event that was to be put is put.
LEMMA InOrderByPut ==
    ASSUME StreamInv, StreamTypes', Put, NEW v \in Viewer, InOrder(v)
    PROVE  InOrder(v)'
  <1>1. StreamTypes /\ Once(todo) /\ todo # <<>> /\ todo \in Seq(Viewer) /\ todo' = Tail(todo)
    BY DEF StreamInv, Subscribed, StreamTypes, Put
  <1>2. UNCHANGED <<stored, seen, writing>>
    BY DEF Put
  <1>3. CASE v # Head(todo)
    <2>1. inbox'[v] = inbox[v]
      BY <1>1, <1>3 DEF Put, PutIn, StreamTypes
    <2>2. Holds(todo, v)' <=> Holds(todo, v)
      BY ZenonT(30), <1>1, <1>3, TailIs DEF Holds
    <2>. QED
      BY <1>1, <1>2, <2>1, <2>2, InOrderKept
  <1>4. CASE v = Head(todo)
    <2>1. inbox'[v] = Append(inbox[v], stored)
      BY <1>1, <1>4 DEF Put, PutIn, StreamTypes
    <2>2. Holds(todo, v) /\ ~Holds(todo', v)
      BY <1>1, <1>4, TailIs
    <2>3. Coming(v) = <<stored>> /\ Coming(v)' = <<>> /\ Writes(v)' = Writes(v)
      BY <2>2, <1>2 DEF Coming, Writes, Holds
    <2>4. Pending(v)' = Pending(v)
      <3>1. Pending(v) = Writes(v) \o inbox[v] \o <<stored>>
        BY <1>1, <2>3, PendingParts
      <3>2. Pending(v)' = Writes(v) \o Append(inbox[v], stored) \o <<>>
        BY <2>1, <2>3, NextPendingParts
      <3>3. Writes(v) \in Seq(Nat) /\ inbox[v] \in Seq(Nat) /\ stored \in Nat
        BY <1>1, PendingParts
      <3>. QED
        BY <3>1, <3>2, <3>3, PutLast
    <2>5. Owing(v)' = Owing(v)
      BY <1>2, OwingIsRun, NextOwingIsRun
    <2>. QED
      BY <2>4, <2>5 DEF InOrder
  <1>. QED
    BY <1>3, <1>4

\* The viewer's thread takes an event from its queue, and writes it.
LEMMA InOrderByTake ==
    ASSUME StreamInv, StreamTypes', NEW v \in Viewer, Take(v), InOrder(v)
    PROVE  InOrder(v)'
  <1>1. StreamTypes /\ inbox[v] # <<>> /\ writing[v] = 0
    BY DEF StreamInv, Take
  <1>2. /\ UNCHANGED <<stored, seen, todo>>
        /\ inbox'[v] = Tail(inbox[v]) /\ writing'[v] = Head(inbox[v])
    BY <1>1 DEF Take, StreamTypes
  <1>3. Pending(v) = Run(seen[v], stored - seen[v]) /\ seen[v] \in Nat /\ stored \in Nat
           /\ seen[v] <= stored
    BY <1>1, OwingIsRun, PendingParts DEF InOrder, StreamInv, Nothing
  <1>4. Pending(v) = <<>> \o inbox[v] \o Coming(v)
           /\ inbox[v] \in Seq(Nat) /\ Coming(v) \in Seq(Nat)
    BY <1>1, PendingParts DEF Writes
  <1>5. Pending(v) = <<Head(inbox[v])>> \o Tail(inbox[v]) \o Coming(v)
    BY <1>1, <1>4, TakeFirst
  <1>6. Head(inbox[v]) # 0
    <2>1. Head(inbox[v]) \in Nat /\ Tail(inbox[v]) \in Seq(Nat)
      BY <1>1, <1>4, HeadTailProperties
    <2>2. Head(Pending(v)) = Head(inbox[v]) /\ Pending(v) # <<>>
      BY <2>1, <1>4, <1>5, WrittenFirst
    <2>3. stored - seen[v] \in Nat \ {0}
      <3>1. stored - seen[v] \in Nat
        BY <1>3
      <3>. QED
        BY <3>1, <1>3, <2>2, RunIsEmpty
    <2>4. Head(Pending(v)) = seen[v] + 1
      BY <1>3, <2>3, RunShrinks
    <2>. QED
      BY <2>2, <2>4, <1>3
  <1>7. Writes(v)' = <<Head(inbox[v])>> /\ Coming(v)' = Coming(v)
    BY <1>2, <1>6 DEF Writes, Coming
  <1>8. Pending(v)' = Pending(v)
    BY <1>2, <1>5, <1>7, NextPendingParts
  <1>9. Owing(v)' = Owing(v)
    BY <1>2, OwingIsRun, NextOwingIsRun
  <1>. QED
    BY <1>8, <1>9 DEF InOrder

LEMMA InOrderByWrite ==
    ASSUME StreamInv, StreamTypes', NEW v \in Viewer, Write(v), InOrder(v)
    PROVE  InOrder(v)' /\ seen'[v] <= stored
  <1>1. StreamTypes /\ writing[v] # 0
    BY DEF StreamInv, Write
  <1>2. /\ UNCHANGED <<stored, inbox, todo>>
        /\ writing'[v] = 0 /\ seen'[v] = writing[v]
    BY <1>1 DEF Write, StreamTypes
  <1>3. Pending(v) = Run(seen[v], stored - seen[v]) /\ seen[v] \in Nat /\ stored \in Nat
           /\ seen[v] <= stored /\ writing[v] \in Nat
    BY <1>1, OwingIsRun, PendingParts DEF InOrder, StreamInv, Nothing
  <1>4. Pending(v) = <<writing[v]>> \o inbox[v] \o Coming(v)
           /\ inbox[v] \in Seq(Nat) /\ Coming(v) \in Seq(Nat)
    BY <1>1, PendingParts DEF Writes
  <1>5. /\ Head(Pending(v)) = writing[v] /\ Pending(v) # <<>>
        /\ Tail(Pending(v)) = <<>> \o inbox[v] \o Coming(v)
    <2>1. /\ Head(<<writing[v]>> \o inbox[v] \o Coming(v)) = writing[v]
          /\ Tail(<<writing[v]>> \o inbox[v] \o Coming(v)) = <<>> \o inbox[v] \o Coming(v)
          /\ <<writing[v]>> \o inbox[v] \o Coming(v) # <<>>
      BY <1>3, <1>4, WrittenFirst
    <2>. QED
      BY <1>4, <2>1
  <1>6. stored - seen[v] \in Nat \ {0}
    <2>1. stored - seen[v] \in Nat
      BY <1>3
    <2>. QED
      BY <2>1, <1>3, <1>5, RunIsEmpty
  <1>7. /\ Head(Pending(v)) = seen[v] + 1
        /\ Tail(Pending(v)) = Run(seen[v] + 1, stored - seen[v] - 1)
    BY <1>3, <1>6, RunShrinks
  <1>8. seen'[v] = seen[v] + 1 /\ stored' - seen'[v] = stored - seen[v] - 1 /\ seen'[v] <= stored
    <2>1. seen'[v] = seen[v] + 1 /\ stored' = stored
      BY <1>2, <1>5, <1>7
    <2>2. stored - (seen[v] + 1) = stored - seen[v] - 1 /\ seen[v] + 1 <= stored
      BY <1>3, <1>6
    <2>. QED
      BY <2>1, <2>2
  <1>9. Pending(v)' = <<>> \o inbox[v] \o Coming(v)
    <2>1. Writes(v)' = <<>> /\ Coming(v)' = Coming(v)
      BY <1>2 DEF Writes, Coming
    <2>. QED
      BY <2>1, <1>2, NextPendingParts
  <1>10. InOrder(v)'
    BY <1>5, <1>7, <1>8, <1>9, NextOwingIsRun DEF InOrder
  <1>. QED
    BY <1>8, <1>10
LEMMA NothingKept ==
    ASSUME StreamInv, StreamTypes', StreamNext
    PROVE  Nothing'
  <1>. USE DEF StreamInv, StreamTypes, Nothing
  <1>1. CASE Publish \/ AddDone
    BY <1>1 DEF Publish, AddDone
  <1>2. CASE Add
    BY <1>2 DEF Add
  <1>3. CASE Put
    <2>1. Head(todo) \in Viewer /\ viewer[Head(todo)] # "off"
      BY <1>3, HeadTailProperties, TailIs DEF Put, Subscribed
    <2>. QED
      BY <1>3, <2>1 DEF Put, PutIn
  <1>4. ASSUME NEW v \in Viewer, Subscribe(v)
        PROVE  Nothing'
    BY <1>4 DEF Subscribe
  <1>5. ASSUME NEW v \in Viewer, Take(v)
        PROVE  Nothing'
    BY <1>5 DEF Take
  <1>6. ASSUME NEW v \in Viewer, Write(v)
        PROVE  Nothing'
    <2>1. seen'[v] <= stored
      BY <1>6, InOrderByWrite DEF StreamInOrder, InOrder, Write
    <2>. QED
      BY <1>6, <2>1 DEF Write
  <1>7. ASSUME NEW v \in Viewer, Close(v) \/ WriteFails(v)
        PROVE  Nothing'
    BY <1>7 DEF Close, WriteFails
  <1>8. ASSUME NEW v \in Viewer, Unsubscribe(v)
        PROVE  Nothing'
    BY <1>8 DEF Unsubscribe
  <1>. QED
    BY <1>1, <1>2, <1>3, <1>4, <1>5, <1>6, <1>7, <1>8 DEF StreamNext, Deliver

\* Who is connected, and what of the others' a step may not touch.
Connected(v) == viewer[v] \in {"open", "closed"}

LEMMA InOrderNext ==
    ASSUME StreamInv, StreamTypes', StreamNext
    PROVE  StreamInOrder'
  <1>. SUFFICES ASSUME NEW v \in Viewer, Connected(v)'
                PROVE  InOrder(v)'
    BY DEF StreamInOrder, InOrder, Connected
  <1>1. StreamTypes /\ Subscribed /\ Nothing /\ (Connected(v) => InOrder(v))
    BY DEF StreamInv, StreamInOrder, InOrder, Connected
  <1>2. CASE Publish \/ AddDone
    BY <1>1, <1>2, InOrderKept DEF Publish, AddDone, Connected, Holds
  <1>3. CASE Add
    BY <1>1, <1>3, InOrderByAdd DEF Add, Connected, Subscribed
  <1>4. CASE Put
    BY <1>1, <1>4, InOrderByPut DEF Put, Connected
  <1>5. ASSUME NEW u \in Viewer, Subscribe(u)
        PROVE  InOrder(v)'
    <2>1. CASE u # v
      <3>1. Connected(v) /\ UNCHANGED <<stored, writing, inbox, todo>> /\ seen'[v] = seen[v]
        BY <1>1, <1>5, <2>1 DEF Subscribe, Connected, StreamTypes
      <3>. QED
        BY <1>1, <3>1, InOrderKept DEF Holds
    <2>2. CASE u = v
      <3>1. todo' = <<>> /\ inbox'[v] = <<>> /\ writing'[v] = 0 /\ seen'[v] = stored
               /\ stored' = stored /\ stored \in Nat
        BY <1>1, <1>5, <2>2 DEF Subscribe, StreamTypes, Subscribed, Nothing
      <3>2. Writes(v)' = <<>> /\ Coming(v)' = <<>>
        BY <3>1 DEF Writes, Coming, Holds
      <3>3. Pending(v)' = <<>>
        BY <3>1, <3>2, NextPendingParts
      <3>4. Run(seen'[v], stored' - seen'[v]) = <<>>
        BY <3>1 DEF Run
      <3>. QED
        BY <3>3, <3>4, NextOwingIsRun DEF InOrder
    <2>. QED
      BY <2>1, <2>2
  <1>6. ASSUME NEW u \in Viewer, Take(u)
        PROVE  InOrder(v)'
    <2>1. CASE u # v
      <3>1. Connected(v) /\ UNCHANGED <<stored, seen, todo>>
               /\ writing'[v] = writing[v] /\ inbox'[v] = inbox[v]
        BY <1>1, <1>6, <2>1 DEF Take, Connected, StreamTypes
      <3>. QED
        BY <1>1, <3>1, InOrderKept DEF Holds
    <2>2. CASE u = v
      BY <1>1, <1>6, <2>2, InOrderByTake DEF Take, Connected
    <2>. QED
      BY <2>1, <2>2
  <1>7. ASSUME NEW u \in Viewer, Write(u)
        PROVE  InOrder(v)'
    <2>1. CASE u # v
      <3>1. Connected(v) /\ UNCHANGED <<stored, inbox, todo>>
               /\ writing'[v] = writing[v] /\ seen'[v] = seen[v]
        BY <1>1, <1>7, <2>1 DEF Write, Connected, StreamTypes
      <3>. QED
        BY <1>1, <3>1, InOrderKept DEF Holds
    <2>2. CASE u = v
      BY <1>1, <1>7, <2>2, InOrderByWrite DEF Write, Connected
    <2>. QED
      BY <2>1, <2>2
  <1>8. ASSUME NEW u \in Viewer, Close(u) \/ WriteFails(u) \/ Unsubscribe(u)
        PROVE  InOrder(v)'
    <2>1. UNCHANGED <<stored, seen, todo>>
      BY <1>8 DEF Close, WriteFails, Unsubscribe
    <2>2. Connected(v) /\ writing'[v] = writing[v] /\ inbox'[v] = inbox[v]
      BY <1>1, <1>8 DEF Close, WriteFails, Unsubscribe, Connected, StreamTypes
    <2>. QED
      BY <1>1, <2>1, <2>2, InOrderKept DEF Holds
  <1>. QED
    BY <1>2, <1>3, <1>4, <1>5, <1>6, <1>7, <1>8 DEF StreamNext, Deliver

\* Where the console touches the stream: an event is queued, or dropped.
LEMMA StreamByConsole ==
    ASSUME StreamInv, Enqueue \/ UNCHANGED streamVars
    PROVE  StreamInv'
  <1>1. UNCHANGED <<wire, stored, lock, subscribers, todo, viewer, inbox, writing, seen>>
    BY DEF Enqueue, streamVars
  <1>2. StreamTypes'
    BY <1>1, EnqueueTypes DEF StreamInv, StreamTypes, Enqueue, streamVars
  <1>3. Subscribed' /\ Nothing'
    BY <1>1 DEF StreamInv, Subscribed, Nothing, Once, Holds
  <1>4. StreamInOrder'
    BY <1>1 DEF StreamInv, StreamInOrder, Pending, Owing
  <1>. QED
    BY <1>2, <1>3, <1>4 DEF StreamInv

LEMMA StreamKept == StreamInv /\ [Next]_allVars => StreamInv'
  <1>. SUFFICES ASSUME StreamInv, [Next]_allVars
                PROVE  StreamInv'
    OBVIOUS
  <1>1. CASE StreamNext
    <2>1. StreamTypes'
      BY <1>1, StreamTypesKept DEF StreamInv
    <2>. QED
      BY <1>1, <2>1, SubscribedKept, NothingKept, InOrderNext DEF StreamInv
  <1>2. CASE ConsoleNext
    <2>1. Enqueue \/ UNCHANGED streamVars
      BY <1>2 DEF ConsoleNext, Ask, Send, SendFails, Get, GiveUp, SendChat, Arrive, Store,
             Check, PutAnswer
    <2>. QED
      BY <2>1, StreamByConsole
  <1>3. CASE UNCHANGED allVars
    BY <1>3, StreamByConsole DEF allVars
  <1>. QED
    BY <1>1, <1>2, <1>3 DEF Next

LEMMA StreamHolds == Spec => []StreamInv
  BY StreamInitially, StreamKept, PTL DEF Spec, Init

\* Every viewer that is connected gets each event that is stored after it subscribed, once
\* and in the order of the store, with any number of viewers that come, go and stop reading
\* and queues of any size (EventStore.add, _handle_sse).
THEOREM EventsInOrder == Spec => []StreamInOrder
  <1>1. StreamInv => StreamInOrder
    BY DEF StreamInv
  <1>. QED
    BY <1>1, StreamHolds, PTL
-----------------------------------------------------------------------------
(* The console: types.                                                     *)

LEMMA QuestionIsTask == \A q \in Question : q \in Task /\ q # None
  BY ConsoleAssumption DEF Task

LEMMA AnswerToTask == \A m \in Answer : m[1] \in Task
  BY ConsoleAssumption DEF Answer

LEMMA ConsoleInitially == ConsoleInit => ConsoleTypes /\ AnswerInv
  <1>. SUFFICES ASSUME ConsoleInit
                PROVE  ConsoleTypes /\ AnswerInv
    OBVIOUS
  <1>1. Busy = {}
    BY DEF ConsoleInit, Busy
  <1>2. ConsoleTypes
    BY <1>1, FS_EmptySet, ConsoleAssumption DEF ConsoleInit, ConsoleTypes
  <1>3. Waits /\ NotAsked /\ Answers /\ AnswerIsFresh /\ BoxedIfWaited
    BY QuestionIsTask
    DEF ConsoleInit, Waits, NotAsked, Answers, AnswerIsFresh, BoxedIfWaited
  <1>. QED
    BY <1>2, <1>3 DEF AnswerInv

\* A worker is busy from the result on until the answer is put, or nobody waits.
LEMMA FewerBusy ==
    ASSUME IsFiniteSet(Busy), Cardinality(Busy) <= Workers, Busy' \subseteq Busy
    PROVE  IsFiniteSet(Busy') /\ Cardinality(Busy') <= Workers
  <1>1. IsFiniteSet(Busy') /\ Cardinality(Busy') <= Cardinality(Busy)
    BY FS_Subset
  <1>2. Cardinality(Busy) \in Nat /\ Cardinality(Busy') \in Nat
    BY <1>1, FS_CardinalityType
  <1>. QED
    BY <1>1, <1>2, ConsoleAssumption

LEMMA OneMoreBusy ==
    ASSUME ConsoleTypes, NEW m \in Answer, Store(m)
    PROVE  IsFiniteSet(Busy') /\ Cardinality(Busy') <= Workers
  <1>1. Busy' = Busy \cup {m}
    BY DEF Store, Busy, ConsoleTypes
  <1>2. IsFiniteSet(Busy) /\ Cardinality(Busy) < Workers
    BY DEF Store, ConsoleTypes
  <1>3. IsFiniteSet(Busy \cup {m}) /\ Cardinality(Busy \cup {m}) <= Cardinality(Busy) + 1
    <2>1. /\ IsFiniteSet(Busy \cup {m})
          /\ Cardinality(Busy \cup {m}) = IF m \in Busy THEN Cardinality(Busy) ELSE Cardinality(Busy) + 1
      BY <1>2, FS_AddElement
    <2>2. Cardinality(Busy) \in Nat
      BY <1>2, FS_CardinalityType
    <2>. QED
      BY <2>1, <2>2
  <1>4. Cardinality(Busy) \in Nat /\ Cardinality(Busy \cup {m}) \in Nat
    BY <1>2, <1>3, FS_CardinalityType
  <1>5. Cardinality(Busy \cup {m}) <= Workers
    BY <1>2, <1>3, <1>4, ConsoleAssumption
  <1>. QED
    BY <1>1, <1>3, <1>5

Few == IsFiniteSet(Busy) /\ Cardinality(Busy) <= Workers

LEMMA FewKept ==
    ASSUME ConsoleTypes, ConsoleNext
    PROVE  Few'
  <1>. USE DEF ConsoleTypes, Few
  <1>1. ASSUME NEW m \in Answer, Store(m)
        PROVE  Few'
    BY <1>1, OneMoreBusy
  <1>2. CASE ~\E m \in Answer : Store(m)
    <2>1. Busy' \subseteq Busy
      BY <1>2
      DEF ConsoleNext, Busy, Ask, Send, SendFails, Get, GiveUp, SendChat, Arrive, Check, PutAnswer
    <2>. QED
      BY <2>1, FewerBusy
  <1>. QED
    BY <1>1, <1>2

\* What is put into a box, and taken from it.
LEMMA PutTypes ==
    ASSUME ConsoleTypes, NEW m \in Answer, PutAnswer(m)
    PROVE  box' \in [Question -> Seq(Answer)]
  <1>1. CASE current = None
    BY <1>1 DEF PutAnswer, ConsoleTypes
  <1>2. CASE current # None
    <2>1. Append(box[current], m) \in Seq(Answer) /\ current \in Question
      BY <1>2, AppendProperties DEF ConsoleTypes
    <2>. QED
      BY <1>2, <2>1 DEF PutAnswer, ConsoleTypes
  <1>. QED
    BY <1>1, <1>2

LEMMA GetTypes ==
    ASSUME ConsoleTypes, Waits, NEW q \in Question, Get(q)
    PROVE  box' \in [Question -> Seq(Answer)] /\ got' \in [Question -> SUBSET Answer]
  <1>1. current = q
    BY QuestionIsTask DEF Waits, Get
  <1>2. Head(box[q]) \in Answer /\ Tail(box[q]) \in Seq(Answer)
    BY <1>1, HeadTailProperties DEF ConsoleTypes, Get
  <1>. QED
    BY <1>1, <1>2 DEF ConsoleTypes, Get

LEMMA ConsoleTypesNext ==
    ASSUME ConsoleTypes, Waits, ConsoleNext
    PROVE  ConsoleTypes'
  <1>1. Few'
    BY FewKept
  <1>2. /\ task' \in [Task -> {"new", "out", "unsent"}]
        /\ answer' \in [Answer -> {"none", "back", "stored", "seen", "done"}]
    BY DEF ConsoleTypes, ConsoleNext, Ask, Send, SendFails, Get, GiveUp, SendChat, Arrive, Store,
           Check, PutAnswer
  <1>3. /\ asking' \in Question \cup {None} /\ current' \in Question \cup {None}
        /\ before' \in [Question -> SUBSET Answer]
    BY DEF ConsoleTypes, ConsoleNext, Ask, Send, SendFails, Get, GiveUp, SendChat, Arrive, Store,
           Check, PutAnswer, QueueOf
  <1>4. results' \subseteq Task
    BY AnswerToTask
    DEF ConsoleTypes, ConsoleNext, Ask, Send, SendFails, Get, GiveUp, SendChat, Arrive, Store,
        Check, PutAnswer
  <1>5. box' \in [Question -> Seq(Answer)] /\ got' \in [Question -> SUBSET Answer]
    <2>1. ASSUME NEW q \in Question, Get(q)
          PROVE  box' \in [Question -> Seq(Answer)] /\ got' \in [Question -> SUBSET Answer]
      BY <2>1, GetTypes
    <2>2. ASSUME NEW m \in Answer, PutAnswer(m)
          PROVE  box' \in [Question -> Seq(Answer)] /\ got' \in [Question -> SUBSET Answer]
      BY <2>2, PutTypes DEF ConsoleTypes, PutAnswer
    <2>3. CASE UNCHANGED <<box, got>>
      BY <2>3 DEF ConsoleTypes
    <2>. QED
      BY <2>1, <2>2, <2>3
      DEF ConsoleNext, Ask, Send, SendFails, GiveUp, SendChat, Arrive, Store, Check
  <1>. QED
    BY <1>1, <1>2, <1>3, <1>4, <1>5 DEF ConsoleTypes, Few

-----------------------------------------------------------------------------
(* The console: whose answers are taken.                                   *)

\* An answer that has been dealt with stays so.
LEMMA DoneStays ==
    ASSUME ConsoleTypes, ConsoleNext, NEW m \in Answer, answer[m] = "done"
    PROVE  answer'[m] = "done"
  BY DEF ConsoleTypes, ConsoleNext, Ask, Send, SendFails, Get, GiveUp, SendChat, Arrive, Store,
         Check, PutAnswer

LEMMA BoxedAnswers ==
    ASSUME ConsoleTypes
    PROVE  /\ \A q \in Question : \A i \in 1..Len(box[q]) : box[q][i] \in Answer
           /\ \A q \in Question : before[q] \subseteq Answer /\ got[q] \subseteq Answer
  BY ElementOfSeq DEF ConsoleTypes

\* A step that leaves the boxes, and what was taken from them.
LEMMA AnswersKept ==
    ASSUME ConsoleTypes, ConsoleNext, Answers, UNCHANGED <<box, before, got>>
    PROVE  Answers'
  BY BoxedAnswers, DoneStays DEF Answers

LEMMA AnswersByAsk ==
    ASSUME ConsoleTypes, ConsoleNext, AnswerInv, NEW q \in Question, Ask(q)
    PROVE  AnswerInv'
  <1>1. /\ q \in Task /\ task[q] = "new" /\ box[q] = <<>> /\ got[q] = {}
        /\ asking' = q /\ current' = q
    BY QuestionIsTask DEF Ask, QueueOf, AnswerInv, NotAsked
  <1>2. /\ UNCHANGED <<task, answer, box, got>>
        /\ before' = [before EXCEPT ![q] = {m \in Answer : answer[m] = "done"}]
    BY DEF Ask
  <1>3. Waits'
    BY <1>1, <1>2 DEF AnswerInv, Waits
  <1>4. NotAsked'
    <2>1. \A p \in Question : task[p] = "new" => asking # p /\ box[p] = <<>> /\ got[p] = {}
      BY QuestionIsTask DEF AnswerInv, NotAsked, Ask
    <2>. QED
      BY <1>1, <1>2, <2>1 DEF NotAsked
  <1>5. Answers'
    <2>1. \A p \in Question : \A m \in before'[p] : answer[m] = "done"
      BY <1>2 DEF AnswerInv, Answers, ConsoleTypes
    <2>2. \A p \in Question : \A i \in 1..Len(box[p]) :
            answer[box[p][i]] = "done" /\ box[p][i] \notin before'[p]
      BY <1>1, <1>2 DEF AnswerInv, Answers, ConsoleTypes
    <2>3. /\ \A p, r \in Question : \A i \in 1..Len(box[p]), j \in 1..Len(box[r]) :
                box[p][i] = box[r][j] => p = r /\ i = j
          /\ \A p, r \in Question : \A i \in 1..Len(box[p]) : box[p][i] \notin got[r]
          /\ \A p \in Question : \A m \in got[p] : answer[m] = "done"
      BY DEF AnswerInv, Answers
    <2>4. answer' = answer /\ box' = box /\ got' = got
      BY <1>2
    <2>. QED
      BY <2>1, <2>2, <2>3, <2>4 DEF Answers
  <1>6. AnswerIsFresh'
    BY <1>1, <1>2 DEF AnswerInv, AnswerIsFresh, ConsoleTypes
  <1>7. BoxedIfWaited'
    <2>1. \A m \in Answer : m[1] = q => answer[m] = "none"
      BY <1>1 DEF AnswerInv, Waits
    <2>. QED
      BY <1>1, <1>2, <2>1 DEF BoxedIfWaited
  <1>. QED
    BY <1>3, <1>4, <1>5, <1>6, <1>7 DEF AnswerInv

\* A task is sent, or sending it raises.
LEMMA AnswersBySend ==
    ASSUME ConsoleTypes, ConsoleNext, AnswerInv, NEW t \in Task,
           SendChat(t) \/ (t \in Question /\ (Send(t) \/ SendFails(t)))
    PROVE  AnswerInv'
  <1>1. /\ UNCHANGED <<answer, current, box, before, got>> /\ task[t] = "new"
        /\ asking' = asking \/ (asking' = None /\ asking = t)
        /\ task'[t] # "new" /\ \A u \in Task \ {t} : task'[u] = task[u]
    BY DEF SendChat, Send, SendFails, ConsoleTypes
  <1>2. Waits'
    BY <1>1, AnswerToTask DEF AnswerInv, Waits
  <1>3. NotAsked'
    <2>1. \A p \in Question :
            task'[p] = "new" => task[p] = "new" /\ p # t /\ (asking' # p => asking # p)
      BY <1>1, QuestionIsTask
    <2>2. current' = current /\ box' = box /\ got' = got
      BY <1>1
    <2>3. NotAsked
      BY DEF AnswerInv
    <2>. QED
      BY <2>1, <2>2, <2>3 DEF NotAsked
  <1>4. Answers'
    BY <1>1, AnswersKept DEF AnswerInv
  <1>5. AnswerIsFresh'
    BY <1>1 DEF AnswerInv, AnswerIsFresh
  <1>6. BoxedIfWaited'
    BY <1>1, AnswerToTask, ConsoleAssumption DEF AnswerInv, BoxedIfWaited
  <1>. QED
    BY <1>2, <1>3, <1>4, <1>5, <1>6 DEF AnswerInv

\* A thread goes on with an answer, and does not put it anywhere.
LEMMA AnswersByThread ==
    ASSUME ConsoleTypes, ConsoleNext, AnswerInv, NEW m \in Answer,
           \/ Arrive(m) \/ Store(m) \/ Check(m)
           \/ PutAnswer(m) /\ current = None
    PROVE  AnswerInv'
  <1>1. UNCHANGED <<task, asking, current, box, before, got>>
    BY DEF Arrive, Store, Check, PutAnswer
  <1>2. /\ \A n \in Answer : n # m => answer'[n] = answer[n]
        /\ answer[m] = "none" => task[m[1]] = "out"
        /\ answer'[m] = "done" => current = None
    BY DEF Arrive, Store, Check, PutAnswer, ConsoleTypes, WaitedFor
  <1>3. Waits'
    BY <1>1, <1>2, AnswerToTask DEF AnswerInv, Waits
  <1>4. NotAsked'
    BY <1>1 DEF AnswerInv, NotAsked
  <1>5. Answers'
    BY <1>1, AnswersKept DEF AnswerInv
  <1>6. AnswerIsFresh'
    BY <1>1 DEF AnswerInv, AnswerIsFresh
  <1>7. BoxedIfWaited'
    <2>1. \A n \in Answer : answer'[n] = "done" => answer[n] = "done" \/ current = None
      BY <1>2
    <2>2. current = None => asking = None
      BY DEF AnswerInv, Waits
    <2>3. \A n \in Answer : n[1] # None
      BY AnswerToTask, ConsoleAssumption
    <2>. QED
      BY <1>1, <2>1, <2>2, <2>3 DEF AnswerInv, BoxedIfWaited
  <1>. QED
    BY <1>3, <1>4, <1>5, <1>6, <1>7 DEF AnswerInv

LEMMA AnswersByPut ==
    ASSUME ConsoleTypes, ConsoleNext, AnswerInv, NEW m \in Answer, PutAnswer(m), current # None
    PROVE  AnswerInv'
  <1> DEFINE c == current
  <1>1. /\ c \in Question /\ answer[m] = "seen" /\ answer' = [answer EXCEPT ![m] = "done"]
        /\ UNCHANGED <<task, asking, current, before, got>>
        /\ box' = [box EXCEPT ![c] = Append(@, m)]
    BY DEF ConsoleTypes, PutAnswer
  <1>2. /\ Len(box'[c]) = Len(box[c]) + 1 /\ Len(box[c]) \in Nat
        /\ \A i \in 1..Len(box[c]) : box'[c][i] = box[c][i]
        /\ box'[c][Len(box[c]) + 1] = m
    <2>1. box[c] \in Seq(Answer) /\ box'[c] = Append(box[c], m)
      BY <1>1 DEF ConsoleTypes
    <2>. QED
      BY <2>1, AppendProperties, LenProperties
  <1>3. \A p \in Question \ {c} : box'[p] = box[p]
    BY <1>1 DEF ConsoleTypes
  <1>4. \A p \in Question : \A i \in 1..Len(box[p]) : box[p][i] \in Answer /\ box[p][i] # m
    BY <1>1, BoxedAnswers DEF AnswerInv, Answers
  <1>5. \A p \in Question : \A i \in 1..Len(box'[p]) :
            \/ p = c /\ i = Len(box[c]) + 1 /\ box'[p][i] = m
            \/ i \in 1..Len(box[p]) /\ box'[p][i] = box[p][i]
    BY <1>2, <1>3
  <1>6. Waits'
    BY <1>1 DEF AnswerInv, Waits, ConsoleTypes
  <1>7. NotAsked'
    BY <1>1, <1>3 DEF AnswerInv, NotAsked
  <1>8. Answers'
    <2>1. answer'[m] = "done"
      BY <1>1 DEF ConsoleTypes
    <2>2. \A p \in Question : \A u \in before'[p] : answer'[u] = "done"
      BY <1>1, BoxedAnswers, DoneStays DEF AnswerInv, Answers
    <2>3. \A p \in Question : m \notin before[p] /\ m \notin got[p]
      BY <1>1 DEF AnswerInv, Answers
    <2>4. \A p \in Question : \A i \in 1..Len(box'[p]) :
            answer'[box'[p][i]] = "done" /\ box'[p][i] \notin before'[p]
      BY <1>1, <1>4, <1>5, <2>1, <2>3, DoneStays DEF AnswerInv, Answers
    <2>5. \A p, r \in Question : \A i \in 1..Len(box'[p]), j \in 1..Len(box'[r]) :
            box'[p][i] = box'[r][j] => p = r /\ i = j
      BY SMTT(30), <1>4, <1>5 DEF AnswerInv, Answers
    <2>6. \A p, r \in Question : \A i \in 1..Len(box'[p]) : box'[p][i] \notin got'[r]
      BY <1>1, <1>5, <2>3 DEF AnswerInv, Answers
    <2>7. \A p \in Question : \A u \in got'[p] : answer'[u] = "done"
      BY <1>1, BoxedAnswers, DoneStays DEF AnswerInv, Answers
    <2>. QED
      BY <2>2, <2>4, <2>5, <2>6, <2>7 DEF Answers
  <1>9. AnswerIsFresh'
    BY <1>1 DEF AnswerInv, AnswerIsFresh
  <1>10. BoxedIfWaited'
    <2>1. box'[c] # <<>>
      BY <1>2, EmptySeq
    <2>2. \A u \in Answer : asking = u[1] => asking = c
      BY AnswerToTask, ConsoleAssumption DEF AnswerInv, Waits
    <2>. QED
      BY <1>1, <2>1, <2>2 DEF BoxedIfWaited
  <1>. QED
    BY <1>6, <1>7, <1>8, <1>9, <1>10 DEF AnswerInv

LEMMA AnswersByGet ==
    ASSUME ConsoleTypes, ConsoleNext, AnswerInv, NEW q \in Question, Get(q)
    PROVE  AnswerInv'
  <1>1. /\ UNCHANGED <<task, answer, before>> /\ asking' = None /\ current' = None
        /\ asking = q /\ box[q] # <<>> /\ task[q] = "out"
        /\ got' = [got EXCEPT ![q] = {Head(box[q])}] /\ box' = [box EXCEPT ![q] = Tail(@)]
    <2>1. current = q
      BY QuestionIsTask DEF Get, AnswerInv, Waits
    <2>. QED
      BY <2>1 DEF Get
  <1>2. /\ Len(box[q]) \in Nat \ {0} /\ got'[q] = {box[q][1]}
        /\ Len(box'[q]) = Len(box[q]) - 1
        /\ \A i \in 1..Len(box'[q]) : box'[q][i] = box[q][i + 1]
    <2>1. box[q] \in Seq(Answer) /\ box'[q] = Tail(box[q]) /\ got'[q] = {Head(box[q])}
      BY <1>1 DEF ConsoleTypes
    <2>2. Head(box[q]) = box[q][1]
      BY <2>1
    <2>3. /\ Len(box[q]) \in Nat \ {0} /\ Len(Tail(box[q])) = Len(box[q]) - 1
          /\ \A i \in 1..Len(Tail(box[q])) : Tail(box[q])[i] = box[q][i + 1]
      BY ZenonT(30), <1>1, <2>1, HeadTailProperties, EmptySeq
    <2>. QED
      BY <2>1, <2>2, <2>3
  <1>3. \A p \in Question \ {q} : box'[p] = box[p] /\ got'[p] = got[p]
    BY <1>1 DEF ConsoleTypes
  <1>4. \A p \in Question : \A i \in 1..Len(box'[p]) :
            \/ p = q /\ i + 1 \in 2..Len(box[q]) /\ box'[p][i] = box[q][i + 1]
            \/ p # q /\ i \in 1..Len(box[p]) /\ box'[p][i] = box[p][i]
    BY <1>2, <1>3
  <1>5. 1 \in 1..Len(box[q])
    BY <1>2
  <1>6. Waits' /\ BoxedIfWaited'
    BY <1>1, AnswerToTask, ConsoleAssumption DEF AnswerInv, Waits, BoxedIfWaited
  <1>7. NotAsked'
    BY <1>1, <1>3, QuestionIsTask DEF AnswerInv, NotAsked
  <1>8. Answers'
    <2>1. \A p \in Question : \A u \in before'[p] : answer'[u] = "done"
      BY <1>1 DEF AnswerInv, Answers
    <2>2. \A p \in Question : \A i \in 1..Len(box'[p]) :
            answer'[box'[p][i]] = "done" /\ box'[p][i] \notin before'[p]
      BY <1>1, <1>2, <1>4 DEF AnswerInv, Answers
    <2>3. \A p, r \in Question : \A i \in 1..Len(box'[p]), j \in 1..Len(box'[r]) :
            box'[p][i] = box'[r][j] => p = r /\ i = j
      <3>1. \A p, r \in Question : \A i \in 1..Len(box[p]), j \in 1..Len(box[r]) :
              box[p][i] = box[r][j] => p = r /\ i = j
        BY DEF AnswerInv, Answers
      <3>2. ASSUME NEW p \in Question, NEW i \in 1..Len(box'[p])
            PROVE  \E k \in 1..Len(box[p]) :
                      box'[p][i] = box[p][k] /\ k = IF p = q THEN i + 1 ELSE i
        <4>1. p = q => i + 1 \in 1..Len(box[p])
          BY <1>2, <1>4
        <4>. QED
          BY <1>4, <4>1
      <3>3. ASSUME NEW p \in Question, NEW r \in Question,
                   NEW i \in 1..Len(box'[p]), NEW j \in 1..Len(box'[r]), box'[p][i] = box'[r][j]
            PROVE  p = r /\ i = j
        <4>1. PICK k \in 1..Len(box[p]) :
                box'[p][i] = box[p][k] /\ k = IF p = q THEN i + 1 ELSE i
          BY <3>2
        <4>2. PICK l \in 1..Len(box[r]) :
                box'[r][j] = box[r][l] /\ l = IF r = q THEN j + 1 ELSE j
          BY <3>2
        <4>3. box[p][k] = box[r][l]
          BY <3>3, <4>1, <4>2
        <4>4. p = r /\ k = l
          BY <3>1, <4>3
        <4>5. i \in Int /\ j \in Int
          OBVIOUS
        <4>. QED
          BY <4>1, <4>2, <4>4, <4>5
      <3>. QED
        BY <3>3
    <2>4. \A p, r \in Question : \A i \in 1..Len(box'[p]) : box'[p][i] \notin got'[r]
      <3>1. \A p \in Question : \A i \in 1..Len(box'[p]) : box'[p][i] # box[q][1]
        BY <1>2, <1>4, <1>5 DEF AnswerInv, Answers
      <3>2. ASSUME NEW p \in Question, NEW r \in Question \ {q}, NEW i \in 1..Len(box'[p])
            PROVE  box'[p][i] \notin got[r]
        <4>1. \A j \in 1..Len(box[p]) : box[p][j] \notin got[r]
          BY DEF AnswerInv, Answers
        <4>2. \E j \in 1..Len(box[p]) : box'[p][i] = box[p][j]
          <5>1. p = q => i + 1 \in 1..Len(box[p])
            BY <1>2, <1>4
          <5>. QED
            BY <1>4, <5>1
        <4>. QED
          BY <4>1, <4>2
      <3>. QED
        BY <1>2, <1>3, <3>1, <3>2
    <2>5. \A p \in Question : \A u \in got'[p] : answer'[u] = "done"
      BY <1>1, <1>2, <1>3, <1>5 DEF AnswerInv, Answers
    <2>. QED
      BY <2>1, <2>2, <2>3, <2>4, <2>5 DEF Answers
  <1>9. AnswerIsFresh'
    <2>1. \A r \in Question : box[q][1] \notin got[r] /\ box[q][1] \notin before[q]
      BY <1>5 DEF AnswerInv, Answers
    <2>. QED
      BY <1>1, <1>2, <1>3, <2>1 DEF AnswerInv, AnswerIsFresh
  <1>. QED
    BY <1>6, <1>7, <1>8, <1>9 DEF AnswerInv

LEMMA AnswersByGiveUp ==
    ASSUME ConsoleTypes, ConsoleNext, AnswerInv, NEW q \in Question, GiveUp(q)
    PROVE  AnswerInv'
  <1>1. /\ UNCHANGED <<task, answer, before, box, got>> /\ asking = q /\ task[q] = "out"
        /\ asking' = None /\ current' = None
    BY DEF GiveUp
  <1>2. Waits' /\ BoxedIfWaited'
    BY <1>1, AnswerToTask, ConsoleAssumption DEF AnswerInv, Waits, BoxedIfWaited
  <1>3. NotAsked'
    BY <1>1, QuestionIsTask DEF AnswerInv, NotAsked
  <1>4. Answers' /\ AnswerIsFresh'
    BY <1>1 DEF AnswerInv, Answers, AnswerIsFresh
  <1>. QED
    BY <1>2, <1>3, <1>4 DEF AnswerInv

LEMMA ConsoleKept ==
    ConsoleTypes /\ AnswerInv /\ [Next]_allVars => ConsoleTypes' /\ AnswerInv'
  <1>. SUFFICES ASSUME ConsoleTypes, AnswerInv, [Next]_allVars
                PROVE  ConsoleTypes' /\ AnswerInv'
    OBVIOUS
  <1>1. CASE ConsoleNext
    <2>1. ConsoleTypes'
      BY <1>1, ConsoleTypesNext DEF AnswerInv
    <2>2. ASSUME NEW m \in Answer, Arrive(m) \/ Store(m) \/ Check(m) \/ PutAnswer(m)
          PROVE  AnswerInv'
      BY <1>1, <2>2, AnswersByThread, AnswersByPut
    <2>3. ASSUME NEW t \in Task, SendChat(t)
          PROVE  AnswerInv'
      BY <1>1, <2>3, AnswersBySend
    <2>4. ASSUME NEW q \in Question, Send(q) \/ SendFails(q)
          PROVE  AnswerInv'
      BY <1>1, <2>4, AnswersBySend, QuestionIsTask
    <2>. QED
      BY <1>1, <2>1, <2>2, <2>3, <2>4, AnswersByAsk, AnswersByGet, AnswersByGiveUp
      DEF ConsoleNext
  <1>2. CASE UNCHANGED consoleVars
    BY <1>2
    DEF consoleVars, ConsoleTypes, Busy, AnswerInv, Waits, NotAsked, Answers, AnswerIsFresh,
        BoxedIfWaited
  <1>. QED
    BY <1>1, <1>2 DEF Next, allVars

\* A result is stored before anything else is done with an answer, and stays.
ResultsKept ==
    \A m \in Answer : answer[m] \in {"stored", "seen", "done"} => m[1] \in results

LEMMA ResultsKeptNext == ConsoleTypes /\ ResultsKept /\ [Next]_allVars => ResultsKept'
  <1>. SUFFICES ASSUME ConsoleTypes, ResultsKept, [Next]_allVars
                PROVE  ResultsKept'
    OBVIOUS
  <1>1. CASE UNCHANGED <<answer, results>>
    BY <1>1 DEF ResultsKept
  <1>2. ASSUME NEW m \in Answer, Arrive(m) \/ Store(m) \/ Check(m) \/ PutAnswer(m)
        PROVE  ResultsKept'
    <2>1. /\ \A n \in Answer \ {m} : answer'[n] = answer[n]
          /\ results \subseteq results'
          /\ answer'[m] = "back" \/ m[1] \in results'
      BY <1>2 DEF Arrive, Store, Check, PutAnswer, ConsoleTypes, ResultsKept
    <2>. QED
      BY <2>1 DEF ResultsKept
  <1>. QED
    BY <1>1, <1>2
    DEF Next, allVars, consoleVars, ConsoleNext, Ask, Send, SendFails, SendChat, Get, GiveUp

LEMMA ConsoleHolds == Spec => [](ConsoleTypes /\ AnswerInv /\ ResultsKept)
  <1>1. ConsoleInit => ResultsKept
    BY DEF ConsoleInit, ResultsKept
  <1>. QED
    BY <1>1, ConsoleInitially, ConsoleKept, ResultsKeptNext, PTL DEF Spec, Init

\* Types of the console and of the stream; the dispatcher's and the viewers' queues keep
\* their bounds, and no more answers are handled at a time than the pool has threads.
THEOREM TypeCorrect == Spec => []TypeOK
  <1>1. StreamInv => StreamTypeOK
    BY DEF StreamInv, StreamTypes, StreamTypeOK
  <1>2. ConsoleTypes /\ StreamTypeOK => TypeOK
    BY DEF ConsoleTypes, TypeOK
  <1>. QED
    BY <1>1, <1>2, StreamHolds, ConsoleHolds, PTL

\* The terminal never gets an answer that was dealt with before it asked, and no answer is
\* given to two questions, with any number of chats between, answers to each task, sends
\* that raise, and threads that hold answers back (send_and_wait, handle_task).
THEOREM AnswersAreFresh == Spec => []AnswerIsFresh
  <1>1. AnswerInv => AnswerIsFresh
    BY DEF AnswerInv
  <1>. QED
    BY <1>1, ConsoleHolds, PTL

\* An answer that has been dealt with has left a result under its task's id, and if the
\* terminal waits for that task, there is something in the queue that is waited at, with any
\* number of threads, of questions that fail and of answers to each (handle_task).
THEOREM AnswersAreNotMissed == Spec => []AnswerNotMissed
  <1>1. AnswerInv /\ ResultsKept => AnswerNotMissed
    BY DEF AnswerInv, BoxedIfWaited, ResultsKept, AnswerNotMissed
  <1>. QED
    BY <1>1, ConsoleHolds, PTL
=============================================================================
