---------------------------- MODULE Memory_proofs ----------------------------
(***************************************************************************)
(* Theorems about Memory, for any bots of both generations, any window,    *)
(* any number of messages and of crashes.                                  *)
(***************************************************************************)
EXTENDS Memory, SequenceTheorems, TLAPS

-----------------------------------------------------------------------------
(* Strengthenings, by name.                                                *)

\* A history that ends without a newline has a last line; a session has no file.
Endings ==
    \A b \in Bot : /\ tail[b] = "open" => hist[b] # <<>>
                   /\ b \in V2 => tail[b] = "clean"

TypeInv ==
    /\ TypeOK
    /\ hist \in [Bot -> Seq(Msg)] /\ count \in [Bot -> Nat]
    /\ summaries \in [Bot -> Seq(SUBSET Msg)] /\ blank \in [Bot -> SUBSET Msg]
    /\ Endings

\* What has been in a summary, though a later one may have overwritten it.
Ever(b) == Summarised(b) \cup replaced[b]

\* Nothing a legacy bot got is forgotten, whether it runs or not: the summaries make up for
\* what the history has lost, even if no knowledge file can be read.
Remembered(b) == 1..made[b] \subseteq Ever(b) \cup ToSet(hist[b]) \cup torn[b] \cup blank[b]

\* The first half of a long session is in the summaries already.
LongIsSummarised(b) ==
    Len(hist[b]) >= Threshold => ToSet(Old(hist[b])) \subseteq Ever(b) \cup blank[b]

\* The knowledge files hold what a summary holds.
SummarisedFirst(b) == Loaded(kb[b]) \cup Loaded(world[b]) \subseteq Ever(b)

\* As long as nothing has crashed, the knowledge base holds all that any summary held.
KnownAll == crashes = 0 => \A b \in Bot : ~kb[b].torn /\ Ever(b) \subseteq kb[b].items

MemoryInv ==
    /\ \A b \in V1 : Remembered(b)
    /\ \A b \in V2 \cap up : LongIsSummarised(b)
    /\ \A b \in Bot : SummarisedFirst(b)

-----------------------------------------------------------------------------
(* Operators.                                                              *)

Increasing(s) == \A i, j \in DOMAIN s : i < j => s[i] < s[j]

\* s is a stretch of h.
Stretch(h, s) == \E m \in Nat : m + Len(s) <= Len(h) /\ \A i \in 1..Len(s) : s[i] = h[m + i]

LEMMA Joined ==
    ASSUME NEW S, NEW s \in Seq(S), NEW t \in Seq(S), NEW n, n = Len(s), NEW k, k = Len(t)
    PROVE  /\ s \o t \in Seq(S) /\ Len(s \o t) = n + k
           /\ \A i \in 1..n : (s \o t)[i] = s[i]
           /\ \A i \in 1..k : (s \o t)[n + i] = t[i]
  <1>1. n \in Nat /\ k \in Nat
    OBVIOUS
  <1>2. /\ s \o t \in Seq(S) /\ Len(s \o t) = n + k
        /\ \A i \in 1..(n + k) : (s \o t)[i] = IF i <= n THEN s[i] ELSE t[i - n]
    BY ConcatProperties
  <1>3. \A i \in 1..n : i \in 1..(n + k) /\ i <= n
    BY <1>1
  <1>4. \A i \in 1..k : n + i \in 1..(n + k) /\ ~(n + i <= n) /\ n + i - n = i
    BY <1>1
  <1>. QED
    BY <1>2, <1>3, <1>4

LEMMA JoinedElements ==
    ASSUME NEW S, NEW s \in Seq(S), NEW t \in Seq(S)
    PROVE  ToSet(s \o t) = ToSet(s) \cup ToSet(t)
  <1>1. PICK n, k : n = Len(s) /\ k = Len(t)
    OBVIOUS
  <1>2. /\ n \in Nat /\ k \in Nat /\ Len(s \o t) = n + k
        /\ \A i \in 1..n : (s \o t)[i] = s[i]
        /\ \A i \in 1..k : (s \o t)[n + i] = t[i]
    BY <1>1, Joined
  <1>3. ToSet(s \o t) \subseteq ToSet(s) \cup ToSet(t)
    <2>1. SUFFICES ASSUME NEW i \in 1..(n + k)
                   PROVE  (s \o t)[i] \in ToSet(s) \cup ToSet(t)
      BY <1>2 DEF ToSet
    <2>2. CASE i \in 1..n
      BY <1>1, <1>2, <2>2 DEF ToSet
    <2>3. CASE i \notin 1..n
      <3>1. i - n \in 1..k /\ n + (i - n) = i
        BY <1>2, <2>3
      <3>2. (s \o t)[i] = t[i - n]
        BY <1>2, <3>1
      <3>. QED
        BY <1>1, <3>1, <3>2 DEF ToSet
    <2>. QED
      BY <2>2, <2>3
  <1>4. ToSet(s) \cup ToSet(t) \subseteq ToSet(s \o t)
    <2>1. ToSet(s \o t) = {(s \o t)[j] : j \in 1..(n + k)}
      BY <1>2 DEF ToSet
    <2>2. ASSUME NEW i \in 1..n
          PROVE  s[i] \in ToSet(s \o t)
      <3>1. i \in 1..(n + k) /\ (s \o t)[i] = s[i]
        BY <1>2
      <3>. QED
        BY <2>1, <3>1
    <2>3. ASSUME NEW i \in 1..k
          PROVE  t[i] \in ToSet(s \o t)
      <3>1. n + i \in 1..(n + k) /\ (s \o t)[n + i] = t[i]
        BY <1>2
      <3>. QED
        BY <2>1, <3>1
    <2>. QED
      BY <1>1, <2>2, <2>3 DEF ToSet
  <1>. QED
    BY <1>3, <1>4

LEMMA StretchFromStart ==
    ASSUME NEW h, NEW s \in Seq(Nat), NEW n \in Nat, n = Len(s), Len(h) \in Nat, n <= Len(h),
           \A i \in 1..n : s[i] = h[i]
    PROVE  Stretch(h, s)
  <1>1. PICK z \in Nat : z = 0
    OBVIOUS
  <1>2. z + n <= Len(h) /\ \A i \in 1..n : z + i = i
    BY <1>1
  <1>. QED
    BY <1>2 DEF Stretch

\* A stretch of a sequence has elements of it, in its order.
LEMMA StretchOf ==
    ASSUME NEW h \in Seq(Nat), NEW s \in Seq(Nat), Stretch(h, s)
    PROVE  /\ ToSet(s) \subseteq ToSet(h) /\ Len(s) <= Len(h)
           /\ Increasing(h) => Increasing(s)
  <1>1. PICK m \in Nat : m + Len(s) <= Len(h) /\ \A i \in 1..Len(s) : s[i] = h[m + i]
    BY DEF Stretch
  <1>2. Len(s) \in Nat /\ Len(h) \in Nat /\ DOMAIN s = 1..Len(s) /\ DOMAIN h = 1..Len(h)
    OBVIOUS
  <1>3. \A i \in 1..Len(s) : m + i \in 1..Len(h)
    BY <1>1, <1>2
  <1>4. Len(s) <= Len(h)
    BY <1>1, <1>2
  <1>5. ToSet(s) \subseteq ToSet(h)
    BY <1>1, <1>3 DEF ToSet
  <1>6. ASSUME Increasing(h)
        PROVE  Increasing(s)
    <2>1. SUFFICES ASSUME NEW i \in 1..Len(s), NEW j \in 1..Len(s), i < j
                   PROVE  s[i] < s[j]
      BY <1>2 DEF Increasing
    <2>2. m + i \in 1..Len(h) /\ m + j \in 1..Len(h) /\ m + i < m + j
      BY <1>3, <2>1
    <2>3. h[m + i] < h[m + j]
      BY <1>2, <1>6, <2>2 DEF Increasing
    <2>. QED
      BY <1>1, <2>3
  <1>. QED
    BY <1>4, <1>5, <1>6

\* The two halves are sequences, the second is a stretch, and nothing is between them.
LEMMA Halves ==
    ASSUME NEW S, NEW h \in Seq(S)
    PROVE  /\ Old(h) \in Seq(S) /\ New(h) \in Seq(S)
           /\ ToSet(h) = ToSet(Old(h)) \cup ToSet(New(h))
           /\ Stretch(h, New(h)) /\ Len(New(h)) \in Nat
           /\ Len(h) < 2 => ToSet(Old(h)) = {}
  <1>1. PICK n : n = Len(h)
    OBVIOUS
  <1>2. PICK q : q = n \div 2
    OBVIOUS
  <1>3. n \in Nat /\ q \in Nat /\ q <= n /\ (n < 2 => q = 0)
    BY <1>1, <1>2
  <1>4. /\ Old(h) \in Seq(S) /\ Len(Old(h)) = q
        /\ \A i \in 1..q : Old(h)[i] = h[i]
    <2>1. \A i \in 1..q : h[i] \in S
      BY <1>1, <1>3
    <2>2. Old(h) = SubSeq(h, 1, q)
      BY <1>1, <1>2 DEF Old
    <2>3. /\ SubSeq(h, 1, q) \in Seq(S)
          /\ Len(SubSeq(h, 1, q)) = IF 1 <= q THEN q - 1 + 1 ELSE 0
          /\ \A i \in 1..(q - 1 + 1) : SubSeq(h, 1, q)[i] = h[1 + i - 1]
      BY <1>3, <2>1, SubSeqProperties
    <2>. QED
      BY <1>3, <2>2, <2>3
  <1>5. /\ New(h) \in Seq(S) /\ Len(New(h)) = n - q
        /\ \A i \in 1..(n - q) : New(h)[i] = h[q + i]
    <2>1. \A i \in (q + 1)..n : h[i] \in S
      BY <1>1, <1>3
    <2>2. New(h) = SubSeq(h, q + 1, n)
      BY <1>1, <1>2 DEF New
    <2>3. /\ SubSeq(h, q + 1, n) \in Seq(S)
          /\ Len(SubSeq(h, q + 1, n)) = IF q + 1 <= n THEN n - (q + 1) + 1 ELSE 0
          /\ \A i \in 1..(n - (q + 1) + 1) : SubSeq(h, q + 1, n)[i] = h[q + 1 + i - 1]
      BY SMTT(30), <1>3, <2>1, SubSeqProperties
    <2>4. n - (q + 1) + 1 = n - q /\ \A i \in 1..(n - q) : q + 1 + i - 1 = q + i
      BY <1>3
    <2>. QED
      BY <1>3, <2>2, <2>3, <2>4
  <1>6. Stretch(h, New(h))
    <2>1. q + Len(New(h)) <= Len(h)
      BY <1>1, <1>3, <1>5
    <2>2. \A i \in 1..Len(New(h)) : New(h)[i] = h[q + i]
      BY <1>5
    <2>. QED
      BY <1>3, <2>1, <2>2 DEF Stretch
  <1>7. ToSet(h) \subseteq ToSet(Old(h)) \cup ToSet(New(h))
    <2>1. SUFFICES ASSUME NEW i \in 1..n
                   PROVE  h[i] \in ToSet(Old(h)) \cup ToSet(New(h))
      BY <1>1 DEF ToSet
    <2>2. CASE i <= q
      <3>1. i \in 1..q
        BY <1>3, <2>2
      <3>. QED
        BY <1>4, <3>1 DEF ToSet
    <2>3. CASE ~(i <= q)
      <3>1. i - q \in 1..(n - q) /\ q + (i - q) = i
        BY <1>3, <2>3
      <3>2. New(h)[i - q] = h[i]
        BY <1>5, <3>1
      <3>. QED
        BY <1>5, <3>1, <3>2 DEF ToSet
    <2>. QED
      BY <2>2, <2>3
  <1>8. ToSet(Old(h)) \cup ToSet(New(h)) \subseteq ToSet(h)
    <2>1. \A i \in 1..q : i \in 1..n
      BY <1>3
    <2>2. \A i \in 1..(n - q) : q + i \in 1..n
      BY <1>3
    <2>. QED
      BY <1>1, <1>4, <1>5, <2>1, <2>2 DEF ToSet
  <1>9. Len(h) < 2 => ToSet(Old(h)) = {}
    BY <1>1, <1>3, <1>4 DEF ToSet
  <1>. QED
    BY <1>3, <1>4, <1>5, <1>6, <1>7, <1>8, <1>9

\* What is left of the second half when a write is cut short.
LEMMA Prefixes ==
    ASSUME NEW S, NEW h \in Seq(S), NEW i \in 0..Len(New(h))
    PROVE  SubSeq(New(h), 1, i) \in Seq(S) /\ Stretch(h, SubSeq(New(h), 1, i))
  <1>1. PICK n : n = Len(New(h))
    OBVIOUS
  <1>2. New(h) \in Seq(S) /\ n \in Nat /\ i \in 0..n
    BY <1>1, Halves
  <1>3. \A j \in 1..i : New(h)[j] \in S
    BY <1>1, <1>2
  <1>4. /\ SubSeq(New(h), 1, i) \in Seq(S)
        /\ Len(SubSeq(New(h), 1, i)) = IF 1 <= i THEN i - 1 + 1 ELSE 0
        /\ \A j \in 1..(i - 1 + 1) : SubSeq(New(h), 1, i)[j] = New(h)[1 + j - 1]
    <2>1. i \in Int /\ 1 \in Int
      BY <1>2
    <2>. QED
      BY <1>3, <2>1, SubSeqProperties
  <1>5. Len(SubSeq(New(h), 1, i)) = i /\ \A j \in 1..i : SubSeq(New(h), 1, i)[j] = New(h)[j]
    BY <1>2, <1>4
  <1>6. PICK m \in Nat : m + n <= Len(h) /\ \A j \in 1..n : New(h)[j] = h[m + j]
    <2>1. Stretch(h, New(h))
      BY Halves
    <2>. QED
      BY <1>1, <2>1 DEF Stretch
  <1>7. m + i <= Len(h) /\ \A j \in 1..i : j \in 1..n
    BY <1>2, <1>6
  <1>. QED
    BY <1>4, <1>5, <1>6, <1>7 DEF Stretch

\* Appending to a summary file adds its points.
LEMMA AppendedPoints ==
    ASSUME NEW S, NEW s \in Seq(S), NEW p \in S
    PROVE  Append(s, p) \in Seq(S) /\ ToSet(Append(s, p)) = ToSet(s) \cup {p}
  <1>1. PICK n : n = Len(s)
    OBVIOUS
  <1>2. /\ n \in Nat /\ Append(s, p) \in Seq(S) /\ Len(Append(s, p)) = n + 1
        /\ \A i \in 1..n : Append(s, p)[i] = s[i]
        /\ Append(s, p)[n + 1] = p
    BY <1>1, AppendProperties
  <1>3. 1..(n + 1) = 1..n \cup {n + 1}
    BY <1>2
  <1>. QED
    BY <1>1, <1>2, <1>3 DEF ToSet

\* The summaries that stay beside a new one.
LEMMA BesideIsPart ==
    ASSUME NEW S, NEW s \in Seq(S), NEW t \in Beside(s)
    PROVE  t \in Seq(S) /\ ToSet(t) \subseteq ToSet(s)
  <1>1. CASE t = s
    BY <1>1
  <1>2. CASE t = SubSeq(s, 1, Len(s) - 1)
    <2>1. PICK n : n = Len(s)
      OBVIOUS
    <2>2. n \in Nat /\ 1 \in Int /\ n - 1 \in Int /\ \A i \in 1..(n - 1) : s[i] \in S
      BY <2>1
    <2>3. /\ SubSeq(s, 1, n - 1) \in Seq(S)
          /\ Len(SubSeq(s, 1, n - 1)) = IF 1 <= n - 1 THEN n - 1 - 1 + 1 ELSE 0
          /\ \A i \in 1..(n - 1 - 1 + 1) : SubSeq(s, 1, n - 1)[i] = s[1 + i - 1]
      BY <2>2, SubSeqProperties
    <2>4. /\ t \in Seq(S) /\ Len(t) \in Nat /\ Len(t) <= n
          /\ \A i \in 1..Len(t) : t[i] = s[i]
      BY <1>2, <2>1, <2>2, <2>3
    <2>5. \A i \in 1..Len(t) : i \in 1..Len(s)
      BY <2>1, <2>2, <2>4
    <2>. QED
      BY <2>4, <2>5 DEF ToSet
  <1>. QED
    BY <1>1, <1>2 DEF Beside

\* The stages of a compression: what is cut, or written to a knowledge file, is in a summary.
LEMMA SummaryComesFirst ==
    ASSUME NEW b \in Bot, NEW n \in Nat
    PROVE  /\ \A stage \in {"history", "world", "kb", "marker"} :
                Reached(b, stage, n) # "none" => Reached(b, "summary", n) = "done"
           /\ b \in V2 => \A stage \in {"history", "world", "marker"} :
                                Reached(b, stage, n) = "none"
           /\ n > Len(Stages(b)) => Reached(b, "summary", n) = "done"
  <1>1. /\ DOMAIN Stages(b) \in {1..5, 1..2} /\ Stages(b)[1] = "summary"
        /\ Len(Stages(b)) >= 1 /\ Len(Stages(b)) \in Nat
        /\ \A i \in DOMAIN Stages(b) : i # 1 => Stages(b)[i] # "summary"
        /\ b \in V2 => \A i \in DOMAIN Stages(b) : Stages(b)[i] \in {"summary", "kb"}
    <2>1. CASE b \in V1
      <3>1. Stages(b) = <<"summary", "history", "world", "kb", "marker">> /\ b \notin V2
        BY <2>1, MemoryAssumption DEF Stages
      <3>. QED
        BY <3>1
    <2>2. CASE b \notin V1
      <3>1. Stages(b) = <<"summary", "kb">>
        BY <2>2 DEF Stages
      <3>. QED
        BY <3>1
    <2>. QED
      BY <2>1, <2>2
  <1>2. Reached(b, "summary", n) = IF 1 < n THEN "done" ELSE IF 1 = n THEN "partly" ELSE "none"
    <2>1. 1 \in DOMAIN Stages(b)
      BY <1>1
    <2>2. (CHOOSE j \in DOMAIN Stages(b) : Stages(b)[j] = "summary") = 1
      BY <1>1, <2>1
    <2>. QED
      BY <1>1, <2>1, <2>2 DEF Reached
  <1>3. ASSUME NEW stage \in {"history", "world", "kb", "marker"},
               Reached(b, stage, n) # "none"
        PROVE  1 < n
    <2>1. \E i \in DOMAIN Stages(b) : Stages(b)[i] = stage
      BY <1>3 DEF Reached
    <2>2. PICK i : i = CHOOSE j \in DOMAIN Stages(b) : Stages(b)[j] = stage
      OBVIOUS
    <2>3. i \in DOMAIN Stages(b) /\ Stages(b)[i] = stage
      BY <2>1, <2>2
    <2>4. Reached(b, stage, n) = IF i < n THEN "done" ELSE IF i = n THEN "partly" ELSE "none"
      BY <2>1, <2>2 DEF Reached
    <2>5. i \in Nat /\ i >= 1 /\ i # 1
      BY <1>1, <2>3
    <2>6. i <= n
      BY <1>3, <2>4, <2>5
    <2>. QED
      BY <2>5, <2>6
  <1>4. ASSUME b \in V2, NEW stage \in {"history", "world", "marker"}
        PROVE  Reached(b, stage, n) = "none"
    BY <1>1, <1>4 DEF Reached
  <1>5. n > Len(Stages(b)) => 1 < n
    BY <1>1
  <1>. QED
    BY <1>2, <1>3, <1>4, <1>5


-----------------------------------------------------------------------------
(* What the steps do.                                                      *)

LEMMA MsgIsNat == Msg \subseteq Nat /\ MaxMsgs \in Nat /\ Threshold \in Nat /\ Overhead \in Nat
  BY MemoryAssumption DEF Msg

\* The history with the messages that come: the new ones follow, and what cannot be read
\* any more is accounted for.
LEMMA LongerIs ==
    ASSUME TypeInv, NEW b \in Bot, made[b] + Coming(b) <= MaxMsgs
    PROVE  /\ Longer(b) \in Seq(1..(made[b] + Coming(b))) /\ Longer(b) \in Seq(Msg)
           /\ Following(b) \in Seq(Msg) /\ ToSet(Following(b)) \subseteq Msg
           /\ Unread(b) \subseteq Msg
           /\ ToSet(hist[b]) \cup ToSet(Following(b)) \subseteq ToSet(Longer(b)) \cup Unread(b)
           /\ 1..(made[b] + Coming(b)) \subseteq 1..made[b] \cup ToSet(Following(b))
           /\ b \in V1 => Increasing(Longer(b)) /\ Len(Longer(b)) <= Len(hist[b]) + 1
           /\ tail[b] = "clean" => Longer(b) # <<>>
           /\ tail[b] = "open" => Len(Readable(b)) <= Len(hist[b])
           /\ Readable(b) \in Seq(1..made[b])
           /\ b \in V1 => Increasing(Readable(b)) /\ Len(Readable(b)) <= Len(hist[b])
  <1>1. PICK n, k, m : n = Len(hist[b]) /\ k = Coming(b) /\ m = made[b]
    OBVIOUS
  <1>2. /\ n \in Nat /\ k \in {1, 2} /\ m \in Nat /\ m + k <= MaxMsgs /\ MaxMsgs \in Nat
        /\ hist[b] \in Seq(1..m) /\ hist[b] \in Seq(Msg)
    BY <1>1, MsgIsNat DEF TypeInv, TypeOK, Coming
  <1>3. (b \in V1 => k = 1) /\ 1..(m + k) \subseteq Msg /\ 1..m \subseteq 1..(m + k)
    BY <1>1, <1>2 DEF Coming, Msg
  <1>4. /\ Following(b) \in Seq(1..(m + k)) /\ Len(Following(b)) = k
        /\ \A i \in 1..k : Following(b)[i] = m + i
    <2>1. Following(b) = [i \in 1..k |-> m + i]
      BY <1>1 DEF Following
    <2>2. \A i \in 1..k : m + i \in 1..(m + k)
      BY <1>2
    <2>. QED
      BY <1>2, <2>1, <2>2
  <1>5. Readable(b) \in Seq(1..m) /\ Len(Readable(b)) <= n /\ Stretch(hist[b], Readable(b))
    <2>1. CASE tail[b] = "open"
      <3>1. n > 0
        BY <1>1, <1>2, <2>1, EmptySeq DEF TypeInv, Endings
      <3>2. Readable(b) = SubSeq(hist[b], 1, n - 1)
        BY <1>1, <2>1 DEF Readable
      <3>3. /\ SubSeq(hist[b], 1, n - 1) \in Seq(1..m)
            /\ Len(SubSeq(hist[b], 1, n - 1)) = IF 1 <= n - 1 THEN n - 1 - 1 + 1 ELSE 0
            /\ \A i \in 1..(n - 1 - 1 + 1) : SubSeq(hist[b], 1, n - 1)[i] = hist[b][1 + i - 1]
        <4>1. \A i \in 1..(n - 1) : hist[b][i] \in 1..m
          BY SMTT(30), <1>1, <1>2
        <4>2. 1 \in Int /\ n - 1 \in Int
          BY <1>2
        <4>. QED
          BY <4>1, <4>2, SubSeqProperties
      <3>4. /\ Readable(b) \in Seq(1..m) /\ Len(Readable(b)) = n - 1
            /\ \A i \in 1..(n - 1) : Readable(b)[i] = hist[b][i]
        BY <1>2, <3>1, <3>2, <3>3
      <3>5. n - 1 \in Nat /\ n - 1 <= n /\ Readable(b) \in Seq(Nat)
        BY <1>2, <3>1, <3>4, SeqMonotonic
      <3>6. Stretch(hist[b], Readable(b))
        BY <1>1, <3>4, <3>5, <1>2, StretchFromStart
      <3>. QED
        BY <3>4, <3>5, <3>6
    <2>2. CASE tail[b] # "open"
      <3>1. Readable(b) = hist[b]
        BY <2>2 DEF Readable
      <3>2. n <= n /\ hist[b] \in Seq(Nat)
        BY <1>2
      <3>3. Stretch(hist[b], hist[b])
        BY <1>1, <1>2, <3>2, StretchFromStart
      <3>. QED
        BY <1>1, <1>2, <3>1, <3>2, <3>3
    <2>. QED
      BY <2>1, <2>2
  <1>6. b \in V1 => Increasing(hist[b]) /\ Increasing(Readable(b))
    <2>1. hist[b] \in Seq(Nat) /\ Readable(b) \in Seq(Nat)
      BY <1>2, <1>5
    <2>2. b \in V1 => Increasing(hist[b])
      BY DEF TypeInv, TypeOK, Increasing
    <2>. QED
      BY <1>5, <2>1, <2>2, StretchOf
  <1>7. /\ Longer(b) \in Seq(1..(m + k))
        /\ b \in V1 => Increasing(Longer(b)) /\ Len(Longer(b)) <= n + 1
        /\ tail[b] = "clean" => Longer(b) # <<>>
    <2>1. CASE tail[b] = "clean"
      <3>1. Longer(b) = hist[b] \o Following(b)
        BY <2>1 DEF Longer
      <3>2. /\ hist[b] \o Following(b) \in Seq(1..(m + k))
            /\ Len(hist[b] \o Following(b)) = n + k
            /\ \A i \in 1..n : (hist[b] \o Following(b))[i] = hist[b][i]
            /\ \A i \in 1..k : (hist[b] \o Following(b))[n + i] = Following(b)[i]
        <4>1. hist[b] \in Seq(1..(m + k))
          BY <1>2, <1>3, SeqMonotonic
        <4>2. PICK S : S = 1..(m + k)
          OBVIOUS
        <4>3. hist[b] \in Seq(S) /\ Following(b) \in Seq(S)
          BY <1>4, <4>1, <4>2
        <4>4. n = Len(hist[b]) /\ k = Len(Following(b))
          BY <1>1, <1>4
        <4>5. /\ hist[b] \o Following(b) \in Seq(S)
              /\ Len(hist[b] \o Following(b)) = n + k
              /\ \A i \in 1..n : (hist[b] \o Following(b))[i] = hist[b][i]
              /\ \A i \in 1..k : (hist[b] \o Following(b))[n + i] = Following(b)[i]
          BY <4>3, <4>4, Joined
        <4>. QED
          BY <4>2, <4>5
      <3>3. Longer(b) # <<>>
        BY <1>2, <3>1, <3>2
      <3>4. ASSUME b \in V1
            PROVE  Increasing(Longer(b))
        <4>1. k = 1 /\ Increasing(hist[b]) /\ \A i \in 1..n : hist[b][i] <= m
          BY <1>1, <1>2, <1>3, <1>6, <3>4
        <4>2. Longer(b)[n + 1] = m + 1 /\ \A i \in 1..n : Longer(b)[i] = hist[b][i]
          <5>1. 1 \in 1..k /\ k = 1
            BY <4>1
          <5>2. Following(b)[1] = m + 1 /\ (hist[b] \o Following(b))[n + 1] = Following(b)[1]
            BY <1>4, <3>2, <5>1
          <5>. QED
            BY <3>1, <3>2, <5>2
        <4>3. DOMAIN Longer(b) = 1..(n + 1) /\ DOMAIN hist[b] = 1..n
          BY <1>1, <1>2, <3>1, <3>2, <4>1
        <4>4. SUFFICES ASSUME NEW i \in 1..(n + 1), NEW j \in 1..(n + 1), i < j
                       PROVE  Longer(b)[i] < Longer(b)[j]
          BY <4>3 DEF Increasing
        <4>5. i \in 1..n /\ hist[b][i] \in 1..m
          <5>1. i \in 1..n
            BY <1>2, <4>4
          <5>2. i \in 1..Len(hist[b])
            BY <1>1, <5>1
          <5>. QED
            BY <1>2, <5>1, <5>2, ElementOfSeq
        <4>6. CASE j = n + 1
          BY <1>2, <4>1, <4>2, <4>5, <4>6
        <4>7. CASE j # n + 1
          <5>1. j \in 1..n
            BY <1>2, <4>7
          <5>. QED
            BY <4>1, <4>2, <4>3, <4>4, <4>5, <5>1 DEF Increasing
        <4>. QED
          BY <4>6, <4>7
      <3>. QED
        BY <1>2, <1>3, <3>1, <3>2, <3>3, <3>4
    <2>2. CASE tail[b] # "clean"
      <3>1. Longer(b) = Readable(b)
        BY <2>2 DEF Longer
      <3>2. Readable(b) \in Seq(1..(m + k))
        BY <1>3, <1>5, SeqMonotonic
      <3>. QED
        BY <1>2, <1>5, <1>6, <2>2, <3>1, <3>2
    <2>. QED
      BY <2>1, <2>2
  <1>8. ToSet(Following(b)) \subseteq Msg /\ ToSet(hist[b]) \subseteq Msg
    BY <1>2, <1>3, <1>4 DEF ToSet
  <1>9. 1..(m + k) \subseteq 1..m \cup ToSet(Following(b))
    <2>1. SUFFICES ASSUME NEW i \in 1..(m + k), i \notin 1..m
                   PROVE  i \in ToSet(Following(b))
      OBVIOUS
    <2>2. i - m \in 1..k /\ m + (i - m) = i
      BY <1>2, <2>1
    <2>. QED
      BY <1>4, <2>2 DEF ToSet
  <1>10. Longer(b) \in Seq(Msg) /\ Following(b) \in Seq(Msg)
    BY <1>3, <1>4, <1>7, SeqMonotonic
  <1>11. Unread(b) \subseteq Msg
    BY <1>8 DEF Unread
  <1>12. ToSet(hist[b]) \cup ToSet(Following(b)) \subseteq ToSet(Longer(b)) \cup Unread(b)
    BY DEF Unread
  <1>. QED
    BY <1>1, <1>5, <1>6, <1>7, <1>8, <1>9, <1>10, <1>11, <1>12


\* Compressing saves: the points are in the summaries before they are anywhere else, or
\* before anything is cut, and the summaries of the others stay.
LEMMA CompressSaves ==
    ASSUME TypeInv, NEW b \in Bot, NEW h \in Seq(Msg), NEW n \in Nat, NEW p \in SUBSET Msg,
           Compress(b, h, p, n)
    PROVE  /\ summaries' \in [Bot -> Seq(SUBSET Msg)] /\ blank' \in [Bot -> SUBSET Msg]
           /\ replaced' \in [Bot -> SUBSET Msg]
           /\ \A c \in Bot : Ever(c) \subseteq Ever(c)' /\ blank[c] \subseteq blank'[c]
           /\ \A c \in Bot : c # b => Ever(c)' = Ever(c)
           /\ Ever(b)' \subseteq Ever(b) \cup p
           /\ Reached(b, "summary", n) = "none" => Ever(b)' = Ever(b)
           /\ \A stage \in {"history", "world", "kb", "marker"} :
                Reached(b, stage, n) # "none" => p \subseteq Ever(b)'
           /\ n > Len(Stages(b)) => p \subseteq Ever(b)'
           /\ b \in V2 \/ Reached(b, "history", n) # "none" =>
                ToSet(Old(h)) \ p \subseteq blank'[b]
  <1>1. /\ summaries \in [Bot -> Seq(SUBSET Msg)] /\ blank \in [Bot -> SUBSET Msg]
        /\ ToSet(Old(h)) \subseteq Msg
    <2>1. Old(h) \in Seq(Msg)
      BY Halves
    <2>. QED
      BY <2>1 DEF TypeInv, ToSet
  <1>2. PICK t \in Beside(summaries[b]) :
            summaries' = [summaries EXCEPT
                ![b] = CASE Reached(b, "summary", n) = "done" -> Append(t, p)
                         [] Reached(b, "summary", n) = "partly" -> t
                         [] OTHER -> @]
    BY DEF Compress
  <1>3. t \in Seq(SUBSET Msg) /\ ToSet(t) \subseteq ToSet(summaries[b])
    BY <1>1, BesideIsPart
  <1>4. /\ Append(t, p) \in Seq(SUBSET Msg)
        /\ ToSet(Append(t, p)) = ToSet(t) \cup {p}
    <2>1. PICK S : S = SUBSET Msg
      OBVIOUS
    <2>2. t \in Seq(S) /\ p \in S
      BY <1>3, <2>1
    <2>3. Append(t, p) \in Seq(S) /\ ToSet(Append(t, p)) = ToSet(t) \cup {p}
      BY <2>2, AppendedPoints
    <2>. QED
      BY <2>1, <2>3
  <1>5. PICK w : /\ summaries' = [summaries EXCEPT ![b] = w]
                 /\ w \in Seq(SUBSET Msg) /\ ToSet(w) \subseteq ToSet(summaries[b]) \cup {p}
                 /\ Reached(b, "summary", n) = "done" => p \in ToSet(w)
                 /\ Reached(b, "summary", n) = "none" => w = summaries[b]
    BY <1>1, <1>2, <1>3, <1>4
  <1>6. summaries' \in [Bot -> Seq(SUBSET Msg)]
    BY <1>1, <1>5
  <1>7. summaries'[b] = w /\ \A c \in Bot : c # b => summaries'[c] = summaries[c]
    BY <1>1, <1>5
  <1>13. \A c \in Bot : Summarised(c)' = UNION ToSet(summaries'[c])
    BY DEF Summarised, ToSet
  <1>14. replaced \in [Bot -> SUBSET Msg] /\ Summarised(b) \subseteq Msg
    <2>1. ToSet(summaries[b]) \subseteq SUBSET Msg
      <3>1. summaries[b] \in Seq(SUBSET Msg)
        BY <1>1
      <3>. QED
        BY <3>1 DEF ToSet
    <2>. QED
      BY <2>1 DEF Summarised, TypeInv, TypeOK
  <1>15. replaced' = [replaced EXCEPT ![b] = @ \cup (Summarised(b) \ Summarised(b)')]
    BY DEF Compress
  <1>16. /\ replaced' \in [Bot -> SUBSET Msg]
         /\ replaced'[b] = replaced[b] \cup (Summarised(b) \ Summarised(b)')
         /\ \A c \in Bot : c # b => replaced'[c] = replaced[c]
    BY <1>14, <1>15
  <1>17. \A c \in Bot : Ever(c)' = Summarised(c)' \cup replaced'[c]
    BY DEF Ever
  <1>8. \A c \in Bot : Ever(c) \subseteq Ever(c)' /\ (c # b => Ever(c)' = Ever(c))
    <2>1. Ever(b) \subseteq Ever(b)'
      BY <1>16, <1>17 DEF Ever
    <2>2. \A c \in Bot : c # b => Ever(c)' = Ever(c)
      BY <1>7, <1>13, <1>16, <1>17 DEF Ever, Summarised
    <2>. QED
      BY <2>1, <2>2
  <1>18. Ever(b)' \subseteq Ever(b) \cup p
    <2>1. Summarised(b)' \subseteq Summarised(b) \cup p
      BY <1>5, <1>7, <1>13 DEF Summarised
    <2>. QED
      BY <1>16, <1>17, <2>1 DEF Ever
  <1>19. Reached(b, "summary", n) = "none" => Ever(b)' = Ever(b)
    BY <1>5, <1>7, <1>13, <1>16, <1>17 DEF Ever, Summarised
  <1>9. ASSUME Reached(b, "summary", n) = "done"
        PROVE  p \subseteq Ever(b)'
    <2>1. p \in ToSet(summaries'[b])
      BY <1>5, <1>7, <1>9
    <2>. QED
      BY <1>13, <1>17, <2>1
  <1>10. /\ \A stage \in {"history", "world", "kb", "marker"} :
                Reached(b, stage, n) # "none" => Reached(b, "summary", n) = "done"
         /\ n > Len(Stages(b)) => Reached(b, "summary", n) = "done"
    BY SummaryComesFirst
  <1>11. blank' = [blank EXCEPT
            ![b] = IF b \in V2 \/ Reached(b, "history", n) # "none" THEN @ \cup (ToSet(Old(h)) \ p)
                   ELSE @]
    BY DEF Compress
  <1>12. /\ blank' \in [Bot -> SUBSET Msg] /\ \A c \in Bot : blank[c] \subseteq blank'[c]
         /\ b \in V2 \/ Reached(b, "history", n) # "none" => ToSet(Old(h)) \ p \subseteq blank'[b]
    BY <1>1, <1>11
  <1>. QED
    BY <1>6, <1>8, <1>9, <1>10, <1>12, <1>16, <1>18, <1>19

\* What a knowledge file can come to hold.
LEMMA FilesWritten ==
    ASSUME NEW f \in File, NEW p \in SUBSET Msg, NEW g, g \in {Added(f, p)} \cup Partly(f, p)
    PROVE  g \in File /\ Loaded(g) \subseteq Loaded(f) \cup p
  <1>1. Loaded(f) \subseteq Msg
    BY DEF File, Loaded
  <1>2. CASE g = f
    BY <1>2
  <1>3. CASE \E t \in BOOLEAN, q \in SUBSET p : g = [torn |-> t, items |-> Loaded(f) \cup q]
    <2>1. PICK t \in BOOLEAN, q \in SUBSET p : g = [torn |-> t, items |-> Loaded(f) \cup q]
      BY <1>3
    <2>2. Loaded(f) \cup q \in SUBSET Msg
      BY <1>1
    <2>3. g \in File
      BY <2>1, <2>2 DEF File
    <2>4. Loaded(g) \subseteq Loaded(f) \cup q
      BY <2>1 DEF Loaded
    <2>. QED
      BY <2>3, <2>4
  <1>4. CASE g = Added(f, p)
    <2>1. g = [torn |-> FALSE, items |-> Loaded(f) \cup p]
      BY <1>4 DEF Added
    <2>2. FALSE \in BOOLEAN /\ p \in SUBSET p
      OBVIOUS
    <2>. QED
      BY <1>3, <2>1, <2>2
  <1>. QED
    BY <1>2, <1>3, <1>4 DEF Partly

\* Compressing writes to the knowledge files what the summaries hold already.
LEMMA CompressTeaches ==
    ASSUME TypeInv, NEW b \in Bot, NEW h \in Seq(Msg), NEW n \in Nat, NEW p \in SUBSET Msg,
           Compress(b, h, p, n)
    PROVE  /\ kb' \in [Bot -> File] /\ world' \in [Bot -> File]
           /\ \A c \in Bot : SummarisedFirst(c) => SummarisedFirst(c)'
  <1>1. kb \in [Bot -> File] /\ world \in [Bot -> File]
    BY DEF TypeInv, TypeOK
  <1>2. PICK f \in {kb[b]} \cup (IF Reached(b, "kb", n) # "none"
                                 THEN {Added(kb[b], p)} \cup Partly(kb[b], p) ELSE {}) :
            kb' = [kb EXCEPT ![b] = f]
    BY DEF Compress
  <1>3. PICK g \in {world[b]} \cup (IF Reached(b, "world", n) # "none"
                                    THEN {Added(world[b], p)} \cup Partly(world[b], p) ELSE {}) :
            world' = [world EXCEPT ![b] = g]
    BY DEF Compress
  <1>4. /\ \A c \in Bot : Ever(c) \subseteq Ever(c)'
        /\ \A stage \in {"world", "kb"} :
                Reached(b, stage, n) # "none" => p \subseteq Ever(b)'
    BY CompressSaves
  <1>5. /\ f \in File
        /\ \/ f = kb[b]
           \/ Loaded(f) \subseteq Loaded(kb[b]) \cup p /\ Reached(b, "kb", n) # "none"
    <2>1. CASE f = kb[b]
      BY <1>1, <2>1
    <2>2. CASE f # kb[b]
      <3>1. f \in {Added(kb[b], p)} \cup Partly(kb[b], p) /\ Reached(b, "kb", n) # "none"
        BY <2>2
      <3>2. f \in File /\ Loaded(f) \subseteq Loaded(kb[b]) \cup p
        BY <1>1, <3>1, FilesWritten
      <3>. QED
        BY <3>1, <3>2
    <2>. QED
      BY <2>1, <2>2
  <1>6. /\ g \in File
        /\ \/ g = world[b]
           \/ Loaded(g) \subseteq Loaded(world[b]) \cup p /\ Reached(b, "world", n) # "none"
    <2>1. CASE g = world[b]
      BY <1>1, <2>1
    <2>2. CASE g # world[b]
      <3>1. g \in {Added(world[b], p)} \cup Partly(world[b], p) /\ Reached(b, "world", n) # "none"
        BY <2>2
      <3>2. g \in File /\ Loaded(g) \subseteq Loaded(world[b]) \cup p
        BY <1>1, <3>1, FilesWritten
      <3>. QED
        BY <3>1, <3>2
    <2>. QED
      BY <2>1, <2>2
  <1>7. \A c \in Bot : Loaded(kb'[c]) \subseteq Loaded(kb[c]) \cup Ever(c)'
    BY <1>1, <1>2, <1>4, <1>5
  <1>8. \A c \in Bot : Loaded(world'[c]) \subseteq Loaded(world[c]) \cup Ever(c)'
    BY <1>1, <1>3, <1>4, <1>6
  <1>9. ASSUME NEW c \in Bot, SummarisedFirst(c)
        PROVE  SummarisedFirst(c)'
    <2>1. Loaded(kb[c]) \cup Loaded(world[c]) \subseteq Ever(c)
      BY <1>9 DEF SummarisedFirst
    <2>2. Loaded(kb'[c]) \cup Loaded(world'[c]) \subseteq Ever(c)'
      BY <1>4, <1>7, <1>8, <2>1
    <2>3. SummarisedFirst(c)' = (Loaded(kb'[c]) \cup Loaded(world'[c]) \subseteq Ever(c)')
      BY DEF SummarisedFirst, Loaded
    <2>. QED
      BY <2>2, <2>3
  <1>10. kb' \in [Bot -> File] /\ world' \in [Bot -> File]
    BY <1>1, <1>2, <1>3, <1>5, <1>6
  <1>. QED
    BY <1>9, <1>10

\* Compressing cuts at most the first half; of the rest, what is not in the history any more
\* is torn.
LEMMA CompressCuts ==
    ASSUME TypeInv, NEW b \in Bot, NEW h \in Seq(Msg), NEW n \in Nat, NEW p \in SUBSET Msg,
           Compress(b, h, p, n), Unread(b) \subseteq Msg
    PROVE  /\ hist' \in [Bot -> Seq(Msg)] /\ torn' \in [Bot -> SUBSET Msg]
           /\ tail' \in [Bot -> {"clean", "half", "open"}]
           /\ \A c \in Bot : c # b => hist'[c] = hist[c] /\ tail'[c] = tail[c]
           /\ \A c \in Bot : torn[c] \subseteq torn'[c]
           /\ Stretch(h, hist'[b]) /\ Unread(b) \subseteq torn'[b]
           /\ ToSet(h) \subseteq ToSet(hist'[b]) \cup torn'[b] \cup ToSet(Old(h))
           /\ Reached(b, "history", n) = "none" => hist'[b] = h
           /\ Endings'
  <1>1. /\ hist \in [Bot -> Seq(Msg)] /\ torn \in [Bot -> SUBSET Msg] /\ Endings
        /\ tail \in [Bot -> {"clean", "half", "open"}]
    BY DEF TypeInv, TypeOK
  <1>2. /\ New(h) \in Seq(Msg) /\ Stretch(h, New(h)) /\ ToSet(New(h)) \subseteq ToSet(h)
        /\ ToSet(h) = ToSet(Old(h)) \cup ToSet(New(h)) /\ Len(New(h)) \in Nat
        /\ ToSet(h) \subseteq Msg
    <2>1. /\ New(h) \in Seq(Msg) /\ Stretch(h, New(h)) /\ Len(New(h)) \in Nat
          /\ ToSet(h) = ToSet(Old(h)) \cup ToSet(New(h))
      BY Halves
    <2>2. \A i \in 1..Len(h) : h[i] \in Msg
      BY ElementOfSeq
    <2>3. ToSet(h) \subseteq Msg
      BY <2>2 DEF ToSet
    <2>. QED
      BY <2>1, <2>3
  <1>3. Stretch(h, h)
    <2>1. h \in Seq(Nat)
      BY MsgIsNat, SeqMonotonic
    <2>2. Len(h) \in Nat /\ Len(h) <= Len(h) /\ \A i \in 1..Len(h) : h[i] = h[i]
      BY <2>1
    <2>. QED
      BY <2>1, <2>2, StretchFromStart
  <1>4. PICK kept \in CASE Reached(b, "history", n) = "done" -> {New(h)}
                        [] Reached(b, "history", n) = "partly" ->
                              {SubSeq(New(h), 1, i) : i \in 0..Len(New(h))}
                        [] OTHER -> {h} :
            /\ hist' = [hist EXCEPT ![b] = kept]
            /\ torn' = [torn EXCEPT ![b] = @ \cup Unread(b) \cup (ToSet(New(h)) \ ToSet(kept))]
            /\ \E e \in CASE Reached(b, "marker", n) = "done" -> {"clean"}
                           [] Reached(b, "marker", n) = "partly" -> {"clean", "half"}
                           [] Reached(b, "history", n) = "partly" ->
                                {"clean"} \cup (IF kept = New(h) THEN {} ELSE {"half"})
                                         \cup (IF kept = <<>> THEN {} ELSE {"open"})
                           [] OTHER -> {IF b \in V1 THEN "clean" ELSE tail[b]} :
                    tail' = [tail EXCEPT ![b] = e]
    BY DEF Compress
  <1>5. kept \in Seq(Msg) /\ Stretch(h, kept)
    <2>1. CASE kept = New(h)
      BY <1>2, <2>1
    <2>2. CASE kept = h
      BY <1>3, <2>2
    <2>3. CASE \E i \in 0..Len(New(h)) : kept = SubSeq(New(h), 1, i)
      BY <2>3, Prefixes
    <2>. QED
      BY <1>4, <2>1, <2>2, <2>3
  <1>6. Reached(b, "history", n) = "none" => kept = h
    BY <1>4
  <1>7. hist' \in [Bot -> Seq(Msg)] /\ hist'[b] = kept /\ \A c \in Bot : c # b => hist'[c] = hist[c]
    BY <1>1, <1>4, <1>5
  <1>8. /\ torn' \in [Bot -> SUBSET Msg] /\ \A c \in Bot : torn[c] \subseteq torn'[c]
        /\ Unread(b) \subseteq torn'[b] /\ ToSet(New(h)) \ ToSet(kept) \subseteq torn'[b]
    BY <1>1, <1>2, <1>4
  <1>9. ToSet(h) \subseteq ToSet(hist'[b]) \cup torn'[b] \cup ToSet(Old(h))
    BY <1>2, <1>7, <1>8
  <1>10. PICK e \in {"clean", "half", "open"} :
            /\ tail' = [tail EXCEPT ![b] = e]
            /\ e = "open" => kept # <<>>
            /\ b \in V2 => e = "clean"
    <2>1. PICK e : /\ tail' = [tail EXCEPT ![b] = e]
                   /\ e \in CASE Reached(b, "marker", n) = "done" -> {"clean"}
                              [] Reached(b, "marker", n) = "partly" -> {"clean", "half"}
                              [] Reached(b, "history", n) = "partly" ->
                                   {"clean"} \cup (IF kept = New(h) THEN {} ELSE {"half"})
                                            \cup (IF kept = <<>> THEN {} ELSE {"open"})
                              [] OTHER -> {IF b \in V1 THEN "clean" ELSE tail[b]}
      BY <1>4
    <2>2. b \in V2 => /\ Reached(b, "marker", n) = "none" /\ Reached(b, "history", n) = "none"
                      /\ tail[b] = "clean" /\ b \notin V1
      BY <1>1, SummaryComesFirst, MemoryAssumption DEF Endings
    <2>3. b \in V1 \/ b \in V2
      BY DEF Bot
    <2>4. CASE b \in V2
      BY <2>1, <2>2, <2>4
    <2>5. CASE b \notin V2
      BY <2>1, <2>3, <2>5
    <2>. QED
      BY <2>4, <2>5
  <1>11. /\ tail' \in [Bot -> {"clean", "half", "open"}] /\ tail'[b] = e
         /\ \A c \in Bot : c # b => tail'[c] = tail[c]
    BY <1>1, <1>10
  <1>12. Endings'
    BY <1>1, <1>7, <1>10, <1>11 DEF Endings
  <1>. QED
    BY <1>5, <1>6, <1>7, <1>8, <1>9, <1>11, <1>12


-----------------------------------------------------------------------------
(* Types.                                                                  *)

\* A sequence whose elements are all in T.
LEMMA Among ==
    ASSUME NEW S, NEW T, NEW s \in Seq(S), ToSet(s) \subseteq T
    PROVE  s \in Seq(T)
  <1>1. \A i \in 1..Len(s) : s[i] \in T
    BY DEF ToSet
  <1>. QED
    BY <1>1

\* When messages come, a history that is part of what it could hold has messages that were
\* got, in their order.
LEMMA ArriveKeeps ==
    ASSUME TypeInv, NEW b \in Bot, Arrive(b), hist' \in [Bot -> Seq(Msg)],
           \A c \in Bot : c # b => hist'[c] = hist[c],
           Stretch(Longer(b), hist'[b]) \/ Stretch(Readable(b), hist'[b])
    PROVE  /\ made' \in [Bot -> 0..MaxMsgs] /\ made'[b] = made[b] + Coming(b)
           /\ \A c \in Bot : c # b => made'[c] = made[c]
           /\ \A c \in Bot : hist'[c] \in Seq(1..made'[c])
           /\ \A c \in V1 : Increasing(hist'[c])
  <1>1. PICK k, m : k = Coming(b) /\ m = made[b]
    OBVIOUS
  <1>2. /\ k \in Nat /\ m \in Nat /\ m + k <= MaxMsgs /\ MaxMsgs \in Nat
        /\ made \in [Bot -> 0..MaxMsgs] /\ made' = [made EXCEPT ![b] = m + k]
    BY <1>1, MsgIsNat DEF TypeInv, TypeOK, Coming, Arrive
  <1>3. /\ made' \in [Bot -> 0..MaxMsgs] /\ made'[b] = m + k
        /\ \A c \in Bot : c # b => made'[c] = made[c]
    <2>1. m + k \in 0..MaxMsgs
      BY <1>2
    <2>. QED
      BY <1>2, <2>1
  <1>4. /\ Longer(b) \in Seq(1..(m + k)) /\ Readable(b) \in Seq(1..m)
        /\ b \in V1 => Increasing(Longer(b)) /\ Increasing(Readable(b))
    BY <1>1, <1>2, LongerIs
  <1>5. PICK s : s = hist'[b]
    OBVIOUS
  <1>6. s \in Seq(Msg) /\ s \in Seq(Nat)
    <2>1. s \in Seq(Msg)
      BY <1>5
    <2>. QED
      BY <2>1, MsgIsNat, SeqMonotonic
  <1>7. PICK h \in Seq(1..(m + k)) : Stretch(h, s) /\ (b \in V1 => Increasing(h))
    <2>1. 1..m \subseteq 1..(m + k)
      BY <1>2
    <2>2. Readable(b) \in Seq(1..(m + k))
      BY <1>4, <2>1, SeqMonotonic
    <2>. QED
      BY <1>4, <1>5, <2>2
  <1>8. s \in Seq(1..(m + k)) /\ (b \in V1 => Increasing(s))
    <2>1. PICK T : T = 1..(m + k)
      OBVIOUS
    <2>2. T \subseteq Nat /\ h \in Seq(T)
      BY <1>2, <1>7, <2>1
    <2>3. h \in Seq(Nat)
      BY <2>2, SeqMonotonic
    <2>4. ToSet(s) \subseteq ToSet(h) /\ (b \in V1 => Increasing(s))
      BY <1>6, <1>7, <2>3, StretchOf
    <2>5. ToSet(h) \subseteq T
      BY <2>2, ElementOfSeq DEF ToSet
    <2>6. s \in Seq(T)
      BY <1>6, <2>4, <2>5, Among
    <2>. QED
      BY <2>1, <2>4, <2>6
  <1>9. \A c \in Bot : hist[c] \in Seq(1..made[c])
    BY DEF TypeInv, TypeOK
  <1>10. \A c \in Bot : hist'[c] \in Seq(1..made'[c])
    BY <1>3, <1>5, <1>8, <1>9
  <1>11. \A c \in V1 : Increasing(hist[c]) /\ c \in Bot
    BY DEF TypeInv, TypeOK, Increasing, Bot
  <1>12. \A c \in V1 : Increasing(hist'[c])
    BY <1>5, <1>8, <1>11
  <1>. QED
    BY <1>1, <1>3, <1>10, <1>12


\* Points are of messages.
LEMMA PointsAreMessages ==
    ASSUME NEW h \in Seq(Msg)
    PROVE  \A p \in Points(h) : p \in SUBSET Msg
  <1>1. Old(h) \in Seq(Msg)
    BY Halves
  <1>2. ToSet(Old(h)) \subseteq Msg
    BY <1>1, ElementOfSeq DEF ToSet
  <1>. QED
    BY <1>2 DEF Points, NoPoints

LEMMA AddMessageTypes ==
    ASSUME TypeInv, NEW b \in Bot, AddMessage(b)
    PROVE  TypeInv'
  <1>1. /\ Arrive(b) /\ hist' = [hist EXCEPT ![b] = Longer(b)]
        /\ count' = [count EXCEPT ![b] = IF b \in V1 THEN @ + 1 ELSE @]
        /\ tail' = [tail EXCEPT ![b] = "clean"]
        /\ torn' = [torn EXCEPT ![b] = @ \cup Unread(b)]
        /\ UNCHANGED <<summaries, replaced, world, kb, blank, up, crashes>>
    BY DEF AddMessage
  <1>2. /\ Longer(b) \in Seq(Msg) /\ Unread(b) \subseteq Msg
        /\ b \in V1 => Len(Longer(b)) <= Len(hist[b]) + 1
    BY <1>1, LongerIs DEF Arrive
  <1>3. /\ hist \in [Bot -> Seq(Msg)] /\ count \in [Bot -> Nat]
        /\ torn \in [Bot -> SUBSET Msg] /\ tail \in [Bot -> {"clean", "half", "open"}]
        /\ \A c \in V1 \cap up : count[c] >= Len(hist[c])
        /\ V1 \subseteq Bot /\ Endings
    BY DEF TypeInv, TypeOK, Bot
  <1>4. /\ hist' \in [Bot -> Seq(Msg)] /\ hist'[b] = Longer(b)
        /\ \A c \in Bot : c # b => hist'[c] = hist[c]
    BY <1>1, <1>2, <1>3
  <1>5. Stretch(Longer(b), hist'[b])
    <2>1. Longer(b) \in Seq(Nat)
      BY <1>2, MsgIsNat, SeqMonotonic
    <2>2. /\ Len(Longer(b)) \in Nat /\ Len(Longer(b)) <= Len(Longer(b))
          /\ \A i \in 1..Len(Longer(b)) : Longer(b)[i] = Longer(b)[i]
      BY <2>1
    <2>. QED
      BY <1>4, <2>1, <2>2, StretchFromStart
  <1>6. /\ made' \in [Bot -> 0..MaxMsgs] /\ \A c \in Bot : hist'[c] \in Seq(1..made'[c])
        /\ \A c \in V1 : Increasing(hist'[c])
    BY <1>1, <1>4, <1>5, ArriveKeeps
  <1>7. count' \in [Bot -> Nat] /\ \A c \in V1 \cap up' : count'[c] >= Len(hist'[c])
    <2>1. count' \in [Bot -> Nat] /\ \A c \in Bot : c # b => count'[c] = count[c]
      BY <1>1, <1>3
    <2>2. b \in V1 => count'[b] = count[b] + 1
      BY <1>1, <1>3
    <2>3. \A c \in Bot : Len(hist[c]) \in Nat /\ Len(hist'[c]) \in Nat /\ count[c] \in Nat
      BY <1>3, <1>4
    <2>4. SUFFICES ASSUME NEW c \in V1 \cap up
                   PROVE  count'[c] >= Len(hist'[c])
      BY <1>1, <2>1
    <2>5. CASE c = b
      <3>1. Len(hist'[b]) <= Len(hist[b]) + 1 /\ count[b] >= Len(hist[b])
        BY <1>2, <1>3, <1>4, <2>4, <2>5
      <3>. QED
        BY <2>2, <2>3, <2>4, <2>5, <3>1
    <2>6. CASE c # b
      BY <1>3, <1>4, <2>1, <2>4, <2>6
    <2>. QED
      BY <2>5, <2>6
  <1>8. torn' \in [Bot -> SUBSET Msg]
    BY <1>1, <1>2, <1>3
  <1>9. tail' \in [Bot -> {"clean", "half", "open"}] /\ Endings'
    <2>1. /\ tail'[b] = "clean" /\ \A c \in Bot : c # b => tail'[c] = tail[c]
          /\ tail' \in [Bot -> {"clean", "half", "open"}]
      BY <1>1, <1>3
    <2>. QED
      BY <1>3, <1>4, <2>1 DEF Endings
  <1>. QED
    BY <1>1, <1>4, <1>6, <1>7, <1>8, <1>9 DEF TypeInv, TypeOK, Increasing

\* A compression, whether it comes to its end or not, keeps everything but the counter.
LEMMA CompressTypes ==
    ASSUME TypeInv, NEW b \in Bot, NEW n \in Nat, NEW p \in Points(Longer(b)),
           Arrive(b), Compress(b, Longer(b), p, n)
    PROVE  /\ made' \in [Bot -> 0..MaxMsgs] /\ hist' \in [Bot -> Seq(Msg)]
           /\ \A c \in Bot : hist'[c] \in Seq(1..made'[c])
           /\ \A c \in Bot : c # b => hist'[c] = hist[c]
           /\ \A c \in V1 : Increasing(hist'[c])
           /\ summaries' \in [Bot -> Seq(SUBSET Msg)] /\ blank' \in [Bot -> SUBSET Msg]
           /\ replaced' \in [Bot -> SUBSET Msg]
           /\ torn' \in [Bot -> SUBSET Msg] /\ tail' \in [Bot -> {"clean", "half", "open"}]
           /\ kb' \in [Bot -> File] /\ world' \in [Bot -> File] /\ Endings'
  <1>1. Longer(b) \in Seq(Msg) /\ Unread(b) \subseteq Msg
    BY LongerIs DEF Arrive
  <1>2. p \in SUBSET Msg
    BY <1>1, PointsAreMessages
  <1>3. /\ hist' \in [Bot -> Seq(Msg)] /\ torn' \in [Bot -> SUBSET Msg]
        /\ tail' \in [Bot -> {"clean", "half", "open"}] /\ Endings'
        /\ \A c \in Bot : c # b => hist'[c] = hist[c]
        /\ Stretch(Longer(b), hist'[b])
    BY <1>1, <1>2, CompressCuts
  <1>4. /\ made' \in [Bot -> 0..MaxMsgs] /\ \A c \in Bot : hist'[c] \in Seq(1..made'[c])
        /\ \A c \in V1 : Increasing(hist'[c])
    BY <1>3, ArriveKeeps
  <1>5. /\ summaries' \in [Bot -> Seq(SUBSET Msg)] /\ blank' \in [Bot -> SUBSET Msg]
        /\ replaced' \in [Bot -> SUBSET Msg]
    BY <1>1, <1>2, CompressSaves
  <1>6. kb' \in [Bot -> File] /\ world' \in [Bot -> File]
    BY <1>1, <1>2, CompressTeaches
  <1>. QED
    BY <1>3, <1>4, <1>5, <1>6


LEMMA AddAndCompressTypes ==
    ASSUME TypeInv, NEW b \in Bot, AddAndCompress(b)
    PROVE  TypeInv'
  <1>1. PICK p \in Points(Longer(b)) :
            Compress(b, Longer(b), p, IF b \in V2 /\ p = {} THEN 0 ELSE Len(Stages(b)) + 1)
    BY DEF AddAndCompress
  <1>2. PICK n \in Nat : Compress(b, Longer(b), p, n)
    <2>1. Len(Stages(b)) \in Nat
      BY DEF Stages
    <2>2. (IF b \in V2 /\ p = {} THEN 0 ELSE Len(Stages(b)) + 1) \in Nat
      BY <2>1
    <2>. QED
      BY <1>1, <2>2
  <1>3. /\ Arrive(b) /\ UNCHANGED <<up, crashes>>
        /\ count' = [count EXCEPT ![b] = IF b \in V1 THEN Len(hist'[b]) * (1 + Overhead) ELSE @]
    BY DEF AddAndCompress
  <1>4. /\ made' \in [Bot -> 0..MaxMsgs] /\ hist' \in [Bot -> Seq(Msg)]
        /\ \A c \in Bot : hist'[c] \in Seq(1..made'[c])
        /\ \A c \in Bot : c # b => hist'[c] = hist[c]
        /\ \A c \in V1 : Increasing(hist'[c])
        /\ summaries' \in [Bot -> Seq(SUBSET Msg)] /\ blank' \in [Bot -> SUBSET Msg]
        /\ replaced' \in [Bot -> SUBSET Msg]
        /\ torn' \in [Bot -> SUBSET Msg] /\ tail' \in [Bot -> {"clean", "half", "open"}]
        /\ kb' \in [Bot -> File] /\ world' \in [Bot -> File] /\ Endings'
    BY <1>2, <1>3, CompressTypes
  <1>5. count' \in [Bot -> Nat] /\ \A c \in V1 \cap up' : count'[c] >= Len(hist'[c])
    <2>1. /\ count \in [Bot -> Nat] /\ \A c \in V1 \cap up : count[c] >= Len(hist[c])
          /\ V1 \subseteq Bot
      BY DEF TypeInv, TypeOK, Bot
    <2>2. PICK l : l = Len(hist'[b])
      OBVIOUS
    <2>3. l \in Nat /\ Overhead \in Nat
      BY <1>4, <2>2, MsgIsNat
    <2>4. l * (1 + Overhead) \in Nat /\ l * (1 + Overhead) >= l
      <3>1. l * (1 + Overhead) = l + l * Overhead
        BY <2>3
      <3>2. l * Overhead \in Nat
        BY <2>3
      <3>. QED
        BY <2>3, <3>1, <3>2
    <2>5. PICK w : w = l * (1 + Overhead)
      OBVIOUS
    <2>6. count' = [count EXCEPT ![b] = IF b \in V1 THEN w ELSE @] /\ w \in Nat /\ w >= l
      BY <1>3, <2>2, <2>4, <2>5
    <2>. QED
      BY ZenonT(30), <1>3, <1>4, <2>1, <2>2, <2>6
  <1>. QED
    BY <1>3, <1>4, <1>5 DEF TypeInv, TypeOK, Increasing

LEMMA DownTypes ==
    ASSUME TypeInv, NEW b \in Bot, Down(b)
    PROVE  up' \subseteq Bot /\ up' \subseteq up /\ b \notin up' /\ crashes' \in 0..MaxCrashes
  BY MemoryAssumption DEF Down, TypeInv, TypeOK

LEMMA CrashAppendingTypes ==
    ASSUME TypeInv, NEW b \in Bot, CrashAppending(b)
    PROVE  TypeInv'
  <1>1. /\ Arrive(b) /\ Down(b) /\ b \in V1
        /\ UNCHANGED <<count, summaries, replaced, world, kb, blank>>
    BY DEF CrashAppending
  <1>2. PICK s \in {Readable(b), Longer(b)}, e \in {"half", "open"} :
            /\ hist' = [hist EXCEPT ![b] = s] /\ tail' = [tail EXCEPT ![b] = e]
            /\ e = "open" => tail[b] = "clean" /\ s = Longer(b)
            /\ torn' = [torn EXCEPT ![b] = @ \cup Unread(b) \cup ToSet(Following(b))]
               \/ UNCHANGED torn
    BY DEF CrashAppending
  <1>3. /\ Longer(b) \in Seq(Msg) /\ Readable(b) \in Seq(1..made[b])
        /\ Unread(b) \subseteq Msg /\ ToSet(Following(b)) \subseteq Msg
        /\ tail[b] = "clean" => Longer(b) # <<>>
    BY <1>1, LongerIs DEF Arrive
  <1>4. /\ hist \in [Bot -> Seq(Msg)] /\ count \in [Bot -> Nat] /\ made[b] \in 0..MaxMsgs
        /\ torn \in [Bot -> SUBSET Msg] /\ tail \in [Bot -> {"clean", "half", "open"}]
        /\ \A c \in V1 \cap up : count[c] >= Len(hist[c])
        /\ V1 \subseteq Bot /\ Endings
    BY DEF TypeInv, TypeOK, Bot
  <1>5. s \in Seq(Msg)
    <2>1. 1..made[b] \subseteq Msg
      BY <1>4, MsgIsNat DEF Msg
    <2>2. Readable(b) \in Seq(Msg)
      BY <1>3, <2>1, SeqMonotonic
    <2>. QED
      BY <1>2, <1>3, <2>2
  <1>6. /\ hist' \in [Bot -> Seq(Msg)] /\ hist'[b] = s
        /\ \A c \in Bot : c # b => hist'[c] = hist[c]
    BY <1>2, <1>4, <1>5
  <1>7. Stretch(s, s)
    <2>1. s \in Seq(Nat)
      BY <1>5, MsgIsNat, SeqMonotonic
    <2>2. Len(s) \in Nat /\ Len(s) <= Len(s) /\ \A i \in 1..Len(s) : s[i] = s[i]
      BY <2>1
    <2>. QED
      BY <2>1, <2>2, StretchFromStart
  <1>8. /\ made' \in [Bot -> 0..MaxMsgs] /\ \A c \in Bot : hist'[c] \in Seq(1..made'[c])
        /\ \A c \in V1 : Increasing(hist'[c])
    BY <1>1, <1>2, <1>6, <1>7, ArriveKeeps
  <1>9. up' \subseteq Bot /\ up' \subseteq up /\ b \notin up' /\ crashes' \in 0..MaxCrashes
    BY <1>1, DownTypes
  <1>10. \A c \in V1 \cap up' : count'[c] >= Len(hist'[c])
    BY <1>1, <1>4, <1>6, <1>9
  <1>11. torn' \in [Bot -> SUBSET Msg]
    BY <1>2, <1>3, <1>4
  <1>12. tail' \in [Bot -> {"clean", "half", "open"}] /\ Endings'
    <2>1. /\ tail'[b] = e /\ \A c \in Bot : c # b => tail'[c] = tail[c]
          /\ tail' \in [Bot -> {"clean", "half", "open"}]
      BY <1>2, <1>4
    <2>2. b \notin V2
      BY <1>1, MemoryAssumption
    <2>. QED
      BY <1>2, <1>3, <1>4, <1>6, <2>1, <2>2 DEF Endings
  <1>. QED
    BY <1>1, <1>4, <1>6, <1>8, <1>9, <1>10, <1>11, <1>12 DEF TypeInv, TypeOK, Increasing

LEMMA CrashCompressingTypes ==
    ASSUME TypeInv, NEW b \in Bot, CrashCompressing(b)
    PROVE  TypeInv'
  <1>1. Arrive(b) /\ Down(b) /\ UNCHANGED count
    BY DEF CrashCompressing
  <1>2. PICK n \in Nat, p \in Points(Longer(b)) : Compress(b, Longer(b), p, n)
    <2>1. 0..Len(Stages(b)) \subseteq Nat
      OBVIOUS
    <2>. QED
      BY <2>1 DEF CrashCompressing
  <1>3. /\ made' \in [Bot -> 0..MaxMsgs] /\ hist' \in [Bot -> Seq(Msg)]
        /\ \A c \in Bot : hist'[c] \in Seq(1..made'[c])
        /\ \A c \in Bot : c # b => hist'[c] = hist[c]
        /\ \A c \in V1 : Increasing(hist'[c])
        /\ summaries' \in [Bot -> Seq(SUBSET Msg)] /\ blank' \in [Bot -> SUBSET Msg]
        /\ replaced' \in [Bot -> SUBSET Msg]
        /\ torn' \in [Bot -> SUBSET Msg] /\ tail' \in [Bot -> {"clean", "half", "open"}]
        /\ kb' \in [Bot -> File] /\ world' \in [Bot -> File] /\ Endings'
    BY <1>1, <1>2, CompressTypes
  <1>4. up' \subseteq Bot /\ up' \subseteq up /\ b \notin up' /\ crashes' \in 0..MaxCrashes
    BY <1>1, DownTypes
  <1>5. count' \in [Bot -> Nat] /\ \A c \in V1 \cap up' : count'[c] >= Len(hist'[c])
    <2>1. /\ count \in [Bot -> Nat] /\ \A c \in V1 \cap up : count[c] >= Len(hist[c])
          /\ V1 \subseteq Bot
      BY DEF TypeInv, TypeOK, Bot
    <2>. QED
      BY <1>1, <1>3, <1>4, <2>1
  <1>. QED
    BY <1>3, <1>4, <1>5 DEF TypeInv, TypeOK, Increasing

LEMMA CrashTypes ==
    ASSUME TypeInv, NEW b \in Bot, Crash(b)
    PROVE  TypeInv'
  <1>1. /\ Down(b)
        /\ UNCHANGED <<made, hist, count, summaries, replaced, world, kb, blank, tail, torn>>
    BY DEF Crash
  <1>2. up' \subseteq Bot /\ up' \subseteq up /\ crashes' \in 0..MaxCrashes
    BY <1>1, DownTypes
  <1>. QED
    BY <1>1, <1>2 DEF TypeInv, TypeOK, Endings

LEMMA RestartTypes ==
    ASSUME TypeInv, NEW b \in Bot, Restart(b)
    PROVE  TypeInv'
  <1>1. /\ up' = up \cup {b}
        /\ hist' = [hist EXCEPT ![b] = IF b \in V1 THEN @ ELSE <<>>]
        /\ count' = [count EXCEPT ![b] = IF b \in V1 THEN Counted(hist'[b]) ELSE @]
        /\ UNCHANGED <<made, summaries, replaced, world, kb, blank, tail, torn, crashes>>
    BY DEF Restart
  <1>2. /\ hist \in [Bot -> Seq(Msg)] /\ count \in [Bot -> Nat] /\ V1 \subseteq Bot
        /\ \A c \in V1 \cap up : count[c] >= Len(hist[c])
        /\ \A c \in Bot : hist[c] \in Seq(1..made[c])
        /\ Endings /\ V1 \cap V2 = {} /\ Bot = V1 \cup V2
    BY MemoryAssumption DEF TypeInv, TypeOK, Bot
  <1>3. <<>> \in Seq(Msg) /\ \A c \in Bot : <<>> \in Seq(1..made[c])
    BY EmptySeq
  <1>4. /\ hist' \in [Bot -> Seq(Msg)] /\ \A c \in V1 : hist'[c] = hist[c]
        /\ \A c \in Bot : hist'[c] \in Seq(1..made'[c])
        /\ \A c \in Bot : hist'[c] = hist[c] \/ c \notin V1
    BY <1>1, <1>2, <1>3
  <1>5. count' \in [Bot -> Nat] /\ \A c \in V1 \cap up' : count'[c] >= Len(hist'[c])
    <2>1. Len(hist'[b]) \in Nat /\ Counted(hist'[b]) = Len(hist'[b])
      BY <1>4 DEF Counted
    <2>. QED
      BY <1>1, <1>2, <1>4, <2>1
  <1>6. Endings'
    BY <1>1, <1>2, <1>4 DEF Endings
  <1>7. \A c \in V1 : Increasing(hist'[c])
    BY <1>4 DEF TypeInv, TypeOK, Increasing
  <1>. QED
    BY <1>1, <1>4, <1>5, <1>6, <1>7 DEF TypeInv, TypeOK, Increasing

LEMMA TypeStep == TypeInv /\ [Next]_vars => TypeInv'
  <1>1. SUFFICES ASSUME TypeInv, [Next]_vars
                 PROVE  TypeInv'
    OBVIOUS
  <1>2. CASE Next
    BY <1>1, <1>2, AddMessageTypes, AddAndCompressTypes, CrashAppendingTypes,
       CrashCompressingTypes, CrashTypes, RestartTypes DEF Next
  <1>3. CASE UNCHANGED vars
    BY <1>1, <1>3 DEF TypeInv, TypeOK, Endings, vars
  <1>. QED
    BY <1>1, <1>2, <1>3

LEMMA TypeInit == Init => TypeInv
  <1>1. /\ 0 \in 0..MaxMsgs /\ 0 \in 0..MaxCrashes /\ V1 \subseteq Bot
        /\ [torn |-> FALSE, items |-> {}] \in File
    BY MemoryAssumption DEF Bot, File
  <1>2. <<>> \in Seq(Msg) /\ <<>> \in Seq(SUBSET Msg) /\ \A n \in Nat : <<>> \in Seq(1..n)
    OBVIOUS
  <1>. QED
    BY <1>1, <1>2 DEF Init, TypeInv, TypeOK, Endings

\* Types: besides them, a history keeps the order in which its messages came, and the counter
\* that decides on a compression never tells less than the history holds
\* (history_manager.add_message, compress, _load_existing).
THEOREM TypeCorrect == Spec => []TypeOK
  <1>1. Spec => []TypeInv
    BY TypeInit, TypeStep, PTL DEF Spec
  <1>2. TypeInv => TypeOK
    BY DEF TypeInv
  <1>. QED
    BY <1>1, <1>2, PTL


-----------------------------------------------------------------------------
(* What has to be remembered.                                              *)

\* The bots that a step leaves alone keep what they remember; others may only add to it.
LEMMA OthersRemember ==
    ASSUME NEW c \in Bot, made'[c] = made[c], hist'[c] = hist[c],
           Ever(c) \subseteq Ever(c)',
           torn[c] \subseteq torn'[c], blank[c] \subseteq blank'[c]
    PROVE  /\ Remembered(c) => Remembered(c)'
           /\ LongIsSummarised(c) => LongIsSummarised(c)'
  BY DEF Remembered, LongIsSummarised, Old, ToSet

LEMMA EverStays ==
    ASSUME UNCHANGED <<summaries, replaced>>
    PROVE  \A c \in Bot : Ever(c)' = Ever(c)
  BY DEF Ever, Summarised

\* A bot that gets messages remembers them, if what the history could hold with them is in the
\* history still, or torn, or saved.
LEMMA NewRemembered ==
    ASSUME TypeInv, NEW b \in V1, Arrive(b), Remembered(b),
           Ever(b) \subseteq Ever(b)', torn[b] \cup Unread(b) \subseteq torn'[b],
           blank[b] \subseteq blank'[b],
           ToSet(Longer(b)) \subseteq Ever(b)' \cup ToSet(hist'[b]) \cup torn'[b] \cup blank'[b]
    PROVE  Remembered(b)'
  <1>1. b \in Bot
    BY DEF Bot
  <1>2. /\ ToSet(hist[b]) \cup ToSet(Following(b)) \subseteq ToSet(Longer(b)) \cup Unread(b)
        /\ 1..(made[b] + Coming(b)) \subseteq 1..made[b] \cup ToSet(Following(b))
    BY <1>1, LongerIs DEF Arrive
  <1>3. made'[b] = made[b] + Coming(b)
    BY <1>1 DEF Arrive, TypeInv, TypeOK
  <1>4. 1..made[b] \subseteq Ever(b) \cup ToSet(hist[b]) \cup torn[b] \cup blank[b]
    BY DEF Remembered
  <1>5. 1..made'[b] \subseteq Ever(b)' \cup ToSet(hist'[b]) \cup torn'[b] \cup blank'[b]
    BY <1>2, <1>3, <1>4
  <1>6. Remembered(b)' =
            (1..made'[b] \subseteq Ever(b)' \cup ToSet(hist'[b]) \cup torn'[b] \cup blank'[b])
    BY DEF Remembered, ToSet
  <1>. QED
    BY <1>5, <1>6

LEMMA AddMessageRemembers ==
    ASSUME TypeInv, NEW b \in Bot, AddMessage(b), MemoryInv
    PROVE  MemoryInv'
  <1>1. /\ Arrive(b) /\ ~Due(b) /\ hist' = [hist EXCEPT ![b] = Longer(b)]
        /\ torn' = [torn EXCEPT ![b] = @ \cup Unread(b)]
        /\ UNCHANGED <<summaries, replaced, world, kb, blank, up>>
    BY DEF AddMessage
  <1>2. /\ made \in [Bot -> 0..MaxMsgs] /\ hist \in [Bot -> Seq(Msg)] /\ torn \in [Bot -> SUBSET Msg]
        /\ Bot = V1 \cup V2 /\ V1 \cap V2 = {}
    BY MemoryAssumption DEF TypeInv, TypeOK, Bot
  <1>3. \A c \in Bot : torn[c] \subseteq torn'[c]
    BY <1>1, <1>2
  <1>4. \A c \in Bot : c # b => made'[c] = made[c] /\ hist'[c] = hist[c]
    BY <1>1, <1>2 DEF Arrive
  <1>5. ASSUME NEW c \in Bot, c # b
        PROVE  (Remembered(c) => Remembered(c)') /\ (LongIsSummarised(c) => LongIsSummarised(c)')
    BY <1>1, <1>3, <1>4, <1>5, EverStays, OthersRemember
  <1>6. \A c \in Bot : SummarisedFirst(c)'
    BY <1>1 DEF MemoryInv, SummarisedFirst, Ever, Summarised, Loaded
  <1>7. ASSUME b \in V1
        PROVE  Remembered(b)'
    <2>1. Ever(b) = Ever(b)'
      BY <1>1 DEF Ever, Summarised
    <2>2. torn[b] \cup Unread(b) \subseteq torn'[b] /\ hist'[b] = Longer(b)
      BY <1>1, <1>2
    <2>. QED
      BY <1>1, <1>7, <2>1, <2>2, NewRemembered DEF MemoryInv
  <1>8. ASSUME b \in V2
        PROVE  LongIsSummarised(b)'
    <2>1. Longer(b) \in Seq(Msg) /\ Len(Longer(b)) \in Nat /\ Threshold \in Nat
      BY <1>1, LongerIs, MsgIsNat DEF Arrive
    <2>2. ~(Len(Longer(b)) >= Threshold) \/ ToSet(Old(Longer(b))) = {}
      <3>1. ~(Len(Longer(b)) >= Threshold) \/ ~(Len(Longer(b)) >= 2)
        BY <1>1, <1>2, <1>8 DEF Due
      <3>2. Len(Longer(b)) < 2 => ToSet(Old(Longer(b))) = {}
        BY <2>1, Halves
      <3>. QED
        BY <2>1, <3>1, <3>2
    <2>3. hist'[b] = Longer(b)
      BY <1>1, <1>2
    <2>4. LongIsSummarised(b)' = (Len(hist'[b]) >= Threshold =>
                ToSet(Old(hist'[b])) \subseteq Ever(b)' \cup blank'[b])
      BY DEF LongIsSummarised, Old, ToSet
    <2>. QED
      BY <2>2, <2>3, <2>4
  <1>9. \A c \in V1 : Remembered(c)'
    BY <1>2, <1>5, <1>7 DEF MemoryInv
  <1>10. \A c \in V2 \cap up' : LongIsSummarised(c)'
    BY <1>1, <1>2, <1>5, <1>8 DEF MemoryInv
  <1>. QED
    BY <1>6, <1>9, <1>10 DEF MemoryInv

\* A compression, wherever it stops, forgets nothing: what is cut was saved.
LEMMA CompressRemembers ==
    ASSUME TypeInv, MemoryInv, NEW b \in Bot, NEW n \in Nat, NEW p \in Points(Longer(b)),
           Arrive(b), Compress(b, Longer(b), p, n)
    PROVE  /\ \A c \in V1 : Remembered(c)'
           /\ \A c \in V2 \cap up : c # b => LongIsSummarised(c)'
           /\ b \in V2 /\ (n > Len(Stages(b)) \/ p = {}) => LongIsSummarised(b)'
           /\ \A c \in Bot : SummarisedFirst(c)'
  <1>1. Longer(b) \in Seq(Msg) /\ Unread(b) \subseteq Msg /\ Bot = V1 \cup V2 /\ V1 \cap V2 = {}
    BY LongerIs, MemoryAssumption DEF Arrive, Bot
  <1>2. p \in SUBSET Msg
    BY <1>1, PointsAreMessages
  <1>3. /\ \A c \in Bot : c # b => hist'[c] = hist[c]
        /\ \A c \in Bot : torn[c] \subseteq torn'[c]
        /\ Unread(b) \subseteq torn'[b]
        /\ ToSet(Longer(b)) \subseteq ToSet(hist'[b]) \cup torn'[b] \cup ToSet(Old(Longer(b)))
        /\ Reached(b, "history", n) = "none" => hist'[b] = Longer(b)
    BY <1>1, <1>2, CompressCuts
  <1>4. /\ \A c \in Bot : Ever(c) \subseteq Ever(c)' /\ blank[c] \subseteq blank'[c]
        /\ Reached(b, "history", n) # "none" => p \subseteq Ever(b)'
        /\ n > Len(Stages(b)) => p \subseteq Ever(b)'
        /\ b \in V2 \/ Reached(b, "history", n) # "none" =>
                ToSet(Old(Longer(b))) \ p \subseteq blank'[b]
    BY <1>1, <1>2, CompressSaves
  <1>5. \A c \in Bot : SummarisedFirst(c)'
    BY <1>1, <1>2, CompressTeaches DEF MemoryInv
  <1>6. \A c \in Bot : c # b => made'[c] = made[c]
    BY DEF Arrive, TypeInv, TypeOK
  <1>7. ASSUME NEW c \in Bot, c # b
        PROVE  (Remembered(c) => Remembered(c)') /\ (LongIsSummarised(c) => LongIsSummarised(c)')
    BY <1>3, <1>4, <1>6, <1>7, OthersRemember
  <1>8. ASSUME b \in V1
        PROVE  Remembered(b)'
    <2>1. ToSet(Longer(b)) \subseteq Ever(b)' \cup ToSet(hist'[b]) \cup torn'[b] \cup blank'[b]
      BY <1>3, <1>4
    <2>2. torn[b] \cup Unread(b) \subseteq torn'[b]
      BY <1>3
    <2>. QED
      BY <1>4, <1>8, <2>1, <2>2, NewRemembered DEF MemoryInv
  <1>9. ASSUME b \in V2, n > Len(Stages(b)) \/ p = {}
        PROVE  LongIsSummarised(b)'
    <2>1. hist'[b] = Longer(b)
      <3>1. Reached(b, "history", n) = "none"
        BY <1>9, SummaryComesFirst
      <3>. QED
        BY <1>3, <3>1
    <2>2. ToSet(Old(hist'[b])) \subseteq Ever(b)' \cup blank'[b]
      BY <1>4, <1>9, <2>1
    <2>3. LongIsSummarised(b)' = (Len(hist'[b]) >= Threshold =>
                ToSet(Old(hist'[b])) \subseteq Ever(b)' \cup blank'[b])
      BY DEF LongIsSummarised, Old, ToSet
    <2>. QED
      BY <2>2, <2>3
  <1>. QED
    BY <1>1, <1>5, <1>7, <1>8, <1>9 DEF MemoryInv


LEMMA AddAndCompressRemembers ==
    ASSUME TypeInv, NEW b \in Bot, AddAndCompress(b), MemoryInv
    PROVE  MemoryInv'
  <1>1. PICK p \in Points(Longer(b)) :
            Compress(b, Longer(b), p, IF b \in V2 /\ p = {} THEN 0 ELSE Len(Stages(b)) + 1)
    BY DEF AddAndCompress
  <1>2. Arrive(b) /\ up' = up
    BY DEF AddAndCompress
  <1>3. PICK n \in Nat : /\ Compress(b, Longer(b), p, n)
                         /\ b \in V2 => n > Len(Stages(b)) \/ p = {}
    <2>1. Len(Stages(b)) \in Nat
      BY DEF Stages
    <2>2. PICK n : n = IF b \in V2 /\ p = {} THEN 0 ELSE Len(Stages(b)) + 1
      OBVIOUS
    <2>3. n \in Nat /\ (b \in V2 => n > Len(Stages(b)) \/ p = {})
      BY <2>1, <2>2
    <2>. QED
      BY <1>1, <2>2, <2>3
  <1>4. /\ \A c \in V1 : Remembered(c)'
        /\ \A c \in V2 \cap up : c # b => LongIsSummarised(c)'
        /\ b \in V2 => LongIsSummarised(b)'
        /\ \A c \in Bot : SummarisedFirst(c)'
    BY <1>2, <1>3, CompressRemembers
  <1>5. \A c \in V2 \cap up' : LongIsSummarised(c)'
    BY <1>2, <1>4
  <1>. QED
    BY <1>4, <1>5 DEF MemoryInv

LEMMA CrashCompressingRemembers ==
    ASSUME TypeInv, NEW b \in Bot, CrashCompressing(b), MemoryInv
    PROVE  MemoryInv'
  <1>1. Arrive(b) /\ Down(b)
    BY DEF CrashCompressing
  <1>2. PICK n \in Nat, p \in Points(Longer(b)) : Compress(b, Longer(b), p, n)
    <2>1. 0..Len(Stages(b)) \subseteq Nat
      OBVIOUS
    <2>. QED
      BY <2>1 DEF CrashCompressing
  <1>3. /\ \A c \in V1 : Remembered(c)'
        /\ \A c \in V2 \cap up : c # b => LongIsSummarised(c)'
        /\ \A c \in Bot : SummarisedFirst(c)'
    BY <1>1, <1>2, CompressRemembers
  <1>4. up' \subseteq up /\ b \notin up'
    BY <1>1, DownTypes
  <1>5. \A c \in V2 \cap up' : LongIsSummarised(c)'
    BY <1>3, <1>4
  <1>. QED
    BY <1>3, <1>5 DEF MemoryInv

LEMMA CrashAppendingRemembers ==
    ASSUME TypeInv, NEW b \in Bot, CrashAppending(b), MemoryInv
    PROVE  MemoryInv'
  <1>1. /\ b \in V1 /\ Arrive(b) /\ Down(b)
        /\ UNCHANGED <<summaries, replaced, world, kb, blank>>
    BY DEF CrashAppending
  <1>2. /\ made \in [Bot -> 0..MaxMsgs] /\ hist \in [Bot -> Seq(Msg)] /\ torn \in [Bot -> SUBSET Msg]
        /\ Bot = V1 \cup V2 /\ V1 \cap V2 = {}
    BY MemoryAssumption DEF TypeInv, TypeOK, Bot
  <1>3. up' \subseteq up /\ b \notin up'
    BY <1>1, DownTypes
  <1>4. \A c \in Bot : c # b => made'[c] = made[c] /\ hist'[c] = hist[c] /\ torn'[c] = torn[c]
    BY <1>2 DEF CrashAppending, Arrive
  <1>5. ASSUME NEW c \in Bot, c # b
        PROVE  (Remembered(c) => Remembered(c)') /\ (LongIsSummarised(c) => LongIsSummarised(c)')
    BY <1>1, <1>4, <1>5, EverStays, OthersRemember
  <1>6. \A c \in Bot : SummarisedFirst(c)'
    BY <1>1 DEF MemoryInv, SummarisedFirst, Ever, Summarised, Loaded
  <1>7. Ever(b) = Ever(b)'
    BY <1>1 DEF Ever, Summarised
  <1>8. Remembered(b)'
    <2>1. CASE /\ hist'[b] = Readable(b)
               /\ torn'[b] = torn[b] \cup Unread(b) \cup ToSet(Following(b))
      <3>1. ToSet(Longer(b)) \subseteq ToSet(Readable(b)) \cup ToSet(Following(b))
        <4>1. CASE tail[b] = "clean"
          <5>1. Longer(b) = hist[b] \o Following(b) /\ Readable(b) = hist[b]
            BY <4>1 DEF Longer, Readable
          <5>2. PICK s, t : s = hist[b] /\ t = Following(b)
            OBVIOUS
          <5>3. s \in Seq(Msg) /\ t \in Seq(Msg)
            BY <1>1, <1>2, <5>2, LongerIs DEF Arrive
          <5>4. ToSet(s \o t) \subseteq ToSet(s) \cup ToSet(t)
            BY <5>3, JoinedElements
          <5>. QED
            BY <5>1, <5>2, <5>4
        <4>2. CASE tail[b] # "clean"
          BY <4>2 DEF Longer
        <4>. QED
          BY <4>1, <4>2
      <3>2. /\ torn[b] \cup Unread(b) \subseteq torn'[b]
            /\ ToSet(Longer(b)) \subseteq
                    Ever(b)' \cup ToSet(hist'[b]) \cup torn'[b] \cup blank'[b]
        BY <2>1, <3>1
      <3>. QED
        BY <1>1, <1>7, <3>2, NewRemembered DEF MemoryInv
    <2>2. CASE hist'[b] = Longer(b) /\ torn'[b] = torn[b] /\ tail[b] = "clean"
      <3>1. Unread(b) = {}
        <4>1. ToSet(hist[b]) \cup ToSet(Following(b)) \subseteq ToSet(Longer(b))
          <5>1. Longer(b) = hist[b] \o Following(b)
            BY <2>2 DEF Longer
          <5>2. PICK s, t : s = hist[b] /\ t = Following(b)
            OBVIOUS
          <5>3. s \in Seq(Msg) /\ t \in Seq(Msg)
            BY <1>1, <1>2, <5>2, LongerIs DEF Arrive
          <5>4. ToSet(s) \cup ToSet(t) \subseteq ToSet(s \o t)
            BY <5>3, JoinedElements
          <5>. QED
            BY <5>1, <5>2, <5>4
        <4>. QED
          BY <4>1 DEF Unread
      <3>2. /\ torn[b] \cup Unread(b) \subseteq torn'[b]
            /\ ToSet(Longer(b)) \subseteq
                    Ever(b)' \cup ToSet(hist'[b]) \cup torn'[b] \cup blank'[b]
        BY <2>2, <3>1
      <3>. QED
        BY <1>1, <1>7, <3>2, NewRemembered DEF MemoryInv
    <2>. QED
      BY <1>1, <1>2, <2>1, <2>2 DEF CrashAppending
  <1>9. \A c \in V1 : Remembered(c)'
    BY <1>2, <1>5, <1>8 DEF MemoryInv
  <1>10. \A c \in V2 \cap up' : LongIsSummarised(c)'
    BY <1>2, <1>3, <1>5 DEF MemoryInv
  <1>. QED
    BY <1>6, <1>9, <1>10 DEF MemoryInv

\* A step that leaves what is written alone, and starts no bot.
LEMMA AloneRemembers ==
    ASSUME UNCHANGED <<made, hist, summaries, replaced, world, kb, blank, torn>>, up' \subseteq up, MemoryInv
    PROVE  MemoryInv'
  <1>1. V1 \subseteq Bot /\ V2 \subseteq Bot
    BY DEF Bot
  <1>2. ASSUME NEW c \in Bot
        PROVE  (Remembered(c) => Remembered(c)') /\ (LongIsSummarised(c) => LongIsSummarised(c)')
    BY EverStays, OthersRemember
  <1>3. \A c \in Bot : SummarisedFirst(c)'
    BY DEF MemoryInv, SummarisedFirst, Ever, Summarised, Loaded
  <1>. QED
    BY <1>1, <1>2, <1>3 DEF MemoryInv

LEMMA CrashRemembers ==
    ASSUME TypeInv, NEW b \in Bot, Crash(b), MemoryInv
    PROVE  MemoryInv'
  <1>1. UNCHANGED <<made, hist, summaries, replaced, world, kb, blank, torn>>
    BY DEF Crash
  <1>2. up' \subseteq up
    BY DownTypes DEF Crash
  <1>. QED
    BY <1>1, <1>2, AloneRemembers

LEMMA RestartRemembers ==
    ASSUME TypeInv, NEW b \in Bot, Restart(b), MemoryInv
    PROVE  MemoryInv'
  <1>1. /\ up' = up \cup {b}
        /\ hist' = [hist EXCEPT ![b] = IF b \in V1 THEN @ ELSE <<>>]
        /\ UNCHANGED <<made, summaries, replaced, world, kb, blank, torn>>
    BY DEF Restart
  <1>2. hist \in [Bot -> Seq(Msg)] /\ V1 \subseteq Bot /\ V2 \subseteq Bot /\ V1 \cap V2 = {}
    BY MemoryAssumption DEF TypeInv, Bot
  <1>3. \A c \in Bot : c # b \/ c \in V1 => hist'[c] = hist[c]
    BY <1>1, <1>2
  <1>4. \A c \in Bot : c # b \/ c \in V1 =>
            /\ Remembered(c) => Remembered(c)'
            /\ LongIsSummarised(c) => LongIsSummarised(c)'
    BY <1>1, <1>3, EverStays, OthersRemember
  <1>5. ASSUME b \in V2
        PROVE  LongIsSummarised(b)'
    <2>1. hist'[b] = <<>> /\ b \notin V1
      BY <1>1, <1>2, <1>5
    <2>2. <<>> \in Seq(Msg) /\ Len(<<>>) = 0
      BY EmptySeq
    <2>3. PICK h \in Seq(Msg) : h = <<>>
      BY <2>2
    <2>4. ToSet(Old(h)) = {}
      <3>1. Len(h) < 2
        BY <2>2, <2>3
      <3>. QED
        BY <3>1, Halves
    <2>5. LongIsSummarised(b)' = (Len(hist'[b]) >= Threshold =>
                ToSet(Old(hist'[b])) \subseteq Ever(b)' \cup blank'[b])
      BY DEF LongIsSummarised, Old, ToSet
    <2>. QED
      BY <2>1, <2>3, <2>4, <2>5
  <1>6. \A c \in Bot : SummarisedFirst(c)'
    BY <1>1 DEF MemoryInv, SummarisedFirst, Ever, Summarised, Loaded
  <1>. QED
    BY <1>1, <1>2, <1>4, <1>5, <1>6 DEF MemoryInv

LEMMA MemoryStep == TypeInv /\ MemoryInv /\ [Next]_vars => MemoryInv'
  <1>1. SUFFICES ASSUME TypeInv, MemoryInv, [Next]_vars
                 PROVE  MemoryInv'
    OBVIOUS
  <1>2. CASE Next
    BY <1>1, <1>2, AddMessageRemembers, AddAndCompressRemembers, CrashAppendingRemembers,
       CrashCompressingRemembers, CrashRemembers, RestartRemembers DEF Next
  <1>3. CASE UNCHANGED vars
    BY <1>1, <1>3, AloneRemembers DEF vars
  <1>. QED
    BY <1>1, <1>2, <1>3

LEMMA MemoryInit == Init => MemoryInv
  <1>1. SUFFICES ASSUME Init
                 PROVE  MemoryInv
    OBVIOUS
  <1>2. V1 \subseteq Bot /\ V2 \subseteq Bot
    BY DEF Bot
  <1>3. \A b \in Bot : made[b] = 0 /\ hist[b] = <<>> /\ Loaded(kb[b]) = {} /\ Loaded(world[b]) = {}
    BY <1>1 DEF Init, Loaded
  <1>4. \A b \in Bot : Remembered(b)
    <2>1. 1..0 = {}
      OBVIOUS
    <2>. QED
      BY <1>3, <2>1 DEF Remembered
  <1>5. ASSUME NEW b \in Bot
        PROVE  LongIsSummarised(b)
    <2>1. PICK h \in Seq(Msg) : h = <<>>
      BY EmptySeq
    <2>2. Len(h) < 2
      BY <2>1, EmptySeq
    <2>3. ToSet(Old(h)) = {}
      BY <2>2, Halves
    <2>. QED
      BY <1>3, <2>1, <2>3 DEF LongIsSummarised
  <1>. QED
    BY <1>2, <1>3, <1>4, <1>5 DEF MemoryInv, SummarisedFirst

-----------------------------------------------------------------------------
(* What the knowledge base holds without a crash.                          *)

\* A compression that comes to its end writes the knowledge base, one that does not begin
\* writes nothing.
LEMMA KnowledgeComesLast ==
    ASSUME NEW b \in Bot, NEW n \in Nat
    PROVE  /\ n > Len(Stages(b)) => Reached(b, "kb", n) = "done"
           /\ n = 0 => Reached(b, "summary", n) = "none" /\ Reached(b, "kb", n) = "none"
  <1>1. \/ Stages(b) = <<"summary", "history", "world", "kb", "marker">>
        \/ Stages(b) = <<"summary", "kb">>
    BY DEF Stages
  <1>2. \A i \in DOMAIN Stages(b) : i \in Nat /\ i >= 1 /\ i <= Len(Stages(b))
    BY <1>1
  <1>3. \E i \in DOMAIN Stages(b) : Stages(b)[i] = "kb"
    <2>1. CASE Stages(b) = <<"summary", "history", "world", "kb", "marker">>
      <3>1. 4 \in DOMAIN Stages(b) /\ Stages(b)[4] = "kb"
        BY <2>1
      <3>. QED
        BY <3>1
    <2>2. CASE Stages(b) = <<"summary", "kb">>
      <3>1. 2 \in DOMAIN Stages(b) /\ Stages(b)[2] = "kb"
        BY <2>2
      <3>. QED
        BY <3>1
    <2>. QED
      BY <1>1, <2>1, <2>2
  <1>4. \E i \in DOMAIN Stages(b) : Stages(b)[i] = "summary"
    <2>1. 1 \in DOMAIN Stages(b) /\ Stages(b)[1] = "summary"
      BY <1>1
    <2>. QED
      BY <2>1
  <1>5. Len(Stages(b)) \in Nat
    BY <1>1
  <1>6. ASSUME NEW stage, \E i \in DOMAIN Stages(b) : Stages(b)[i] = stage
        PROVE  \E i \in DOMAIN Stages(b) :
                    Reached(b, stage, n) = IF i < n THEN "done"
                                           ELSE IF i = n THEN "partly" ELSE "none"
    <2>1. PICK i : i = CHOOSE j \in DOMAIN Stages(b) : Stages(b)[j] = stage
      OBVIOUS
    <2>2. i \in DOMAIN Stages(b)
      BY <1>6, <2>1
    <2>3. Reached(b, stage, n) = IF i < n THEN "done" ELSE IF i = n THEN "partly" ELSE "none"
      BY <1>6, <2>1 DEF Reached
    <2>. QED
      BY <2>2, <2>3
  <1>7. PICK i \in DOMAIN Stages(b) :
            Reached(b, "kb", n) = IF i < n THEN "done" ELSE IF i = n THEN "partly" ELSE "none"
    BY <1>3, <1>6
  <1>8. PICK j \in DOMAIN Stages(b) :
            Reached(b, "summary", n) = IF j < n THEN "done" ELSE IF j = n THEN "partly" ELSE "none"
    BY <1>4, <1>6
  <1>9. /\ n > Len(Stages(b)) => i < n
        /\ n = 0 => ~(i < n) /\ i # n /\ ~(j < n) /\ j # n
    BY <1>2, <1>5
  <1>. QED
    BY <1>7, <1>8, <1>9

LEMMA KnownCompress ==
    ASSUME TypeInv, NEW b \in Bot, AddAndCompress(b), KnownAll, crashes = 0
    PROVE  \A c \in Bot : ~kb'[c].torn /\ Ever(c)' \subseteq kb'[c].items
  <1>1. PICK p \in Points(Longer(b)) :
            Compress(b, Longer(b), p, IF b \in V2 /\ p = {} THEN 0 ELSE Len(Stages(b)) + 1)
    BY DEF AddAndCompress
  <1>2. PICK n : n = IF b \in V2 /\ p = {} THEN 0 ELSE Len(Stages(b)) + 1
    OBVIOUS
  <1>3. n \in Nat /\ (n = 0 \/ n > Len(Stages(b))) /\ Compress(b, Longer(b), p, n)
    <2>1. Len(Stages(b)) \in Nat
      BY DEF Stages
    <2>. QED
      BY <1>1, <1>2, <2>1
  <1>4. Longer(b) \in Seq(Msg) /\ p \in SUBSET Msg
    <2>1. Longer(b) \in Seq(Msg)
      BY LongerIs DEF AddAndCompress, Arrive
    <2>. QED
      BY <2>1, PointsAreMessages
  <1>5. /\ \A c \in Bot : c # b => Ever(c)' = Ever(c)
        /\ Ever(b)' \subseteq Ever(b) \cup p
        /\ Reached(b, "summary", n) = "none" => Ever(b)' = Ever(b)
    BY <1>3, <1>4, CompressSaves
  <1>6. kb \in [Bot -> File] /\ \A c \in Bot : ~kb[c].torn /\ Ever(c) \subseteq kb[c].items
    BY DEF TypeInv, TypeOK, KnownAll
  <1>7. PICK f \in CASE Reached(b, "kb", n) = "done" /\ p # {} -> {Added(kb[b], p)}
                     [] Reached(b, "kb", n) = "partly" -> Partly(kb[b], p)
                     [] OTHER -> {kb[b]} :
            kb' = [kb EXCEPT ![b] = f]
    BY <1>3 DEF Compress
  <1>8. kb'[b] = f /\ \A c \in Bot : c # b => kb'[c] = kb[c]
    BY <1>6, <1>7
  <1>9. ~f.torn /\ Ever(b)' \subseteq f.items
    <2>1. CASE n = 0
      <3>1. f = kb[b] /\ Ever(b)' = Ever(b)
        BY <1>3, <1>5, <1>7, <2>1, KnowledgeComesLast
      <3>. QED
        BY <1>6, <3>1
    <2>2. CASE n > Len(Stages(b)) /\ p # {}
      <3>1. f = Added(kb[b], p)
        BY <1>3, <1>7, <2>2, KnowledgeComesLast
      <3>2. f.torn = FALSE /\ f.items = kb[b].items \cup p
        BY <1>6, <3>1 DEF Added, Loaded
      <3>. QED
        BY <1>5, <1>6, <3>2
    <2>3. CASE n > Len(Stages(b)) /\ p = {}
      <3>1. f = kb[b]
        BY <1>3, <1>7, <2>3, KnowledgeComesLast
      <3>. QED
        BY <1>5, <1>6, <2>3, <3>1
    <2>. QED
      BY <1>3, <2>1, <2>2, <2>3
  <1>. QED
    BY <1>5, <1>6, <1>8, <1>9

LEMMA KnownStep == TypeInv /\ KnownAll /\ [Next]_vars => KnownAll'
  <1>. SUFFICES ASSUME TypeInv, KnownAll, [Next]_vars, crashes' = 0
                PROVE  \A c \in Bot : ~kb'[c].torn /\ Ever(c)' \subseteq kb'[c].items
    BY DEF KnownAll, Ever, Summarised, ToSet
  <1>1. CASE crashes' = crashes /\ UNCHANGED <<kb, summaries, replaced>>
    BY <1>1, EverStays DEF KnownAll
  <1>2. ASSUME NEW b \in Bot, AddAndCompress(b), crashes' = crashes
        PROVE  \A c \in Bot : ~kb'[c].torn /\ Ever(c)' \subseteq kb'[c].items
    BY <1>2, KnownCompress
  <1>3. ASSUME NEW b \in Bot, Down(b) PROVE FALSE
    <2>1. crashes \in Nat /\ crashes' = crashes + 1
      BY <1>3, MemoryAssumption DEF Down, TypeInv, TypeOK
    <2>. QED
      BY <2>1
  <1>4. ASSUME NEW b \in Bot, AddMessage(b) \/ Restart(b)
        PROVE  crashes' = crashes /\ UNCHANGED <<kb, summaries, replaced>>
    BY <1>4 DEF AddMessage, Restart
  <1>5. CASE UNCHANGED vars
    BY <1>1, <1>5 DEF vars
  <1>6. ASSUME NEW b \in Bot, AddAndCompress(b) PROVE crashes' = crashes
    BY <1>6 DEF AddAndCompress
  <1>7. ASSUME NEW b \in Bot, CrashAppending(b) \/ CrashCompressing(b) \/ Crash(b) PROVE FALSE
    BY <1>3, <1>7 DEF CrashAppending, CrashCompressing, Crash
  <1>. QED
    BY <1>1, <1>2, <1>4, <1>5, <1>6, <1>7 DEF Next

LEMMA KnownInit == Init => KnownAll
  <1>1. SUFFICES ASSUME Init, NEW b \in Bot
                 PROVE  ~kb[b].torn /\ Ever(b) \subseteq kb[b].items
    BY DEF KnownAll
  <1>2. summaries[b] = <<>> /\ replaced[b] = {} /\ kb[b] = [torn |-> FALSE, items |-> {}]
    BY <1>1 DEF Init
  <1>3. ToSet(<<>>) = {}
    BY EmptySeq DEF ToSet
  <1>. QED
    BY <1>2, <1>3 DEF Ever, Summarised

\* What the invariant says is more than the promise: a bot that is down owes nothing.
LEMMA MemoryInvIsEnough == TypeInv /\ MemoryInv /\ KnownAll => RememberedIfAnswered
  <1>1. SUFFICES ASSUME TypeInv, MemoryInv, KnownAll
                 PROVE  RememberedIfAnswered
    OBVIOUS
  <1>2. up \subseteq V1 \cup V2 /\ V1 \cap V2 = {} /\ Bot = V1 \cup V2
    BY <1>1, MemoryAssumption DEF TypeInv, TypeOK, Bot
  <1>3. ASSUME NEW b \in up
        PROVE  Owed(b) \subseteq Ever(b) \cup Kept(b) \cup torn[b] \cup blank[b]
    <2>1. CASE b \in V1
      BY <1>1, <2>1 DEF MemoryInv, Remembered, Owed, Kept
    <2>2. CASE b \in V2
      <3>1. LongIsSummarised(b) /\ b \notin V1
        BY <1>1, <1>2, <2>2 DEF MemoryInv
      <3>. QED
        BY <3>1 DEF LongIsSummarised, Owed
    <2>. QED
      BY <1>2, <2>1, <2>2
  <1>5. ASSUME NEW b \in up
        PROVE  Ever(b) \subseteq Kept(b) \cup (IF crashes = 0 THEN {} ELSE replaced[b])
    <2>1. CASE crashes = 0
      <3>1. ~kb[b].torn /\ Ever(b) \subseteq kb[b].items
        BY <1>1, <1>2, <2>1 DEF KnownAll
      <3>2. Ever(b) \subseteq Loaded(kb[b])
        BY <3>1 DEF Loaded
      <3>. QED
        BY <3>2 DEF Kept
    <2>2. CASE crashes # 0
      BY <2>2 DEF Kept, Ever
    <2>. QED
      BY <2>1, <2>2
  <1>4. \A b \in Bot : Loaded(kb[b]) \cup Loaded(world[b]) \subseteq Summarised(b) \cup replaced[b]
    BY <1>1 DEF MemoryInv, SummarisedFirst, Ever
  <1>6. ASSUME NEW b \in up
        PROVE  Owed(b) \subseteq Kept(b) \cup torn[b] \cup blank[b]
                                \cup (IF crashes = 0 THEN {} ELSE replaced[b])
    BY <1>3, <1>5
  <1>. QED
    BY <1>4, <1>6 DEF RememberedIfAnswered

\* Whatever the window, however many messages come, and wherever a bot stops while it appends
\* or compresses: as long as the model answers with points, what leaves a history or makes a
\* session too long is in a summary or in the knowledge base, unless a crash has kept it from
\* the knowledge base and a later summary has overwritten the summary of it; and the knowledge
\* files hold nothing that was not in a summary (history_manager.compress, memory.compress,
\* knowledge_base._save).
THEOREM NothingIsForgotten == Spec => []RememberedIfAnswered
  <1>1. Init => TypeInv /\ MemoryInv /\ KnownAll
    BY TypeInit, MemoryInit, KnownInit
  <1>2. (TypeInv /\ MemoryInv /\ KnownAll) /\ [Next]_vars => (TypeInv /\ MemoryInv /\ KnownAll)'
    BY TypeStep, MemoryStep, KnownStep
  <1>3. TypeInv /\ MemoryInv /\ KnownAll => RememberedIfAnswered
    BY MemoryInvIsEnough
  <1>. QED
    BY <1>1, <1>2, <1>3, PTL DEF Spec

=============================================================================
