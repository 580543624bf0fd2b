------------------------------- MODULE Memory -------------------------------
(***************************************************************************)
(* What a bot remembers beyond its conversation.  A legacy bot keeps its   *)
(* history in a file; when it grows too long, the first half is given to   *)
(* the language model, which makes knowledge points of it, and is cut      *)
(* (history_manager.py).  A bot of v2 does the same with its session, but  *)
(* cuts nothing (tll_protocol_v2/memory.py).  The points go to a summary   *)
(* file and to the knowledge base (knowledge_base.py), a file that is      *)
(* rewritten in place; a legacy bot adds them to worldsmemory.json too.    *)
(*                                                                         *)
(* A message is a number, in the order of arrival; its knowledge is the    *)
(* message itself.  A message counts one unit of the window.  The search   *)
(* (its ranking, the index of embeddings) is left out.  A bot does one     *)
(* thing at a time: the language model is called synchronously.            *)
(***************************************************************************)
EXTENDS Naturals, Sequences, FiniteSets

CONSTANTS
    V1, V2,      \* the legacy bots and the bots of v2
    Threshold,   \* window_tokens * threshold, in messages
    Overhead,    \* what estimate_message_tokens adds to a message (role, empty result)
    MaxMsgs,     \* bound: messages of a bot
    MaxCrashes   \* bound: crashes

ASSUME MemoryAssumption ==
    /\ V1 \cap V2 = {}
    /\ {Threshold, Overhead, MaxMsgs, MaxCrashes} \subseteq Nat

Bot == V1 \cup V2
Msg == 1..MaxMsgs

VARIABLES
    made,      \* the messages a bot has got so far
    hist,      \* history.jsonl of a legacy bot; the session of a bot of v2
    count,     \* HistoryManager._total_tokens
    summaries, \* the summary files, in the order they are written: sets of points
    replaced,  \* the points of summary files that a later one has overwritten
    world,     \* worldsmemory.json
    kb,        \* knowledge_base.json
    blank,     \* messages that were compressed without a point made of them
    tail,      \* how history.jsonl ends: "clean", "half" a line, "open": without a newline
    torn,      \* messages whose lines are not, or not readably, in history.jsonl
    up, crashes

vars == <<made, hist, count, summaries, replaced, world, kb, blank, tail, torn, up, crashes>>

ToSet(s) == {s[i] : i \in 1..Len(s)}

\* A JSON file that is rewritten in place: torn if a crash cut the write short.
File == [torn : BOOLEAN, items : SUBSET Msg]
\* load: what cannot be parsed counts as empty.
Loaded(f) == IF f.torn THEN {} ELSE f.items

\* The first half and the rest (messages[:len // 2]).
Old(h) == SubSeq(h, 1, Len(h) \div 2)
New(h) == SubSeq(h, Len(h) \div 2 + 1, Len(h))

\* The model's answer: points of all the old messages; or none, which is also what the client
\* of v1 returns when the call fails, so that its caller's fallback is not reached.
NoPoints == {}
Points(h) == {ToSet(Old(h)), NoPoints}

\* The summary file is named by the second, and opened to be written: where the call to the
\* model is refused, or none is made, the last summary may have the same name.  What stays
\* beside the new file:
Beside(s) == {s} \cup (IF s = <<>> THEN {} ELSE {SubSeq(s, 1, Len(s) - 1)})
Summarised(b) == UNION ToSet(summaries[b])

\* Points added to a file: what it holds is read, and written with them.
Added(f, p) == [torn |-> FALSE, items |-> Loaded(f) \cup p]

\* What a crash can leave of that: the points are written one after the other, each time
\* with the whole file, and the last time perhaps not to its end.
Partly(f, p) == {f} \cup {[torn |-> t, items |-> Loaded(f) \cup q] : t \in BOOLEAN, q \in SUBSET p}

\* Slip: the history is cut before anything is saved.
StagesCutFirst(b) ==
    IF b \in V1 THEN <<"history", "summary", "world", "kb", "marker">> ELSE <<"summary", "kb">>
\* What compress writes, in this order.
Stages(b) ==
    IF b \in V1 THEN <<"summary", "history", "world", "kb", "marker">> ELSE <<"summary", "kb">>

\* How far a compression gets with a stage when it stops in the n-th (at an n beyond the
\* last, it does not stop).
Reached(b, stage, n) ==
    IF ~\E i \in DOMAIN Stages(b) : Stages(b)[i] = stage THEN "none"
    ELSE LET i == CHOOSE j \in DOMAIN Stages(b) : Stages(b)[j] = stage
         IN  IF i < n THEN "done" ELSE IF i = n THEN "partly" ELSE "none"

\* The messages that come at once: one line of a history, or a turn of a session.
Coming(b) == IF b \in V1 THEN 1 ELSE 2
Following(b) == [i \in 1..Coming(b) |-> made[b] + i]

\* What can be read of the messages when a line is appended, and what no longer: behind an
\* end without a newline the new line spoils the last one and itself.
Readable(b) == IF tail[b] = "open" THEN SubSeq(hist[b], 1, Len(hist[b]) - 1) ELSE hist[b]
Longer(b) == IF tail[b] = "clean" THEN hist[b] \o Following(b) ELSE Readable(b)
Unread(b) == (ToSet(hist[b]) \cup ToSet(Following(b))) \ ToSet(Longer(b))

\* compress of the messages h with the points p, stopping in the n-th stage.
Compress(b, h, p, n) ==
    /\ \E s \in Beside(summaries[b]) :
            summaries' = [summaries EXCEPT
                ![b] = CASE Reached(b, "summary", n) = "done" -> Append(s, p)
                         [] Reached(b, "summary", n) = "partly" -> s
                         [] OTHER -> @]
    /\ replaced' = [replaced EXCEPT ![b] = @ \cup (Summarised(b) \ Summarised(b)')]
    /\ \E kept \in CASE Reached(b, "history", n) = "done" -> {New(h)}
                      [] Reached(b, "history", n) = "partly" ->
                            {SubSeq(New(h), 1, i) : i \in 0..Len(New(h))}
                      [] OTHER -> {h} :
        /\ hist' = [hist EXCEPT ![b] = kept]
        /\ torn' = [torn EXCEPT ![b] = @ \cup Unread(b) \cup (ToSet(New(h)) \ ToSet(kept))]
        /\ \E e \in CASE Reached(b, "marker", n) = "done" -> {"clean"}
                       [] Reached(b, "marker", n) = "partly" -> {"clean", "half"}
                       [] Reached(b, "history", n) = "partly" ->
                            {"clean"} \cup (IF kept = New(h) THEN {} ELSE {"half"})
                                     \cup (IF kept = <<>> THEN {} ELSE {"open"})
                       [] OTHER -> {IF b \in V1 THEN "clean" ELSE tail[b]} :
                tail' = [tail EXCEPT ![b] = e]
    /\ blank' = [blank EXCEPT
            ![b] = IF b \in V2 \/ Reached(b, "history", n) # "none" THEN @ \cup (ToSet(Old(h)) \ p)
                   ELSE @]
    /\ \E f \in CASE Reached(b, "world", n) = "done" /\ p # {} -> {Added(world[b], p)}
                   [] Reached(b, "world", n) = "partly" -> Partly(world[b], p)
                   [] OTHER -> {world[b]} :
            world' = [world EXCEPT ![b] = f]
    /\ \E f \in CASE Reached(b, "kb", n) = "done" /\ p # {} -> {Added(kb[b], p)}
                   [] Reached(b, "kb", n) = "partly" -> Partly(kb[b], p)
                   [] OTHER -> {kb[b]} :
            kb' = [kb EXCEPT ![b] = f]

-----------------------------------------------------------------------------
Init ==
    /\ made = [b \in Bot |-> 0] /\ hist = [b \in Bot |-> <<>>] /\ count = [b \in Bot |-> 0]
    /\ summaries = [b \in Bot |-> <<>>] /\ replaced = [b \in Bot |-> {}]
    /\ world = [b \in Bot |-> [torn |-> FALSE, items |-> {}]] /\ kb = world
    /\ blank = [b \in Bot |-> {}] /\ tail = [b \in Bot |-> "clean"] /\ torn = [b \in Bot |-> {}]
    /\ up = Bot /\ crashes = 0

\* check_compress and should_compress; compress gives up on less than two messages.
Due(b) ==
    /\ IF b \in V1 THEN count[b] + 1 >= Threshold ELSE Len(Longer(b)) >= Threshold
    /\ Len(Longer(b)) >= 2

Arrive(b) ==
    /\ b \in up /\ made[b] + Coming(b) <= MaxMsgs
    /\ made' = [made EXCEPT ![b] = @ + Coming(b)]

\* add_message, or the end of a turn of v2, that compresses nothing.
AddMessage(b) ==
    /\ Arrive(b) /\ ~Due(b)
    /\ hist' = [hist EXCEPT ![b] = Longer(b)]
    /\ count' = [count EXCEPT ![b] = IF b \in V1 THEN @ + 1 ELSE @]
    /\ tail' = [tail EXCEPT ![b] = "clean"]
    /\ torn' = [torn EXCEPT ![b] = @ \cup Unread(b)]
    /\ UNCHANGED <<summaries, replaced, world, kb, blank, up, crashes>>

\* The same with the compression it leads to.  In v2 there is none without a point.
AddAndCompress(b) ==
    /\ Arrive(b) /\ Due(b)
    /\ \E p \in Points(Longer(b)) :
        Compress(b, Longer(b), p, IF b \in V2 /\ p = {} THEN 0 ELSE Len(Stages(b)) + 1)
    /\ count' = [count EXCEPT ![b] = IF b \in V1 THEN Len(hist'[b]) * (1 + Overhead) ELSE @]
    /\ UNCHANGED <<up, crashes>>

Down(b) == crashes < MaxCrashes /\ crashes' = crashes + 1 /\ up' = up \ {b}

\* A bot stops while it appends a line.
CrashAppending(b) ==
    /\ b \in V1 /\ Arrive(b) /\ Down(b)
    /\ \/ /\ tail' = [tail EXCEPT ![b] = "half"]
          /\ hist' = [hist EXCEPT ![b] = Readable(b)]
          /\ torn' = [torn EXCEPT ![b] = @ \cup Unread(b) \cup ToSet(Following(b))]
       \/ /\ tail[b] = "clean"
          /\ tail' = [tail EXCEPT ![b] = "open"]
          /\ hist' = [hist EXCEPT ![b] = Longer(b)]
          /\ UNCHANGED torn
    /\ UNCHANGED <<count, summaries, replaced, world, kb, blank>>

\* A bot stops while it compresses.
CrashCompressing(b) ==
    /\ Arrive(b) /\ Due(b) /\ Down(b)
    /\ \E n \in 0..Len(Stages(b)), p \in Points(Longer(b)) :
        (b \in V2 /\ p = {} => n = 0) /\ Compress(b, Longer(b), p, n)
    /\ UNCHANGED count

\* _load_existing of a bot that starts again counts its lines; a session starts anew.
\* Slip: the counter starts at nothing.
CountedNot(h) == 0
Counted(h) == Len(h)

Restart(b) ==
    /\ b \notin up /\ up' = up \cup {b}
    /\ hist' = [hist EXCEPT ![b] = IF b \in V1 THEN @ ELSE <<>>]
    /\ count' = [count EXCEPT ![b] = IF b \in V1 THEN Counted(hist'[b]) ELSE @]
    /\ UNCHANGED <<made, summaries, replaced, world, kb, blank, tail, torn, crashes>>

Crash(b) ==
    /\ b \in up /\ Down(b)
    /\ UNCHANGED <<made, hist, count, summaries, replaced, world, kb, blank, tail, torn>>

Next ==
    \E b \in Bot :
        AddMessage(b) \/ AddAndCompress(b) \/ CrashAppending(b) \/ CrashCompressing(b)
            \/ Crash(b) \/ Restart(b)

Spec == Init /\ [][Next]_vars

-----------------------------------------------------------------------------
(* Properties.                                                             *)

\* Besides the types: a history stays in order, and its counter never tells less than it
\* holds (or the window would be overrun unseen).
TypeOK ==
    /\ made \in [Bot -> 0..MaxMsgs]
    /\ \A b \in Bot : hist[b] \in Seq(1..made[b]) /\ summaries[b] \in Seq(SUBSET Msg)
    /\ \A b \in V1 : \A i, j \in DOMAIN hist[b] : i < j => hist[b][i] < hist[b][j]
    /\ \A b \in V1 \cap up : count[b] >= Len(hist[b])
    /\ tail \in [Bot -> {"clean", "half", "open"}] /\ torn \in [Bot -> SUBSET Msg]
    /\ replaced \in [Bot -> SUBSET Msg]
    /\ world \in [Bot -> File] /\ kb \in [Bot -> File]
    /\ up \subseteq Bot /\ crashes \in 0..MaxCrashes

\* What a bot has to remember: a legacy bot every message (those that leave the history go
\* to the summaries and the knowledge base), a bot of v2 the first half of a session that
\* has grown too long.
Owed(b) ==
    IF b \in V1 THEN 1..made[b]
    ELSE IF Len(hist[b]) >= Threshold THEN ToSet(Old(hist[b])) ELSE {}

Kept(b) == Loaded(kb[b]) \cup Summarised(b) \cup (IF b \in V1 THEN ToSet(hist[b]) ELSE {})

\* As long as the model makes points of what it is given, nothing a bot has to remember is
\* forgotten, whenever it crashes, but for lines of the history that was being written:
\* history_manager.compress and memory.compress save what they cut before they cut it.  A
\* summary that is overwritten takes something with it only if a crash has kept that from
\* the knowledge base.  And the knowledge files, which a crash can empty, can be made again
\* from the other summaries.
RememberedIfAnswered ==
    /\ \A b \in up : Owed(b) \subseteq Kept(b) \cup torn[b] \cup blank[b]
                                      \cup (IF crashes = 0 THEN {} ELSE replaced[b])
    /\ \A b \in Bot : Loaded(kb[b]) \cup Loaded(world[b]) \subseteq Summarised(b) \cup replaced[b]
=============================================================================
