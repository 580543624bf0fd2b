----------------------------- MODULE EventStream -----------------------------
(***************************************************************************)
(* The events of the legacy bots on their way to the viewers of the        *)
(* dashboard.  A bot's hooks put them into a bounded queue, whose thread   *)
(* publishes them (dispatcher.py, bot.py); the dashboard (dashboard_server *)
(* .py) stores them and puts each into the bounded queue of every viewer,  *)
(* holding the store's lock; a thread per viewer writes them to its        *)
(* connection.  An event is known by its place in the store.               *)
(***************************************************************************)
EXTENDS Naturals, Sequences, FiniteSets

CONSTANTS
    Viewer,
    DispatcherSize, \* max_queue_size of the dispatcher
    ViewerSize,     \* the size of a viewer's queue
    MaxViews,       \* bound: subscriptions
    MaxEvents       \* bound: the events that come to the store

ASSUME EventStreamAssumption ==
    /\ DispatcherSize \in Nat \ {0} /\ ViewerSize \in Nat \ {0}
    /\ MaxViews \in Nat /\ MaxEvents \in Nat

VARIABLES
    queued,      \* how many events the dispatcher has in its queue
    wire,        \* how many are published and have not reached the store
    stored,      \* EventStore.total_events
    lock,        \* "free", or "add": an add holds it over its puts
    subscribers, \* EventStore.subscribers, in the order of subscription
    todo,        \* the subscribers that the add has yet to serve
    viewer,      \* a viewer's connection: "off", "open", "closed" (by the client), "leaving"
    inbox,       \* the events in a viewer's queue
    writing,     \* the event its thread is writing, 0: none
    seen,        \* the last event that was written to it, or was before its subscription
    views

streamVars == <<queued, wire, stored, lock, subscribers, todo, viewer, inbox, writing, seen, views>>

StreamInit ==
    /\ queued = 0 /\ wire = 0 /\ stored = 0
    /\ lock = "free" /\ subscribers = <<>> /\ todo = <<>>
    /\ viewer = [v \in Viewer |-> "off"] /\ inbox = [v \in Viewer |-> <<>>]
    /\ writing = [v \in Viewer |-> 0] /\ seen = [v \in Viewer |-> 0]
    /\ views = 0

\* Slip: the queue grows.
EnqueuedAll == queued + 1
\* enqueue: an event for which there is no room is dropped.
Enqueued == IF queued < DispatcherSize THEN queued + 1 ELSE queued

Enqueue ==
    /\ queued' = Enqueued
    /\ UNCHANGED <<wire, stored, lock, subscribers, todo, viewer, inbox, writing, seen, views>>

\* _publish_log_event: published, or lost (errors are swallowed), or published twice: what
\* could not be sent at once stays with the client, and is sent again after the reconnect.
Published == {n \in wire..(wire + 2) : n = wire \/ n + stored <= MaxEvents}

\* The dispatcher's thread.
Publish ==
    /\ queued > 0 /\ queued' = queued - 1
    /\ wire' \in Published
    /\ UNCHANGED <<stored, lock, subscribers, todo, viewer, inbox, writing, seen, views>>

\* EventStore.add, first part: the event is stored, under the lock.
Add ==
    /\ wire > 0 /\ lock = "free"
    /\ wire' = wire - 1 /\ stored' = stored + 1
    /\ lock' = "add" /\ todo' = subscribers
    /\ UNCHANGED <<queued, subscribers, viewer, inbox, writing, seen, views>>

\* Slip: an event for which the queue has no room is skipped.
PutOrSkip(v) ==
    inbox' = [inbox EXCEPT ![v] = IF Len(@) < ViewerSize THEN Append(@, stored) ELSE @]
\* sub.put: waits for room.
PutIn(v) == Len(inbox[v]) < ViewerSize /\ inbox' = [inbox EXCEPT ![v] = Append(@, stored)]

Put ==
    /\ lock = "add" /\ todo # <<>> /\ PutIn(Head(todo)) /\ todo' = Tail(todo)
    /\ UNCHANGED <<queued, wire, stored, lock, subscribers, viewer, writing, seen, views>>

AddDone ==
    /\ lock = "add" /\ todo = <<>> /\ lock' = "free"
    /\ UNCHANGED <<queued, wire, stored, subscribers, todo, viewer, inbox, writing, seen, views>>

\* _handle_sse: a viewer's queue is subscribed, under the lock.
Subscribe(v) ==
    /\ viewer[v] = "off" /\ lock = "free" /\ views < MaxViews
    /\ views' = views + 1
    /\ viewer' = [viewer EXCEPT ![v] = "open"]
    /\ subscribers' = Append(subscribers, v)
    /\ seen' = [seen EXCEPT ![v] = stored]
    /\ UNCHANGED <<queued, wire, stored, lock, todo, inbox, writing>>

Take(v) ==
    /\ viewer[v] \in {"open", "closed"} /\ writing[v] = 0 /\ inbox[v] # <<>>
    /\ writing' = [writing EXCEPT ![v] = Head(inbox[v])]
    /\ inbox' = [inbox EXCEPT ![v] = Tail(@)]
    /\ UNCHANGED <<queued, wire, stored, lock, subscribers, todo, viewer, seen, views>>

\* A write to a closed connection may still succeed.
Write(v) ==
    /\ viewer[v] \in {"open", "closed"} /\ writing[v] # 0
    /\ writing' = [writing EXCEPT ![v] = 0] /\ seen' = [seen EXCEPT ![v] = writing[v]]
    /\ UNCHANGED <<queued, wire, stored, lock, subscribers, todo, viewer, inbox, views>>

Close(v) ==
    /\ viewer[v] = "open" /\ viewer' = [viewer EXCEPT ![v] = "closed"]
    /\ UNCHANGED <<queued, wire, stored, lock, subscribers, todo, inbox, writing, seen, views>>

WriteFails(v) ==
    /\ viewer[v] = "closed" /\ writing[v] # 0
    /\ viewer' = [viewer EXCEPT ![v] = "leaving"] /\ writing' = [writing EXCEPT ![v] = 0]
    /\ UNCHANGED <<queued, wire, stored, lock, subscribers, todo, inbox, seen, views>>

Remaining(v) ==
    LET Places == {i \in 1..Len(subscribers) : subscribers[i] = v}
        place == CHOOSE i \in Places : \A j \in Places : i <= j
    IN  IF Places = {} THEN subscribers
        ELSE SubSeq(subscribers, 1, place - 1) \o SubSeq(subscribers, place + 1, Len(subscribers))

\* finally: unsubscribe, under the lock.
Unsubscribe(v) ==
    /\ viewer[v] = "leaving" /\ lock = "free"
    /\ viewer' = [viewer EXCEPT ![v] = "off"] /\ inbox' = [inbox EXCEPT ![v] = <<>>]
    /\ subscribers' = Remaining(v)
    /\ UNCHANGED <<queued, wire, stored, lock, todo, writing, seen, views>>

Deliver(v) == Take(v) \/ Write(v) \/ WriteFails(v) \/ Unsubscribe(v)

StreamNext ==
    \/ Publish \/ Add \/ Put \/ AddDone
    \/ \E v \in Viewer : Subscribe(v) \/ Close(v) \/ Deliver(v)

-----------------------------------------------------------------------------
(* Properties.                                                             *)

StreamTypeOK ==
    /\ queued \in 0..DispatcherSize /\ wire \in Nat /\ stored \in Nat
    /\ lock \in {"free", "add"} /\ viewer \in [Viewer -> {"off", "open", "closed", "leaving"}]
    /\ \A v \in Viewer : Len(inbox[v]) <= ViewerSize

\* The events a viewer has been promised: those in the store since the last it saw.
Owing(v) == [i \in 1..(stored - seen[v]) |-> seen[v] + i]
Pending(v) ==
    (IF writing[v] = 0 THEN <<>> ELSE <<writing[v]>>) \o inbox[v]
        \o (IF \E i \in DOMAIN todo : todo[i] = v THEN <<stored>> ELSE <<>>)

\* A viewer is given every event that was stored since it subscribed, in order and once,
\* however slowly it reads (EventStore.add waits for room instead of dropping).
StreamInOrder == \A v \in Viewer : viewer[v] \in {"open", "closed"} => Pending(v) = Owing(v)
=============================================================================
