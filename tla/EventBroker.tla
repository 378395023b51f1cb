------------------------------ MODULE EventBroker ------------------------------
(***************************************************************************)
(* ApplicationEventBroker, the SSE endpoint of the admin API that serves   *)
(* its subscriptions, and the EventStreamClient that reads and reconnects. *)
(*                                                                         *)
(* publish and subscribe run on the main loop without an await, so each is *)
(* one step.  Between them the endpoint's generator sends what it has, the *)
(* connection breaks, and the client, a thread in another process, reads.  *)
(* Observers do not raise.  An event is its place in the log.              *)
(***************************************************************************)
EXTENDS Naturals, Sequences, FiniteSetsExt

CONSTANTS
    Clients, None,
    Resync,         \* RESYNC_EVENT_TYPE: a marker, with an id of its own each time
    ReplaySize,     \* history's maxlen
    ReplayLimit,
    QueueSize,      \* live_queue's maxsize
    WireSize,       \* bound: lines the connection buffers
    MaxEvents,      \* bound: events published
    MaxLosses       \* bound: connections that break

ASSUME BrokerAssumption ==
    /\ ReplaySize \in Nat \ {0} /\ ReplayLimit \in Nat \ {0} /\ QueueSize \in Nat \ {0}
    /\ WireSize \in Nat \ {0} /\ MaxEvents \in Nat /\ MaxLosses \in Nat
    /\ None \notin Nat /\ Resync \notin Nat /\ None # Resync

VARIABLES
    published,      \* events published so far
    history,        \* _history
    conn,           \* each client's connection; "ended": by the server
    registered,     \* its subscription is in _clients
    replay,         \* what is left of replay_events
    live,           \* live_queue
    wire,           \* lines sent and not read
    lastId,         \* _last_event_id
    seen,           \* _seen, without the markers
    losses

serverVars == <<history, registered, replay, live>>
clientVars == <<lastId, seen>>
brokerVars == <<published, serverVars, conn, wire, clientVars, losses>>

Init ==
    /\ published = 0 /\ history = <<>> /\ losses = 0
    /\ conn = [c \in Clients |-> "closed"]
    /\ registered = [c \in Clients |-> FALSE]
    /\ replay = [c \in Clients |-> <<>>]
    /\ live = [c \in Clients |-> <<>>]
    /\ wire = [c \in Clients |-> <<>>]
    /\ lastId = [c \in Clients |-> None]
    /\ seen = [c \in Clients |-> {}]

\* The last n elements of s: what a deque with maxlen n keeps.
Tails(s, n) == IF Len(s) > n THEN SubSeq(s, Len(s) - n + 1, Len(s)) ELSE s

-----------------------------------------------------------------------------
\* Mutant: a full queue loses the event.
OverflowDropsEvent(c, event) == live[c]

\* _disconnect_overflowed: the queue holds the marker and nothing else.
Overflow(c, event) == <<Resync>>

Publish ==
    LET event == published + 1
        Full(c) == registered[c] /\ Len(live[c]) >= QueueSize
    IN  /\ published < MaxEvents
        /\ published' = event
        /\ history' = Tails(Append(history, event), ReplaySize)
        /\ live' = [c \in Clients |->
                       IF Full(c) THEN Overflow(c, event)
                       ELSE IF registered[c] THEN Append(live[c], event) ELSE live[c]]
        /\ registered' = [c \in Clients |-> registered[c] /\ ~Full(c)]
        /\ UNCHANGED <<conn, replay, wire, clientVars, losses>>

-----------------------------------------------------------------------------
\* The place of an event in the history, and 0 of one that is not there.
PlaceOf(id) ==
    IF \E i \in DOMAIN history : history[i] = id
    THEN CHOOSE i \in DOMAIN history : history[i] = id ELSE 0

\* What is behind it, as far as the limit allows.
Behind(id) == Tails(SubSeq(history, PlaceOf(id) + 1, Len(history)), ReplayLimit)

\* Mutant: what has left the history is left out without a word.
SelectReplayQuietly(id) == Behind(id)

\* _select_replay, with the marker subscribe puts before it.
SelectReplay(id) ==
    IF /\ id = None \/ PlaceOf(id) # 0
       /\ Len(history) - PlaceOf(id) <= ReplayLimit
    THEN Behind(id) ELSE <<Resync>> \o Behind(id)

\* The client asks for the stream with Last-Event-ID, and the endpoint
\* subscribes.
Connect(c) ==
    /\ conn[c] = "closed"
    /\ conn' = [conn EXCEPT ![c] = "open"]
    /\ replay' = [replay EXCEPT ![c] = SelectReplay(lastId[c])]
    /\ live' = [live EXCEPT ![c] = <<>>]
    /\ registered' = [registered EXCEPT ![c] = TRUE]
    /\ UNCHANGED <<published, history, wire, clientVars, losses>>

\* generate: replay_events first, then live_queue, while the connection takes
\* lines.  After a live marker it returns.
SendReplay(c) ==
    /\ conn[c] = "open" /\ replay[c] # <<>> /\ Len(wire[c]) < WireSize
    /\ wire' = [wire EXCEPT ![c] = Append(@, Head(replay[c]))]
    /\ replay' = [replay EXCEPT ![c] = Tail(@)]
    /\ UNCHANGED <<published, history, conn, registered, live, clientVars, losses>>

SendLive(c) ==
    /\ conn[c] = "open" /\ replay[c] = <<>> /\ live[c] # <<>> /\ Len(wire[c]) < WireSize
    /\ wire' = [wire EXCEPT ![c] = Append(@, Head(live[c]))]
    /\ live' = [live EXCEPT ![c] = Tail(@)]
    /\ IF Head(live[c]) = Resync
       THEN /\ conn' = [conn EXCEPT ![c] = "ended"]
            /\ registered' = [registered EXCEPT ![c] = FALSE]
       ELSE UNCHANGED <<conn, registered>>
    /\ UNCHANGED <<published, history, replay, clientVars, losses>>

-----------------------------------------------------------------------------
\* EventStreamClient.run

\* One line; what was seen before is passed over.
Read(c, line) ==
    /\ wire' = [wire EXCEPT ![c] = Tail(@)]
    /\ IF line \in seen[c] THEN UNCHANGED clientVars
       ELSE /\ lastId' = [lastId EXCEPT ![c] = line]
            /\ seen' = [seen EXCEPT ![c] = IF line = Resync THEN @ ELSE @ \cup {line}]
    /\ UNCHANGED <<published, serverVars, conn, losses>>

Readable(c) == conn[c] \in {"open", "ended"} /\ wire[c] # <<>>

\* The response is over: the loop goes round.
Finish(c) ==
    /\ conn[c] = "ended" /\ wire[c] = <<>>
    /\ conn' = [conn EXCEPT ![c] = "closed"]
    /\ UNCHANGED <<published, serverVars, wire, clientVars, losses>>

\* The connection breaks, with what was under way.  The endpoint unsubscribes;
\* until it does so, what it puts into the queue is read by nobody.
Lose(c) ==
    /\ conn[c] \in {"open", "ended"} /\ losses < MaxLosses
    /\ losses' = losses + 1
    /\ conn' = [conn EXCEPT ![c] = "closed"]
    /\ wire' = [wire EXCEPT ![c] = <<>>]
    /\ replay' = [replay EXCEPT ![c] = <<>>]
    /\ live' = [live EXCEPT ![c] = <<>>]
    /\ registered' = [registered EXCEPT ![c] = FALSE]
    /\ UNCHANGED <<published, history, clientVars>>

-----------------------------------------------------------------------------
ReadNext(c) == Readable(c) /\ Read(c, Head(wire[c]))
ServeNext(c) == SendReplay(c) \/ SendLive(c)
StreamNext(c) == Connect(c) \/ ServeNext(c) \/ ReadNext(c) \/ Finish(c)

Next == Publish \/ \E c \in Clients : StreamNext(c) \/ Lose(c)

\* The endpoint is scheduled, and the client's thread runs and reconnects.  No
\* one is obliged to publish, and connections need not break.
Fairness == \A c \in Clients : WF_brokerVars(StreamNext(c))

Spec == Init /\ [][Next]_brokerVars
FairSpec == Spec /\ Fairness
-----------------------------------------------------------------------------
\* Type invariant.
BrokerTypeOK ==
    /\ published \in 0..MaxEvents /\ losses \in 0..MaxLosses
    /\ history \in Seq(1..MaxEvents) /\ Len(history) <= ReplaySize
    /\ conn \in [Clients -> {"closed", "open", "ended"}]
    /\ registered \in [Clients -> BOOLEAN]
    /\ {replay, live, wire} \subseteq [Clients -> Seq(1..MaxEvents \cup {Resync})]
    /\ \A c \in Clients :
        /\ Len(replay[c]) <= ReplayLimit + 1
        /\ Len(live[c]) <= QueueSize /\ Len(wire[c]) <= WireSize
    /\ lastId \in [Clients -> 1..MaxEvents \cup {None, Resync}]
    /\ seen \in [Clients -> SUBSET (1..MaxEvents)]

\* The newest event a client has seen.
Position == [c \in Clients |-> Max(seen[c] \cup {0})]
Warned == [c \in Clients |-> lastId[c] \in {None, Resync}]

Feed == INSTANCE EventFeed WITH position <- Position, warned <- Warned

\* EventSubscription ("a bounded live feed paired with an immutable replay
\* snapshot"): through replay, overflow, lost connections and the client's own
\* filter of duplicates, an event reaches a client at most once, never after a
\* newer one, and none is skipped that system.resync_required did not announce.
ImplementsFeed == Feed!Spec

\* EventStreamClient: when publishing pauses, each client sees the newest event,
\* whatever was dropped or lost on the way.
FeedCatchesUp == \A c \in Clients : []<>(Position[c] = published)
================================================================================
