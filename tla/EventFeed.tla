------------------------------- MODULE EventFeed -------------------------------
(***************************************************************************)
(* What the event stream of the admin API promises a reader, without its   *)
(* queues and connections: it sees the log in order, each event once, and  *)
(* is told before it is made to skip something.                            *)
(***************************************************************************)
EXTENDS Naturals

CONSTANTS Clients

VARIABLES
    published,      \* the log is 1..published
    position,       \* the last event each client has seen
    warned          \* it was told that events may be missing

Init ==
    /\ published = 0
    /\ position = [c \in Clients |-> 0]
    /\ warned = [c \in Clients |-> TRUE]

Publish == published' = published + 1 /\ UNCHANGED <<position, warned>>

Warn(c) == warned' = [warned EXCEPT ![c] = TRUE] /\ UNCHANGED <<published, position>>

See(c, event) ==
    /\ event = position[c] + 1 \/ warned[c]
    /\ position' = [position EXCEPT ![c] = event]
    /\ warned' = [warned EXCEPT ![c] = FALSE]
    /\ UNCHANGED published

Next ==
    \/ Publish
    \/ \E c \in Clients :
        \/ Warn(c)
        \/ \E event \in position[c] + 1 .. published : See(c, event)

Spec == Init /\ [][Next]_<<published, position, warned>>
================================================================================
