------------------------------ MODULE SessionLife ------------------------------
(***************************************************************************)
(* The life of one StreamSession in its repository, whoever leads it: a    *)
(* status follows another only as _ALLOWED_TRANSITIONS has it, an Activity *)
(* is attached only while the session is LIVE, and each save counts the    *)
(* version up by one.  A task saves up to three times between two awaits.  *)
(***************************************************************************)
EXTENDS Naturals

VARIABLES status, version

\* _ALLOWED_TRANSITIONS
Successors ==
    [CREATED                  |-> {"PREPARING"},
     PREPARING                |-> {"READY", "FAILED"},
     FAILED                   |-> {"PREPARING"},
     READY                    |-> {"PREPARING", "START_APPROVED"},
     START_APPROVED           |-> {"STARTING"},
     STARTING                 |-> {"LIVE", "START_FAILED"},
     START_FAILED             |-> {"READY", "ABORTED"},
     LIVE                     |-> {"CLOSING_REQUESTED", "EMERGENCY_STOP_REQUESTED"},
     CLOSING_REQUESTED        |-> {"CLOSING", "EMERGENCY_STOP_REQUESTED"},
     CLOSING                  |-> {"STOPPING", "STOP_FAILED", "EMERGENCY_STOP_REQUESTED"},
     STOPPING                 |-> {"COMPLETED", "STOP_FAILED", "EMERGENCY_STOP_REQUESTED"},
     EMERGENCY_STOP_REQUESTED |-> {"EMERGENCY_STOPPING"},
     EMERGENCY_STOPPING       |-> {"EMERGENCY_STOPPED", "STOP_FAILED"},
     STOP_FAILED              |-> {"STOPPING", "EMERGENCY_STOP_REQUESTED"},
     COMPLETED                |-> {},
     EMERGENCY_STOPPED        |-> {},
     ABORTED                  |-> {}]

Statuses == DOMAIN Successors

\* What a session may be saved as when it is one of S: its successors, and LIVE
\* again with an Activity attached.
Saved(S) == (S \cap {"LIVE"}) \cup UNION {Successors[st] : st \in S \cap Statuses}

Init == status = "none" /\ version = 0

Create == status = "none" /\ status' = "CREATED" /\ version' = version

Save ==
    \/ status' \in Saved({status}) /\ version' = version + 1
    \/ status' \in Saved(Saved({status})) /\ version' = version + 2
    \/ status' \in Saved(Saved(Saved({status}))) /\ version' = version + 3

Next == Create \/ Save

Spec == Init /\ [][Next]_<<status, version>>
-----------------------------------------------------------------------------
\* From the request for its end on, a session is not prepared, started or live again,
\* and once it is finished it is not saved any more.
Leaving == {"CLOSING_REQUESTED", "CLOSING", "STOPPING", "EMERGENCY_STOP_REQUESTED",
            "EMERGENCY_STOPPING", "STOP_FAILED"}
Over == {"COMPLETED", "EMERGENCY_STOPPED", "ABORTED"}

NeverBack ==
    [][ /\ status \in Leaving => status' \in Leaving \cup Over
        /\ status \in Over => UNCHANGED <<status, version>> ]_<<status, version>>
================================================================================
