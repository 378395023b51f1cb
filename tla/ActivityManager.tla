--------------------------- MODULE ActivityManager ---------------------------
(***************************************************************************)
(* What the ActivityManager of app/runtime/activity_manager.py promises,   *)
(* whoever calls it: which Activity is in the foreground, and what status  *)
(* every Activity it was ever given has.  The callers are arbitrary here.  *)
(* RuntimeActivities supplies the ones the program has and is shown to     *)
(* implement this specification.                                           *)
(***************************************************************************)
EXTENDS ActivityArbitration

VARIABLE mgr

ManagerInit == mgr = EmptyManager

Handle(a) == mgr' = HandleEvent(mgr, a)

Prepare(a) == kindOf[a] = "conversation" /\ mgr' = PrepareUserInput(mgr, a)

\* register_plugin_activity and create_game_activity: always a new Activity.
Register(a) == mgr.status[a] = "ABSENT" /\ mgr' = Resolve(mgr, a)

Finish(a) == mgr.status[a] # "ABSENT" /\ mgr' \in CompleteProcessed(mgr, a)

CancelActivity(a) == mgr' = Cancel(mgr, a)

Discard == mgr' = DiscardDeferred(mgr)

\* complete_foreground_activity is complete_processed_activity of the
\* foreground, without the lock around the whole; only tests call it.
FinishForeground == mgr.foreground # NoActivity /\ Finish(mgr.foreground)

ManagerNext ==
    \/ \E a \in Activity : Handle(a) \/ Prepare(a) \/ Register(a)
                           \/ Finish(a) \/ CancelActivity(a)
    \/ Discard
    \/ FinishForeground

ManagerSpec == ManagerInit /\ [][ManagerNext]_mgr

-----------------------------------------------------------------------------
\* Type invariant.
ManagerTypeOK == mgr \in Managers

\* One Activity at a time: the foreground is ACTIVE and nothing else is,
\* whatever mixture of suspensions, cancellations, completions out of order
\* and resumptions led here (_foreground_activity_id against the statuses).
ForegroundIsTheActive ==
    \A a \in Activity : mgr.status[a] = "ACTIVE" <=> mgr.foreground = a

\* Nothing waits while nobody has the floor, unless a cancellation emptied it:
\* cancel_activity is the only operation that clears the foreground without
\* resume_next_pending.  As an action property: the step that leaves pending
\* Activities without a foreground is a cancellation.
Waiting(m) == {a \in Activity : m.status[a] = "PENDING"}
Unattended(m) == m.foreground = NoActivity /\ Waiting(m) # {}
OnlyCancellationStrands ==
    [][ (~Unattended(mgr) /\ Unattended(mgr')) =>
        /\ mgr.foreground \in Activity
        /\ mgr'.status[mgr.foreground] = "CANCELED" ]_mgr

\* No way back: a COMPLETED Activity stays so, a CANCELED one is never queued
\* or activated again (it can still be overwritten with COMPLETED by the
\* thread that was executing it), and a SUSPENDED one is never resumed.
NeverRevived ==
    [][ \A a \in Activity :
        /\ mgr.status[a] = "COMPLETED" => mgr'.status[a] = "COMPLETED"
        /\ mgr.status[a] = "CANCELED"  => mgr'.status[a] \in Terminal
        /\ mgr.status[a] = "SUSPENDED" => mgr'.status[a] \in Terminal \cup {"SUSPENDED"} ]_mgr

\* Who may take the floor from whom: an ACTIVE Activity that is not
\* interruptible loses the foreground only by finishing or being cancelled,
\* and an interruptible one is set aside only for a higher priority.
FloorIsKept ==
    [][ \A a \in Activity :
        (mgr.foreground = a /\ mgr'.foreground # a /\ mgr'.status[a] \notin Terminal) =>
        /\ Interruptible(a)
        /\ mgr'.foreground \in Activity
        /\ Priority(mgr'.foreground) > Priority(a) ]_mgr

\* The resumed Activity is the one the user would expect: no Activity of
\* higher priority, or of the same priority and inserted earlier, is passed
\* over when a PENDING Activity is activated.
ResumesInOrder ==
    [][ \A a, b \in Activity :
        (/\ mgr.status[a] = "PENDING" /\ mgr'.status[a] = "ACTIVE"
         /\ mgr.status[b] = "PENDING" /\ mgr'.status[b] = "PENDING")
        => \/ Priority(a) > Priority(b)
           \/ Priority(a) = Priority(b) /\ mgr.arrival[a] < mgr.arrival[b] ]_mgr

\* A conversation ends with a clean slate: once it completes no autonomous
\* talk from before it is waiting to be resumed.
ConversationEndsDeferred ==
    [][ \A a \in Activity :
        (/\ kindOf[a] = "conversation"
         /\ mgr.status[a] # "COMPLETED" /\ mgr'.status[a] = "COMPLETED")
        => \A b \in Activity : kindOf[b] = "autonomous"
               => mgr'.status[b] \notin {"PENDING", "SUSPENDED"} ]_mgr
=============================================================================
