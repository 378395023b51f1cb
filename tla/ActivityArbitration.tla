------------------------- MODULE ActivityArbitration -------------------------
(***************************************************************************)
(* The operations of the ActivityManager in                                *)
(* app/runtime/activity_manager.py, as functions of a manager record.      *)
(* Every operation runs under the manager's RLock, so each is one step of  *)
(* the specifications that use them: ActivityManager, where any operation  *)
(* may come at any time, and RuntimeActivities, where the program's own    *)
(* threads and tasks call them.                                            *)
(*                                                                         *)
(* An Activity stands for the event or request it is created from:         *)
(* source_event_id makes that correspondence one to one.                   *)
(***************************************************************************)
EXTENDS Naturals

CONSTANTS
    Activity,       \* every Activity that may be created in a behaviour
    NoActivity,     \* "no foreground"
    kindOf          \* kindOf[a] is the activity_type of a, up to Kinds

\* Activity types grouped by how the code treats them.
Kinds == {"conversation", "startup", "explicit", "autonomous", "idle"}

ASSUME KindAssumption == kindOf \in [Activity -> Kinds]
ASSUME NoActivityAssumption == NoActivity \notin Activity

-----------------------------------------------------------------------------
\* Priorities after DefaultEventPrioritizer's bonus, and for "explicit" the
\* lowest one the streaming plugin asks for.
Priority(a) ==
    CASE kindOf[a] = "explicit"     -> 193
      [] kindOf[a] = "conversation" -> 150
      [] kindOf[a] = "startup"      -> 110
      [] kindOf[a] = "autonomous"   -> 65
      [] OTHER                      -> 23

Interruptible(a) == kindOf[a] \in {"autonomous", "idle"}

\* ABSENT: the manager has not been given the Activity.  The code's WAITING
\* is assigned nowhere.
Statuses == {"ABSENT", "PENDING", "ACTIVE", "SUSPENDED", "COMPLETED", "CANCELED"}
Terminal == {"COMPLETED", "CANCELED"}

\* The manager's state: _activities with its insertion order, and
\* _foreground_activity_id.
Managers == [status     : [Activity -> Statuses],
             foreground : Activity \cup {NoActivity},
             arrival    : [Activity -> Nat],
             count      : Nat]

EmptyManager == [status     |-> [a \in Activity |-> "ABSENT"],
                 foreground |-> NoActivity,
                 arrival    |-> [a \in Activity |-> 0],
                 count      |-> 0]

WithStatus(m, a, s) == [m EXCEPT !.status = [m.status EXCEPT ![a] = s]]

\* An Activity enters the _activities dict, behind every earlier one.
Insert(m, a, s) ==
    [status     |-> [m.status EXCEPT ![a] = s],
     foreground |-> m.foreground,
     arrival    |-> [m.arrival EXCEPT ![a] = m.count],
     count      |-> m.count + 1]

Activate(m, a) ==
    [m EXCEPT !.status = [m.status EXCEPT ![a] = "ACTIVE"], !.foreground = a]

ShouldActivate(current, new) ==
    Interruptible(current) /\ Priority(new) > Priority(current)

\* _resolve_activity: arbitrate a new Activity against the foreground.
Resolve(m, a) ==
    LET current == m.foreground IN
    IF current = NoActivity
    THEN Activate(Insert(m, a, "ACTIVE"), a)
    ELSE IF ShouldActivate(current, a)
    THEN Activate(Insert(WithStatus(m, current, "SUSPENDED"), a, "ACTIVE"), a)
    ELSE Insert(m, a, "PENDING")

\* Mutant: an Activity prepared for the event is not looked for.
HandleEventAfresh(m, a) == Resolve(m, a)

\* handle_event reuses the Activity already made for the event.
HandleEvent(m, a) == IF m.status[a] = "ABSENT" THEN Resolve(m, a) ELSE m

\* prepare_user_input: a USER_TEXT sets an interruptible autonomous talk aside
\* at once and reserves the conversation; otherwise nothing is reserved.
PrepareUserInput(m, a) ==
    LET current == m.foreground IN
    IF /\ m.status[a] = "ABSENT"
       /\ current # NoActivity
       /\ kindOf[current] = "autonomous"
    THEN Activate(Insert(WithStatus(m, current, "SUSPENDED"), a, "ACTIVE"), a)
    ELSE m

Clear(m, a) == IF m.foreground = a THEN [m EXCEPT !.foreground = NoActivity] ELSE m

\* Mutant: the status is not one of ActivityStatus.
CancelMisspelt(m, a) ==
    IF m.status[a] \in Terminal \cup {"ABSENT"}
    THEN m
    ELSE Clear(WithStatus(m, a, "CANCELLED"), a)

\* Mutant: the cancelled Activity stays the foreground.
CancelInPlace(m, a) ==
    IF m.status[a] \in Terminal \cup {"ABSENT"} THEN m ELSE WithStatus(m, a, "CANCELED")

\* cancel_activity leaves a finished Activity alone.
Cancel(m, a) ==
    IF m.status[a] \in Terminal \cup {"ABSENT"}
    THEN m
    ELSE Clear(WithStatus(m, a, "CANCELED"), a)

\* complete_activity has no such guard: whatever the status was, it is now
\* COMPLETED.
Complete(m, a) ==
    IF m.status[a] = "ABSENT" THEN m ELSE Clear(WithStatus(m, a, "COMPLETED"), a)

Deferred(m) == {a \in Activity : /\ kindOf[a] = "autonomous"
                                 /\ m.status[a] \in {"PENDING", "SUSPENDED"}}

\* discard_deferred_autonomous.  A deferred Activity is never the foreground,
\* so no foreground is cleared.
DiscardDeferred(m) ==
    [m EXCEPT !.status =
        [a \in Activity |-> IF a \in Deferred(m) THEN "CANCELED" ELSE m.status[a]]]

\* Mutant: suspended Activities are candidates too.
NextDeferred(m) ==
    LET Candidates == {a \in Activity : m.status[a] \in {"PENDING", "SUSPENDED"}} IN
    {a \in Candidates : \A b \in Candidates :
        \/ Priority(a) > Priority(b)
        \/ Priority(a) = Priority(b) /\ m.arrival[a] <= m.arrival[b]}

\* Mutant: the latest inserted among equals.
NextPendingLatest(m) ==
    LET Pending == {a \in Activity : m.status[a] = "PENDING"} IN
    {a \in Pending : \A b \in Pending :
        \/ Priority(a) > Priority(b)
        \/ Priority(a) = Priority(b) /\ m.arrival[a] >= m.arrival[b]}

\* resume_next_pending's choice: the highest priority, the earliest inserted
\* among equals.
NextPending(m) ==
    LET Pending == {a \in Activity : m.status[a] = "PENDING"} IN
    {a \in Pending : \A b \in Pending :
        \/ Priority(a) > Priority(b)
        \/ Priority(a) = Priority(b) /\ m.arrival[a] <= m.arrival[b]}

\* The managers resume_next_pending may leave: one, unless it had nothing to
\* resume and left the manager as it was.
ResumeNextPending(m) ==
    IF \A a \in Activity : m.status[a] # "PENDING"
    THEN {m}
    ELSE {Activate(m, a) : a \in NextPending(m)}

\* Mutant: nothing is resumed.
CompleteWithoutResuming(m, a) ==
    LET discarded == IF kindOf[a] = "conversation" /\ m.status[a] # "ABSENT"
                     THEN DiscardDeferred(m) ELSE m
    IN {Complete(discarded, a)}

\* complete_processed_activity: only the foreground's completion resumes.
CompleteProcessed(m, a) ==
    LET discarded == IF kindOf[a] = "conversation" /\ m.status[a] # "ABSENT"
                     THEN DiscardDeferred(m) ELSE m
        completed == Complete(discarded, a)
    IN IF m.foreground = a THEN ResumeNextPending(completed) ELSE {completed}
=============================================================================
