-------------------------------- MODULE LiveChat --------------------------------
(***************************************************************************)
(* YouTubeLiveChatPoller and CommentModerationUsecase: the comments of a   *)
(* live stream are fetched page by page, each is marked as seen, judged,   *)
(* and made a candidate for an answer.                                     *)
(*                                                                         *)
(* The poller is one task of the asyncio loop.  It awaits the page, the    *)
(* judgement of every comment (which asks a model where one is configured) *)
(* and its pause; the end of the stream may be ordered at each of them.    *)
(***************************************************************************)
EXTENDS Integers, Sequences, FiniteSets

CONSTANTS
    MaxComments,    \* bound: comments that are posted
    PerPoll,        \* max_events_per_second, applied to a page
    MaxRetries,     \* max_retries
    MaxPolls        \* bound: polls, successful or not

ASSUME ChatAssumption ==
    /\ {MaxComments, MaxRetries, MaxPolls} \subseteq Nat
    /\ PerPoll \in Nat \ {0}

VARIABLES
    posted,         \* the chat is 1..posted
    live,           \* what the lifecycle gate says of the session
    pollerPc,       \* where the poller's task is
    pollerStatus,   \* LiveChatPollingStatus.status
    attempt,        \* LiveChatPollingStatus.attempt
    stopSet,        \* YouTubeLiveChatPoller._stop
    seen,           \* the deduplication's keys
    page,           \* the comments of the page that are still to be passed on
    dropping,       \* how many of the page will not be
    dropped,        \* LiveChatPollingStatus.dropped_count
    decision        \* the moderation's decisions

chatVars == <<posted, live, pollerPc, pollerStatus, attempt, stopSet, seen,
              page, dropping, dropped, decision>>

Comments == 1..MaxComments

ChatInit ==
    /\ posted = 0 /\ live = TRUE
    /\ pollerPc = "poll" /\ pollerStatus = "running"
    /\ attempt = 0 /\ stopSet = FALSE
    /\ seen = {} /\ page = <<>> /\ dropping = 0 /\ dropped = 0
    /\ decision = [c \in Comments |-> "none"]

Post ==
    /\ posted < MaxComments
    /\ posted' = posted + 1
    /\ UNCHANGED <<live, pollerPc, pollerStatus, attempt, stopSet, seen, page,
                   dropping, dropped, decision>>

\* approve_end and emergency_stop stop the poller before the end is validated.
OrderEnd ==
    /\ ~stopSet \/ live
    /\ stopSet' = TRUE
    /\ pollerStatus' = "stopped"
    /\ live' \in {FALSE, live}
    /\ UNCHANGED <<posted, pollerPc, attempt, seen, page, dropping, dropped,
                   decision>>

\* _stop_for_lifecycle: what was left of the page goes with the task.
StopForLifecycle ==
    /\ pollerPc' = "dead" /\ pollerStatus' = "stopped"
    /\ page' = <<>> /\ dropping' = 0
    /\ UNCHANGED <<posted, live, attempt, stopSet, seen, dropped, decision>>

-----------------------------------------------------------------------------
\* run, poll_once

BeginPoll ==
    /\ pollerPc = "poll" /\ attempt < MaxPolls
    /\ IF stopSet
       THEN /\ pollerPc' = "dead"
            /\ UNCHANGED <<posted, live, pollerStatus, attempt, stopSet, seen, page,
                           dropping, dropped, decision>>
       ELSE IF ~live THEN StopForLifecycle
       ELSE /\ attempt' = attempt + 1
            /\ pollerPc' = "fetching"
            /\ UNCHANGED <<posted, live, pollerStatus, stopSet, seen, page,
                           dropping, dropped, decision>>

FirstOf(fresh) == SubSeq(fresh, 1, IF Len(fresh) < PerPoll THEN Len(fresh) ELSE PerPoll)

\* Mutant: what a page has too much of is not counted.
KeepUncounted(fresh) ==
    /\ page' = FirstOf(fresh)
    /\ dropping' = 0

\* The comments of the page that nobody has seen, as far as the rate allows.
Keep(fresh) ==
    /\ page' = FirstOf(fresh)
    /\ dropping' = Len(fresh) - Len(page')

\* _next_token: the next page begins behind the comments of the last one.
Token == Cardinality(seen)

\* check_and_mark
Unseen(c) == c \notin seen

\* The comments of S as a page has them.
InOrder(S) ==
    CHOOSE s \in [1..Cardinality(S) -> S] : \A i, j \in DOMAIN s : i < j => s[i] < s[j]

\* A page begins at the token, or overlaps with the last one.
PageArrives ==
    /\ pollerPc = "fetching"
    /\ IF ~live THEN StopForLifecycle
       ELSE /\ \E from \in 0..Token : Keep(InOrder({c \in (from + 1)..posted : Unseen(c)}))
            /\ seen' = seen \cup 1..posted
            /\ pollerPc' = "page"
            /\ UNCHANGED <<posted, live, pollerStatus, attempt, stopSet, dropped,
                           decision>>

\* _classify_error: the chat has ended, or it may be retried, or it may not.
Errors == {e \in [retryable : BOOLEAN, ended : BOOLEAN] : e.ended => ~e.retryable}

\* _handle_error: the pause is longer, or the task ends.
FetchFails ==
    /\ pollerPc = "fetching"
    /\ \E e \in Errors :
        IF e.retryable /\ attempt <= MaxRetries
        THEN pollerStatus' = "backing_off" /\ pollerPc' = "poll"
        ELSE /\ pollerStatus' = IF e.ended THEN "stopped" ELSE "failed"
             /\ pollerPc' = IF e.retryable THEN "gaveUp" ELSE "dead"
    /\ UNCHANGED <<posted, live, attempt, stopSet, seen, page, dropping, dropped,
                   decision>>

\* The next comment of the page is handed to the moderation.
HandOver ==
    /\ pollerPc = "page" /\ page # <<>>
    /\ IF ~live THEN StopForLifecycle
       ELSE /\ pollerPc' = "moderating"
            /\ UNCHANGED <<posted, live, pollerStatus, attempt, stopSet, seen, page,
                           dropping, dropped, decision>>

\* The rules and the model may say anything of a comment, and a model that fails or
\* takes too long leaves it to a review.  What is blocked, ignored or to be reviewed
\* is withheld alike.
Verdicts == {"allow", "withhold"}

\* evaluate_event: the stream may be over by the time the model has answered.
Decide(verdict) ==
    /\ pollerPc = "moderating"
    /\ verdict \in IF live THEN Verdicts ELSE {"withhold"}
    /\ decision' = [decision EXCEPT ![Head(page)] = verdict]
    /\ page' = Tail(page)
    /\ pollerPc' = "page"
    /\ UNCHANGED <<posted, live, pollerStatus, attempt, stopSet, seen, dropping,
                   dropped>>

PageEnds ==
    /\ pollerPc = "page" /\ page = <<>>
    /\ dropped' = dropped + dropping /\ dropping' = 0
    /\ pollerStatus' = "running"
    /\ pollerPc' = "poll"
    /\ UNCHANGED <<posted, live, attempt, stopSet, seen, page, decision>>

PollerNext == BeginPoll \/ PageArrives \/ FetchFails \/ HandOver \/ PageEnds
-----------------------------------------------------------------------------
ChatTypeOK ==
    /\ posted \in 0..MaxComments /\ live \in BOOLEAN
    /\ pollerPc \in {"poll", "fetching", "page", "moderating", "gaveUp", "dead"}
    /\ pollerStatus \in {"running", "backing_off", "stopped", "failed"}
    /\ {attempt, dropping, dropped} \subseteq Nat
    /\ stopSet \in BOOLEAN /\ seen \subseteq Comments
    /\ page \in Seq(Comments) /\ Len(page) <= PerPoll
    /\ decision \in [Comments -> Verdicts \cup {"none"}]

\* A comment that was marked as seen is never fetched again.  So it is decided on,
\* waits in the page, or is one of those the status counts as dropped, unless the
\* task that had it is over (check_and_mark before the sink, poll_once).
SeenIsAccountedFor ==
    \/ pollerPc = "dead"
    \/ Cardinality({c \in seen : decision[c] = "none"}) = Len(page) + dropping + dropped
================================================================================
