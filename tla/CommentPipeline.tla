----------------------------- MODULE CommentPipeline -----------------------------
(***************************************************************************)
(* CommentRankingUsecase and CommentResponseUsecase behind the LiveChat:   *)
(* every comment that is allowed has a task that adds it to the pool,      *)
(* ranks the pool, reserves the best comment and speaks the answer.        *)
(*                                                                         *)
(* A reservation runs out with time, whether its answer is being spoken or *)
(* not.  A comment is reserved once, so it stands for its selection and    *)
(* for its response activity as well.                                      *)
(***************************************************************************)
EXTENDS LiveChat

CONSTANTS
    PoolSize,       \* max_pool_size
    Retries,        \* RetryCommentResponseCommands
    MaxResponses    \* max_retries of CommentResponseSettings

ASSUME PipelineAssumption ==
    /\ PoolSize \in Nat \ {0} /\ MaxResponses \in Nat
    /\ Retries \cap Comments = {}

VARIABLES
    mainDone,       \* the main segment is COMPLETED
    candidate,      \* the pool: what each comment is in it
    ranking,        \* the comment whose task has the selection lock, and 0
    pool,           \* the candidates it ranks
    selection,      \* CommentResponseTarget.reservation_status
    due,            \* expires_at is over
    selected,       \* the selections, oldest first
    response,       \* StreamCommentResponseActivity: status, attempt, retryable
    pc,             \* where the task of each comment and of each retry is
    subject,        \* the comment it answers
    expected,       \* the attempt a retry was ordered for
    heard           \* history: how often an answer was spoken to its end

replyVars == <<candidate, ranking, pool, selection, due, selected, response>>
taskVars == <<pc, subject, expected>>
vars == <<chatVars, mainDone, replyVars, taskVars, heard>>

Tasks == Comments \cup Retries
NoResponse == [status |-> "none", attempt |-> 0, retryable |-> FALSE]

Init ==
    /\ ChatInit
    /\ mainDone = FALSE
    /\ candidate = [c \in Comments |-> "none"]
    /\ ranking = 0 /\ pool = {}
    /\ selection = [c \in Comments |-> "none"] /\ due = [c \in Comments |-> FALSE]
    /\ selected = <<>>
    /\ response = [c \in Comments |-> NoResponse]
    /\ pc = [t \in Tasks |-> "none"]
    /\ subject = [t \in Tasks |-> 0] /\ expected = [t \in Tasks |-> 0]
    /\ heard = [c \in Comments |-> 0]

Goto(t, step) == pc' = [pc EXCEPT ![t] = step]
MayAnswer == live /\ mainDone

-----------------------------------------------------------------------------
ChatSteps ==
    /\ Post \/ OrderEnd \/ PollerNext
    /\ UNCHANGED <<mainDone, replyVars, taskVars, heard>>

MainCompletes ==
    /\ ~mainDone
    /\ mainDone' = TRUE
    /\ UNCHANGED <<chatVars, replyVars, taskVars, heard>>

\* rank_candidate: a comment that is allowed gets its task.
Moderated ==
    /\ \E verdict \in Verdicts :
        /\ Decide(verdict)
        /\ pc' = IF verdict = "allow" THEN [pc EXCEPT ![Head(page)] = "created"] ELSE pc
    /\ UNCHANGED <<mainDone, replyVars, subject, expected, heard>>

TimePasses(c) ==
    /\ selection[c] = "reserved" /\ ~due[c]
    /\ due' = [due EXCEPT ![c] = TRUE]
    /\ UNCHANGED <<chatVars, mainDone, candidate, ranking, pool, selection, selected,
                   response, taskVars, heard>>

-----------------------------------------------------------------------------
\* current: of the reservations the newest is looked at first, and those it passes
\* that have run out are marked.
Reserved(sel) == {i \in DOMAIN selected : sel[selected[i]] = "reserved"}
Current(sel, over) == {i \in Reserved(sel) : ~over[selected[i]]}
Looked(sel, over) ==
    [c \in Comments |->
        IF \E i \in Reserved(sel) : selected[i] = c /\ \A j \in Current(sel, over) : j < i
        THEN "expired" ELSE sel[c]]

\* Mutant: the pool grows beyond its size.
AddedToAll(c) == [candidate EXCEPT ![c] = "pending"]

\* add: the oldest is pushed out of a full pool.
Added(c) ==
    LET kept == {d \in Comments : candidate[d] # "none"}
        oldest == CHOOSE d \in kept : \A e \in kept : d <= e IN
    [d \in Comments |->
        IF d = c THEN "pending"
        ELSE IF Cardinality(kept) >= PoolSize /\ d = oldest THEN "none"
        ELSE candidate[d]]

\* add_and_select, up to the selection lock.
Add(c) ==
    /\ pc[c] = "created"
    /\ \A d \in 1..(c - 1) : pc[d] # "created"
    /\ candidate' = Added(c)
    /\ Goto(c, "waiting")
    /\ UNCHANGED <<chatVars, mainDone, ranking, pool, selection, due, selected, response,
                   subject, expected, heard>>

\* _select, from the lock to its await: some of the pool have become too old.
BeginRanking(c) ==
    /\ pc[c] = "waiting" /\ ranking = 0
    /\ \A d \in 1..(c - 1) : pc[d] # "waiting"
    /\ selection' = IF MayAnswer THEN Looked(selection, due) ELSE selection
    /\ IF ~MayAnswer \/ Current(selection, due) # {}
       THEN Goto(c, "done") /\ UNCHANGED <<candidate, ranking, pool>>
       ELSE \E old \in SUBSET {d \in Comments : candidate[d] \in {"pending", "ranked"}} :
            /\ candidate' = [d \in Comments |-> IF d \in old THEN "expired" ELSE candidate[d]]
            /\ LET valid == {d \in Comments : candidate'[d] \in {"pending", "ranked"}} IN
               IF valid = {}
               THEN Goto(c, "done") /\ UNCHANGED <<ranking, pool>>
               ELSE Goto(c, "ranking") /\ ranking' = c /\ pool' = valid
    /\ UNCHANGED <<chatVars, mainDone, due, selected, response, subject, expected, heard>>

\* Mutant: a selection that finds nothing keeps the lock.
UnlockOnSuccess(c) == ranking' = IF subject'[c] = 0 THEN c ELSE 0

Unlock(c) == ranking' = 0

\* _rank: whoever has the highest score of those that may be chosen, or (0) nobody.
Winners == pool \cup {0}

\* CommentResponseUsecase.start, by the task of c, of the selection just reserved:
\* no await is between the gate's last answer and this one, so it is not refused.
BeginsAnswer(c, best) ==
    /\ response' = [response EXCEPT ![best] =
                        [status |-> "SPEAKING", attempt |-> 1, retryable |-> FALSE]]
    /\ subject' = [subject EXCEPT ![c] = best]
    /\ Goto(c, "speaking")

\* The end of the ranking: the stream is over, or nobody wins, or the winner is
\* reserved and its answer begins.
EndRanking(c) ==
    LET ranked == [d \in Comments |-> IF d \in pool /\ candidate[d] # "none"
                                      THEN "ranked" ELSE candidate[d]] IN
    /\ pc[c] = "ranking"
    /\ pool' = {}
    /\ \E best \in Winners :
        IF ~MayAnswer \/ best = 0
        THEN /\ candidate' = IF MayAnswer THEN ranked ELSE candidate
             /\ Goto(c, "done") /\ UNCHANGED <<selection, selected, response, subject>>
        ELSE /\ candidate' = IF ranked[best] = "none" THEN ranked
                             ELSE [ranked EXCEPT ![best] = "selected"]
             /\ selection' = [selection EXCEPT ![best] = "reserved"]
             /\ selected' = Append(selected, best)
             /\ BeginsAnswer(c, best)
    /\ Unlock(c)
    /\ UNCHANGED <<chatVars, mainDone, due, expected, heard>>

-----------------------------------------------------------------------------
Finish(c, st, retryable) ==
    response' = [response EXCEPT ![c].status = st, ![c].retryable = retryable]

\* Mutant: the reservation is not given back.
FailKeeping(c) == Finish(c, "FAILED", TRUE) /\ UNCHANGED selection

\* _fail: the answer may be retried when its reservation could be released.
Fail(c) ==
    LET sel == IF selection[c] = "reserved" THEN Looked(selection, due) ELSE selection IN
    /\ Finish(c, "FAILED", sel[c] = "reserved")
    /\ selection' = IF sel[c] = "reserved" THEN [sel EXCEPT ![c] = "released"] ELSE sel

\* The speech failed, was canceled, or raised.
SpeechFails(t) ==
    /\ pc[t] = "speaking"
    /\ Fail(subject[t])
    /\ Goto(t, "done")
    /\ UNCHANGED <<chatVars, mainDone, candidate, ranking, pool, due, selected, subject,
                   expected, heard>>

\* It was heard: the reservation is consumed, also when its time is over and nobody
\* has looked since.
SpeechEnds(t) ==
    LET c == subject[t] IN
    /\ pc[t] = "speaking"
    /\ heard' = [heard EXCEPT ![c] = @ + 1]
    /\ IF selection[c] = "reserved"
       THEN Finish(c, "COMPLETED", FALSE) /\ selection' = [selection EXCEPT ![c] = "consumed"]
       ELSE Fail(c)
    /\ Goto(t, "done")
    /\ UNCHANGED <<chatVars, mainDone, candidate, ranking, pool, due, selected, subject, expected>>

\* The operator saw a response that has failed, and asks for another attempt.
SeeFailure(r, c) ==
    /\ pc[r] = "none" /\ response[c].status = "FAILED"
    /\ subject' = [subject EXCEPT ![r] = c]
    /\ expected' = [expected EXCEPT ![r] = response[c].attempt]
    /\ Goto(r, "created")
    /\ UNCHANGED <<chatVars, mainDone, replyVars, heard>>

\* Mutant: a reservation that ran out can be had again.
ReacquirableEver(c) == selection[c] \in {"released", "expired"}

\* reserve_released
Reacquirable(c) == selection[c] = "released"

\* retry: the reservation is looked for and the gate is asked after the activity
\* runs, so a refusal is one more attempt that failed.
Retry(r) ==
    LET c == subject[r]
        taken == [selection EXCEPT ![c] = "reserved"] IN
    /\ pc[r] = "created"
    /\ IF response[c].status = "FAILED" /\ response[c].attempt = expected[r]
            /\ response[c].attempt <= MaxResponses /\ Reacquirable(c)
       THEN /\ due' = [due EXCEPT ![c] = FALSE]
            /\ response' = [response EXCEPT ![c] =
                    [status |-> IF MayAnswer THEN "SPEAKING" ELSE "FAILED",
                     attempt |-> @.attempt + 1, retryable |-> ~MayAnswer]]
            /\ selection' = [Looked(taken, due') EXCEPT
                                ![c] = IF MayAnswer THEN "reserved" ELSE "released"]
            /\ Goto(r, IF MayAnswer THEN "speaking" ELSE "done")
       ELSE Goto(r, "done") /\ UNCHANGED <<due, response, selection>>
    /\ UNCHANGED <<chatVars, mainDone, candidate, ranking, pool, selected, subject, expected,
                   heard>>

-----------------------------------------------------------------------------
TaskNext(t) ==
    \/ t \in Comments /\ (Add(t) \/ BeginRanking(t) \/ EndRanking(t))
    \/ t \in Retries /\ Retry(t)
    \/ SpeechFails(t) \/ SpeechEnds(t)

Next ==
    \/ ChatSteps \/ MainCompletes \/ Moderated
    \/ \E c \in Comments : TimePasses(c)
    \/ \E t \in Tasks : TaskNext(t)
    \/ \E r \in Retries, c \in Comments : SeeFailure(r, c)

\* The tasks are scheduled, and every model and every speech answers.  Nobody is
\* obliged to post or to order anything, nor the poller to go on.
Fairness == \A t \in Tasks : WF_vars(TaskNext(t))
Spec == Init /\ [][Next]_vars
FairSpec == Spec /\ Fairness
-----------------------------------------------------------------------------
\* Type invariant.
TypeOK ==
    /\ ChatTypeOK
    /\ mainDone \in BOOLEAN
    /\ candidate \in [Comments -> {"none", "pending", "ranked", "selected", "expired"}]
    /\ Cardinality({c \in Comments : candidate[c] # "none"}) <= PoolSize
    /\ ranking \in 0..MaxComments /\ pool \subseteq Comments
    /\ selection \in [Comments -> {"none", "reserved", "released", "consumed", "expired"}]
    /\ due \in [Comments -> BOOLEAN] /\ selected \in Seq(Comments)
    /\ response \in [Comments -> [status : {"none", "SPEAKING", "COMPLETED", "FAILED"},
                                  attempt : Nat, retryable : BOOLEAN]]
    /\ pc \in [Tasks -> {"none", "created", "waiting", "ranking", "speaking", "done"}]
    /\ subject \in [Tasks -> 0..MaxComments] /\ expected \in [Tasks -> Nat]
    /\ heard \in [Comments -> Nat]

\* docs/plugins/youtube_streaming_plugin.md: the same comment is not answered
\* twice, though its reservation may run out while the answer is spoken and the
\* response is then called FAILED (_execute, _fail, reserve_released).
AnsweredOnce == \A c \in Comments : heard[c] <= 1

\* The reservation and the response, kept in two repositories, agree whenever no
\* task is between them: a completed answer has consumed its reservation, and one
\* that is called retryable can be had again.
ReservationMatchesResponse ==
    \A c \in Comments :
        /\ response[c].status = "COMPLETED" <=> selection[c] = "consumed"
        /\ response[c].status = "FAILED" => (response[c].retryable <=> selection[c] = "released")
        /\ response[c].status = "SPEAKING" =>
              Cardinality({t \in Tasks : pc[t] = "speaking" /\ subject[t] = c}) = 1

\* Nobody holds the selection for ever: when no more comments come, each task of a
\* comment that was allowed has come to its end, whatever became of the stream.
EveryTaskEnds == <>[](\A c \in Comments : pc[c] \in {"none", "done"})
================================================================================
