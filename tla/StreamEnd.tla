------------------------------- MODULE StreamEnd -------------------------------
(***************************************************************************)
(* EndStreamSessionUsecase: the normal end and the emergency stop of a     *)
(* live StreamSession, ordered by several commands of the operators at the *)
(* same time.                                                              *)
(*                                                                         *)
(* Every command is a task of the runtime's asyncio loop.  It is validated *)
(* and carried out under one asyncio.Lock, with an await at the farewell   *)
(* speech and at each call to OBS or YouTube.  An emergency stop does not  *)
(* wait for the lock to cancel the outputs and the task of a normal end.   *)
(*                                                                         *)
(* The farewell's Activity is planned, where cancelling the task raises    *)
(* CancelledError, and output by the ActionScheduler, where it makes a     *)
(* canceled SPEAK instead (see ActionScheduler).                           *)
(***************************************************************************)
EXTENDS Integers, SequencesExt

CONSTANTS
    Normal,         \* ApproveNormalStreamEndCommands
    Emergency,      \* EmergencyStopStreamCommands
    NoCommand

ASSUME CommandAssumption ==
    /\ Normal \cap Emergency = {}
    /\ NoCommand \notin Normal \cup Emergency

VARIABLES
    status,         \* StreamSession.status
    version,        \* StreamSession.state_version
    main,           \* the main segment's Activity
    closing,        \* StreamClosingActivity.status
    speech,         \* how far the farewell's Activity is
    obs, broadcast, \* what OBS and YouTube do
    stopped,        \* ActionScheduler._prevent_new_actions
    pc,             \* where the task of each command is
    expected,       \* its expected_state_version
    cancelled,      \* Task.cancel was called and has not taken effect
    outcome,        \* what became of the command
    lock, queue,    \* _lock: its holder, and the tasks that wait for it
    normalTask,     \* _normal_task
    arrived         \* history: the session's version when the command came

sessionVars == <<status, version, main>>
closingVars == <<closing, speech>>
worldVars == <<obs, broadcast>>
lockVars == <<lock, queue, normalTask>>
clientVars == <<expected, arrived>>
vars == <<sessionVars, closingVars, worldVars, stopped, pc, cancelled, outcome,
          lockVars, clientVars>>

Command == Normal \cup Emergency

\* CLOSING_REQUESTED and EMERGENCY_STOP_REQUESTED are left before any await.
Statuses == {"LIVE", "CLOSING", "STOPPING", "COMPLETED",
             "EMERGENCY_STOPPING", "EMERGENCY_STOPPED", "STOP_FAILED"}
Ending == {"CLOSING", "STOPPING"}
Finished == {"COMPLETED", "EMERGENCY_STOPPED"}
\* "late": OBS did not become idle, and an emergency stop goes on to YouTube.
Calls == {"broadcast", "obs", "confirm", "late"}

Init ==
    /\ status = "LIVE" /\ version = 0 /\ main = "none"
    /\ closing = "none" /\ speech = "none"
    /\ obs = "active" /\ broadcast = "live"
    /\ stopped = FALSE
    /\ pc = [c \in Command |-> "new"]
    /\ expected = [c \in Command |-> 0]
    /\ cancelled = [c \in Command |-> FALSE]
    /\ outcome = [c \in Command |-> "none"]
    /\ lock = NoCommand /\ queue = <<>> /\ normalTask = NoCommand
    /\ arrived = [c \in Command |-> 0]

Goto(c, step) == pc' = [pc EXCEPT ![c] = step]

\* The other tasks are at an await.
LoopFree(c) == \A d \in Command \ {c} : pc[d] # "ready"

\* What the lock's holder does last: with a result or an exception.
Leave(c, result) ==
    /\ lock' = NoCommand
    /\ normalTask' = IF normalTask = c THEN NoCommand ELSE normalTask
    /\ Goto(c, "done")
    /\ outcome' = [outcome EXCEPT ![c] = result]
    /\ cancelled' = [cancelled EXCEPT ![c] = FALSE]
    /\ UNCHANGED <<queue, stopped, clientVars>>

Continue(c, step) ==
    /\ Goto(c, step)
    /\ UNCHANGED <<lockVars, outcome, cancelled, stopped, clientVars>>

SetStatus(s, steps) == status' = s /\ version' = version + steps /\ UNCHANGED main

-----------------------------------------------------------------------------
\* The stream goes on: attach_main_segment, and the end of the main segment.
MainStarts ==
    /\ LoopFree(NoCommand)
    /\ status = "LIVE" /\ main = "none"
    /\ main' = "running"
    /\ version' = version + 1
    /\ UNCHANGED <<status, closingVars, worldVars, stopped, pc, cancelled, outcome,
                   lockVars, clientVars>>

MainCompletes ==
    /\ LoopFree(NoCommand)
    /\ main = "running" /\ ~stopped
    /\ main' = "completed"
    /\ UNCHANGED <<status, version, closingVars, worldVars, stopped, pc, cancelled,
                   outcome, lockVars, clientVars>>

-----------------------------------------------------------------------------
\* A client reads the session, and later sends its command.
Read(c) ==
    /\ pc[c] = "new"
    /\ LoopFree(c)
    /\ expected' = [expected EXCEPT ![c] = version]
    /\ Goto(c, "read")
    /\ UNCHANGED <<sessionVars, closingVars, worldVars, stopped, cancelled, outcome,
                   lockVars, arrived>>

\* Acquires the lock, or waits for it behind the others.
AcquireOrWait(c) ==
    \/ /\ lock = NoCommand /\ queue = <<>>
       /\ lock' = c
       /\ Goto(c, "ready")
       /\ UNCHANGED queue
    \/ /\ lock # NoCommand \/ queue # <<>>
       /\ queue' = Append(queue, c)
       /\ Goto(c, "queued")
       /\ UNCHANGED lock

ArriveNormal(n) ==
    /\ pc[n] = "read"
    /\ LoopFree(n)
    /\ normalTask' = n
    /\ AcquireOrWait(n)
    /\ arrived' = [arrived EXCEPT ![n] = version]
    /\ UNCHANGED <<sessionVars, closingVars, worldVars, stopped, cancelled, outcome, expected>>

\* emergency: cancel_outputs and the task's cancellation come first, whatever
\* becomes of the command.  For a task inside the scheduler the two are one
\* CancelledError, which the scheduler makes a result of.
ArriveEmergency(e) ==
    /\ pc[e] = "read"
    /\ LoopFree(e)
    /\ stopped' = TRUE
    /\ speech' = IF speech = "output" THEN "canceled" ELSE speech
    /\ cancelled' = [c \in Command |->
                        cancelled[c] \/ (c = normalTask
                                         /\ ~(pc[c] = "closing" /\ speech \in {"output", "canceled"}))]
    /\ AcquireOrWait(e)
    /\ arrived' = [arrived EXCEPT ![e] = version]
    /\ UNCHANGED <<sessionVars, closing, worldVars, outcome, normalTask, expected>>

\* The lock is passed on in order of arrival.
Enter(c) ==
    /\ pc[c] = "queued" /\ ~cancelled[c]
    /\ LoopFree(c)
    /\ lock = NoCommand
    /\ queue # <<>> /\ Head(queue) = c
    /\ lock' = c
    /\ queue' = Tail(queue)
    /\ Goto(c, "ready")
    /\ UNCHANGED <<sessionVars, closingVars, worldVars, stopped, cancelled, outcome,
                   normalTask, clientVars>>

CancelledQueued(n) ==
    /\ pc[n] = "queued" /\ cancelled[n]
    /\ LoopFree(n)
    /\ \E i \in DOMAIN queue : queue[i] = n /\ queue' = RemoveAt(queue, i)
    /\ normalTask' = IF normalTask = n THEN NoCommand ELSE normalTask
    /\ Goto(n, "done")
    /\ outcome' = [outcome EXCEPT ![n] = "cancelled"]
    /\ cancelled' = [cancelled EXCEPT ![n] = FALSE]
    /\ UNCHANGED <<sessionVars, closingVars, worldVars, stopped, lock, clientVars>>

-----------------------------------------------------------------------------
\* _normal_locked

RejectNormal(n) ==
    /\ pc[n] = "ready"
    /\ \/ version # expected[n]
       \/ status \notin {"LIVE", "STOP_FAILED"}
       \/ main # "completed"
    /\ Leave(n, "rejected")
    /\ UNCHANGED <<sessionVars, closingVars, worldVars>>

AcceptsNormal(n) == pc[n] = "ready" /\ version = expected[n] /\ main = "completed"

\* LIVE: by CLOSING_REQUESTED to CLOSING, and the farewell begins, unless the
\* RunOfShow has none.
BeginClosing(n) ==
    /\ AcceptsNormal(n)
    /\ status = "LIVE"
    /\ \/ /\ SetStatus("CLOSING", 2)
          /\ closing' = "RUNNING" /\ speech' = "planning"
          /\ Continue(n, "closing")
       \/ /\ SetStatus("STOP_FAILED", 3)
          /\ Leave(n, "failed")
          /\ UNCHANGED closingVars
    /\ UNCHANGED worldVars

\* STOP_FAILED: what is left is the external stop.  The lifecycle gate does not
\* allow a farewell now.
ResumeStop(n) ==
    /\ AcceptsNormal(n)
    /\ status = "STOP_FAILED"
    /\ \/ /\ closing = "COMPLETED"
          /\ SetStatus("STOPPING", 1)
          /\ Continue(n, "broadcast")
       \/ /\ closing # "COMPLETED"
          /\ Leave(n, "failed")
          /\ UNCHANGED sessionVars
    /\ UNCHANGED <<closingVars, worldVars>>

\* Mutant: output is not refused after an emergency stop.
FarewellPlannedAnyway(n) ==
    /\ pc[n] = "closing" /\ speech = "planning" /\ ~cancelled[n]
    /\ LoopFree(n)
    /\ speech' = "output"
    /\ Continue(n, "closing")
    /\ UNCHANGED <<sessionVars, closing, worldVars>>

FarewellPlanned(n) ==
    /\ pc[n] = "closing" /\ speech = "planning" /\ ~cancelled[n]
    /\ LoopFree(n)
    /\ speech' = IF stopped THEN "canceled" ELSE "output"
    /\ Continue(n, "closing")
    /\ UNCHANGED <<sessionVars, closing, worldVars>>

\* Mutant: the result of the SPEAK is not looked at.
FarewellSpokenOrNot(n) ==
    /\ pc[n] = "closing" /\ speech \in {"output", "canceled"}
    /\ LoopFree(n)
    /\ closing' = (IF speech = "output" THEN "COMPLETED" ELSE "FAILED") /\ speech' = "none"
    /\ SetStatus("STOPPING", 1)
    /\ Continue(n, "broadcast")
    /\ UNCHANGED worldVars

FarewellSpoken(n) ==
    /\ pc[n] = "closing" /\ speech = "output"
    /\ LoopFree(n)
    /\ closing' = "COMPLETED" /\ speech' = "none"
    /\ SetStatus("STOPPING", 1)
    /\ Continue(n, "broadcast")
    /\ UNCHANGED worldVars

\* It raised, or its SPEAK is not COMPLETED.
FarewellFails(n) ==
    /\ pc[n] = "closing" /\ ~cancelled[n]
    /\ LoopFree(n)
    /\ closing' = "FAILED" /\ speech' = "none"
    /\ SetStatus("STOP_FAILED", 1)
    /\ Leave(n, "failed")
    /\ UNCHANGED worldVars

-----------------------------------------------------------------------------
\* emergency, once it has the lock

\* Mutant: any status will do.
AcceptsEmergencyAnytime(e) == version = expected[e] \/ status \in Ending

\* Mutant: the version is compared in every status.
AcceptsEmergencyExactly(e) ==
    /\ version = expected[e]
    /\ status \in {"LIVE", "STOP_FAILED"} \cup Ending

AcceptsEmergency(e) ==
    /\ version = expected[e] \/ status \in Ending
    /\ status \in {"LIVE", "STOP_FAILED"} \cup Ending

BeginEmergency(e) ==
    /\ pc[e] = "ready"
    /\ \/ /\ AcceptsEmergency(e)
          /\ SetStatus("EMERGENCY_STOPPING", 2)
          /\ Continue(e, "obs")
       \/ /\ ~AcceptsEmergency(e)
          /\ Leave(e, "rejected")
          /\ UNCHANGED sessionVars
    /\ UNCHANGED <<closingVars, worldVars>>

-----------------------------------------------------------------------------
\* _stop_external: a normal end asks YouTube first, an emergency stop OBS

NextCall(c) ==
    CASE pc[c] = "broadcast" -> IF c \in Normal THEN "obs" ELSE "confirm"
      [] pc[c] = "obs"       -> IF c \in Normal THEN "confirm" ELSE "broadcast"

\* What a call brings about, also when it fails or is cancelled.
MayTakeEffect(c) ==
    /\ broadcast' \in IF pc[c] \in {"broadcast", "late"} THEN {broadcast, "complete"}
                                                           ELSE {broadcast}
    /\ obs' \in IF pc[c] = "obs" THEN {obs, "idle"} ELSE {obs}

CallSucceeds(c) ==
    /\ pc[c] \in {"broadcast", "obs"} /\ ~cancelled[c]
    /\ LoopFree(c)
    /\ broadcast' = IF pc[c] = "broadcast" THEN "complete" ELSE broadcast
    /\ obs' = IF pc[c] = "obs" THEN "idle" ELSE obs
    /\ Continue(c, NextCall(c))
    /\ UNCHANGED <<sessionVars, closingVars>>

\* OBS was asked to stop and is still active: _stop_external will raise in the
\* end.
ObsStays(e) ==
    /\ pc[e] = "obs"
    /\ LoopFree(e)
    /\ MayTakeEffect(e)
    /\ Continue(e, "late")
    /\ UNCHANGED <<sessionVars, closingVars>>

\* Mutant: a failed call is skipped.
CallFailsThrough(c) ==
    /\ pc[c] \in Calls /\ ~cancelled[c]
    /\ LoopFree(c)
    /\ MayTakeEffect(c)
    /\ Continue(c, IF pc[c] \in {"broadcast", "obs"} THEN NextCall(c) ELSE "confirm")
    /\ UNCHANGED <<sessionVars, closingVars>>

\* The call raised, or the status it read is not the one that must follow.
CallFails(c) ==
    /\ pc[c] \in Calls /\ ~cancelled[c]
    /\ LoopFree(c)
    /\ MayTakeEffect(c)
    /\ SetStatus("STOP_FAILED", 1)
    /\ Leave(c, "failed")
    /\ UNCHANGED closingVars

\* The stream is inactive.
Confirmed(c) ==
    /\ pc[c] = "confirm" /\ ~cancelled[c]
    /\ LoopFree(c)
    /\ SetStatus(IF c \in Normal THEN "COMPLETED" ELSE "EMERGENCY_STOPPED", 1)
    /\ Leave(c, "succeeded")
    /\ UNCHANGED <<closingVars, worldVars>>

\* Mutant: the lock is kept.
CancelledLocking(n) ==
    /\ pc[n] \in Calls \cup {"closing"} /\ cancelled[n]
    /\ LoopFree(n)
    /\ MayTakeEffect(n)
    /\ speech' = "none"
    /\ Goto(n, "done")
    /\ outcome' = [outcome EXCEPT ![n] = "cancelled"]
    /\ UNCHANGED <<lockVars, cancelled, stopped, clientVars, sessionVars, closing>>

\* CancelledError leaves the session and the closing Activity as they are.
CancelledAtWork(n) ==
    /\ pc[n] \in Calls \cup {"closing"} /\ cancelled[n]
    /\ LoopFree(n)
    /\ MayTakeEffect(n)
    /\ speech' = "none"
    /\ Leave(n, "cancelled")
    /\ UNCHANGED <<sessionVars, closing>>

-----------------------------------------------------------------------------
NormalNext(n) == \/ RejectNormal(n) \/ BeginClosing(n) \/ ResumeStop(n)
                 \/ FarewellPlanned(n) \/ FarewellSpoken(n) \/ FarewellFails(n)
                 \/ CancelledQueued(n) \/ CancelledAtWork(n)
CommandNext(c) == Enter(c) \/ CallSucceeds(c) \/ CallFails(c) \/ Confirmed(c)

TaskNext(c) == CommandNext(c) \/ (c \in Normal /\ NormalNext(c))
                              \/ (c \in Emergency /\ (BeginEmergency(c) \/ ObsStays(c)))

Next ==
    \/ MainStarts \/ MainCompletes
    \/ \E c \in Command : Read(c) \/ TaskNext(c)
    \/ \E n \in Normal : ArriveNormal(n)
    \/ \E e \in Emergency : ArriveEmergency(e)

\* Tasks are scheduled, and every call returns or raises: OBS and YouTube are
\* asked with timeouts.  No one is obliged to send a command.
Fairness == \A c \in Command : WF_vars(TaskNext(c))

Spec == Init /\ [][Next]_vars
FairSpec == Spec /\ Fairness
-----------------------------------------------------------------------------
\* Type invariant.
TypeOK ==
    /\ status \in Statuses /\ version \in Nat
    /\ main \in {"none", "running", "completed"}
    /\ closing \in {"none", "RUNNING", "COMPLETED", "FAILED"}
    /\ speech \in {"none", "planning", "output", "canceled"}
    /\ obs \in {"active", "idle"} /\ broadcast \in {"live", "complete"}
    /\ stopped \in BOOLEAN
    /\ pc \in [Command -> {"new", "read", "queued", "ready", "closing", "done"} \cup Calls]
    /\ expected \in [Command -> Nat] /\ arrived \in [Command -> Nat]
    /\ cancelled \in [Command -> BOOLEAN]
    /\ outcome \in [Command -> {"none", "succeeded", "failed", "rejected", "cancelled"}]
    /\ lock \in Command \cup {NoCommand} /\ queue \in Seq(Command)
    /\ normalTask \in Normal \cup {NoCommand}

\* A session that is closing or stopping is in somebody's hands: a command has
\* the lock, or an emergency stop that will be accepted waits for it.  So the
\* CancelledError that leaves the session in CLOSING or STOPPING strands no
\* stream (normal_task.cancel and the version rule of _validate_emergency).
EndingHasRunner ==
    status \in Ending \cup {"EMERGENCY_STOPPING"} =>
        \/ lock # NoCommand
        \/ \E i \in DOMAIN queue : queue[i] \in Emergency

\* docs/policy/youtube_streaming_policy.txt: a session is finished only when
\* YouTube and OBS are, in whichever order and after however many failed,
\* cancelled and repeated attempts they were stopped (_stop_external).
FinishedMeansStopped ==
    status \in Finished => broadcast = "complete" /\ obs = "idle"

\* docs/policy/youtube_streaming_policy.txt: a normal end does not stop OBS
\* before the farewell was spoken and YouTube has confirmed, also when it is the
\* second attempt (_normal_locked, _stop_external).
NormalEndInOrder ==
    \A n \in Normal : pc[n] = "obs" => closing = "COMPLETED" /\ broadcast = "complete"

\* Once an emergency stop has come, accepted or not, a farewell that was not said to
\* its end never counts as said: neither the normal end that was planning or saying
\* it nor a later one goes on to YouTube and OBS (cancel_outputs, the result of the
\* SPEAK, and the resumption from STOP_FAILED).
EmergencyEndsFarewell ==
    [][ stopped /\ closing # "COMPLETED" =>
            /\ closing' # "COMPLETED"
            /\ \A n \in Normal : pc'[n] \notin Calls ]_vars

\* The session ends as its commands report, and at most one of them ends it.
SuccessMatchesStatus ==
    \A c \in Command : outcome[c] = "succeeded" =>
        /\ status = IF c \in Normal THEN "COMPLETED" ELSE "EMERGENCY_STOPPED"
        /\ \A d \in Command \ {c} : outcome[d] # "succeeded"

\* Every command that was sent comes to its end, cancelled or not: nobody keeps
\* the lock.
EveryCommandEnds ==
    \A c \in Command : pc[c] = "queued" ~> pc[c] = "done"

\* docs/policy/youtube_streaming_policy.txt: an emergency stop stops OBS and
\* ends the broadcast.  One that was sent for the session as it was should not
\* be rejected before the stream is over.
EmergencyTakesEffect ==
    \A e \in Emergency :
        outcome[e] = "rejected" /\ expected[e] = arrived[e] => status \in Finished

Life == INSTANCE SessionLife

\* StreamSession.transition: however commands overtake, fail and are cancelled, none asks
\* for a status that the table forbids, and dies of the ValueError.
FollowsLife == [][Life!Save]_<<status, version>>
=============================================================================
