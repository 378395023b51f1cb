---------------------------- MODULE ActionScheduler ----------------------------
(***************************************************************************)
(* ActionScheduler.execute for output units, the groups of actions with a  *)
(* SPEAK, and cancel_outputs, the output side of an emergency stop.        *)
(*                                                                         *)
(* A unit is executed by a task of the runtime's asyncio loop, or by the   *)
(* ActivityExecutorThread on a loop of its own (ThreadUnits).  The task    *)
(* waits for the priority gate in a helper thread (asyncio.to_thread), is  *)
(* resumed, shows subtitle and expression, synthesises and plays the       *)
(* voice, again in a helper thread, and records the speech.                *)
(*                                                                         *)
(* cancel_outputs runs on the main loop.  Cancelling a task takes effect   *)
(* at the await the task is at, or comes to next; it does not reach the    *)
(* helper threads.                                                         *)
(*                                                                         *)
(* The resource locks of a unit are not modelled: units take them only     *)
(* inside the gate, and groups without SPEAK never await holding one.      *)
(***************************************************************************)
EXTENDS Integers, Sequences, FiniteSets

CONSTANTS
    Unit,           \* output units, each executed once
    ThreadUnits,    \* those the ActivityExecutorThread executes
    Gesturing,      \* those with a MOVE after the SPEAK
    Priority,       \* output_priority of each unit
    NoUnit

ASSUME UnitAssumption ==
    /\ ThreadUnits \subseteq Unit
    /\ Gesturing \subseteq Unit
    /\ Priority \in [Unit -> {100, 50, 10}]
    /\ NoUnit \notin Unit

VARIABLES
    pc,             \* where the task of each unit is
    cancelled,      \* Task.cancel was called and has not taken effect
    stopped,        \* _prevent_new_actions
    helper,         \* the helper thread in _PriorityOutputGate.acquire
    active,         \* the gate's _active: the unit it was acquired for
    sequence,       \* the gate's sequence number of each waiter
    nextSequence,   \* the gate's _next_sequence
    subtitle,       \* the unit whose subtitle is on display
    sound,          \* what the audio player does for each unit
    results,        \* the ActionExecutionStatus of each unit's actions so far
    report          \* the ActivityOutputStatus execute returned

vars == <<pc, cancelled, stopped, helper, active, sequence, nextSequence,
          subtitle, sound, results, report>>
gateVars == <<helper, active, sequence, nextSequence>>
outputVars == <<subtitle, sound, results>>

MainUnits == Unit \ ThreadUnits

\* Between _output_gate.acquire and release.
Inside == {"resumed", "synthesizing", "playing", "recording"}
\* In _running_tasks.
Registered == Inside \cup {"waiting"}
Steps == Registered \cup {"new", "admitted", "over"}

ActionStatus == {"COMPLETED", "FAILED", "CANCELED"}
OutputStatuses == {"COMPLETED", "PARTIALLY_COMPLETED", "FAILED", "CANCELED"}

Init ==
    /\ pc = [u \in Unit |-> "new"]
    /\ cancelled = [u \in Unit |-> FALSE]
    /\ stopped = FALSE
    /\ helper = [u \in Unit |-> "none"]
    /\ active = NoUnit
    /\ sequence = [u \in Unit |-> 0]
    /\ nextSequence = 0
    /\ subtitle = NoUnit
    /\ sound = [u \in Unit |-> "none"]
    /\ results = [u \in Unit |-> <<>>]
    /\ report = [u \in Unit |-> "none"]

Goto(u, step) == pc' = [pc EXCEPT ![u] = step]

\* The main loop is at an await: no unit of its own is in the middle of the
\* code between two of them.
MainLoopFree == \A v \in MainUnits : pc[v] \notin {"admitted", "resumed"}
CanStep(u) ==
    u \in ThreadUnits \/ \A v \in MainUnits \ {u} : pc[v] \notin {"admitted", "resumed"}

-----------------------------------------------------------------------------
\* execute, before anything is awaited

\* The executor thread executes one unit after the other.
Idle(u) ==
    /\ pc[u] = "new"
    /\ CanStep(u)
    /\ u \in ThreadUnits => \A v \in ThreadUnits \ {u} : pc[v] \in {"new", "over"}

\* Refused by the latch, or by the lifecycle gate.
Refuse(u) ==
    /\ Idle(u)
    /\ Goto(u, "over")
    /\ report' = [report EXCEPT ![u] = "CANCELED"]
    /\ UNCHANGED <<cancelled, stopped, gateVars, outputVars>>

\* Mutant: only the lifecycle gate is asked.
AdmitAnyway(u) ==
    /\ Idle(u)
    /\ Goto(u, "admitted")
    /\ UNCHANGED <<cancelled, stopped, gateVars, outputVars, report>>

Admit(u) ==
    /\ Idle(u)
    /\ ~stopped
    /\ Goto(u, "admitted")
    /\ UNCHANGED <<cancelled, stopped, gateVars, outputVars, report>>

\* The task enters _running_tasks and submits acquire to a helper thread.
Join(u) ==
    /\ pc[u] = "admitted"
    /\ Goto(u, "waiting")
    /\ helper' = [helper EXCEPT ![u] = "submitted"]
    /\ UNCHANGED <<cancelled, stopped, active, sequence, nextSequence, outputVars, report>>

-----------------------------------------------------------------------------
\* _PriorityOutputGate, in the helper threads

HelperArrives(u) ==
    /\ helper[u] = "submitted"
    /\ helper' = [helper EXCEPT ![u] = "queued"]
    /\ sequence' = [sequence EXCEPT ![u] = nextSequence]
    /\ nextSequence' = nextSequence + 1
    /\ UNCHANGED <<pc, cancelled, stopped, active, outputVars, report>>

\* The head of the heap.
First(u) ==
    \A v \in Unit \ {u} : helper[v] = "queued" =>
        \/ Priority[u] > Priority[v]
        \/ Priority[u] = Priority[v] /\ sequence[u] < sequence[v]

\* Mutant: the waiter at the head does not look at _active.
AcquireAnyway(u) ==
    /\ helper[u] = "queued"
    /\ First(u)
    /\ helper' = [helper EXCEPT ![u] = "acquired"]
    /\ active' = u
    /\ UNCHANGED <<pc, cancelled, stopped, sequence, nextSequence, outputVars, report>>

Acquire(u) ==
    /\ helper[u] = "queued"
    /\ active = NoUnit
    /\ First(u)
    /\ helper' = [helper EXCEPT ![u] = "acquired"]
    /\ active' = u
    /\ UNCHANGED <<pc, cancelled, stopped, sequence, nextSequence, outputVars, report>>

-----------------------------------------------------------------------------
\* _execute_locked_output with ExecuteActionUsecase.execute

Resume(u) ==
    /\ pc[u] = "waiting"
    /\ helper[u] = "acquired"
    /\ ~cancelled[u]
    /\ CanStep(u)
    /\ Goto(u, "resumed")
    /\ UNCHANGED <<cancelled, stopped, gateVars, outputVars, report>>

\* _synchronized_action_order puts subtitle and expression first; neither
\* awaits.
Show(u) ==
    /\ pc[u] = "resumed"
    /\ subtitle' = u
    /\ results' = [results EXCEPT ![u] = <<"COMPLETED", "COMPLETED">>]
    /\ Goto(u, "synthesizing")
    /\ UNCHANGED <<cancelled, stopped, gateVars, sound, report>>

Play(u) ==
    /\ pc[u] = "synthesizing"
    /\ ~cancelled[u]
    /\ CanStep(u)
    /\ sound' = [sound EXCEPT ![u] = "playing"]
    /\ Goto(u, "playing")
    /\ UNCHANGED <<cancelled, stopped, gateVars, subtitle, results, report>>

\* The player comes to the end of the voice, whoever waits for it.
SoundEnds(u) ==
    /\ sound[u] = "playing"
    /\ sound' = [sound EXCEPT ![u] = "ended"]
    /\ UNCHANGED <<pc, cancelled, stopped, gateVars, subtitle, results, report>>

PlayReturns(u) ==
    /\ pc[u] = "playing"
    /\ sound[u] = "ended"
    /\ ~cancelled[u]
    /\ CanStep(u)
    /\ Goto(u, "recording")
    /\ UNCHANGED <<cancelled, stopped, gateVars, outputVars, report>>

\* Mutant: one completed action makes a completed output.
OutputStatusOfAny(statuses) ==
    IF \E i \in DOMAIN statuses : statuses[i] = "COMPLETED" THEN "COMPLETED"
    ELSE IF \A i \in DOMAIN statuses : statuses[i] # "FAILED" THEN "CANCELED"
    ELSE "FAILED"

\* _build_output_result, of at least one action.
OutputStatus(statuses) ==
    LET Some(status) == \E i \in DOMAIN statuses : statuses[i] = status
    IN CASE \A i \in DOMAIN statuses : statuses[i] = "COMPLETED" -> "COMPLETED"
         [] Some("COMPLETED") /\ (Some("FAILED") \/ Some("CANCELED")) -> "PARTIALLY_COMPLETED"
         [] ~Some("COMPLETED") /\ Some("CANCELED") /\ ~Some("FAILED") -> "CANCELED"
         [] ~Some("COMPLETED") /\ Some("FAILED") -> "FAILED"

\* Mutant: the gate is released only after an output that went well.
SpeechIsOverWell(u, status) ==
    LET final == results[u] \o (IF u \in Gesturing THEN <<status, "COMPLETED">> ELSE <<status>>)
    IN /\ results' = [results EXCEPT ![u] = final]
       /\ report' = [report EXCEPT ![u] = OutputStatus(final)]
       /\ active' = IF status = "COMPLETED" THEN NoUnit ELSE active
       /\ cancelled' = [cancelled EXCEPT ![u] = FALSE]
       /\ Goto(u, "over")
       /\ UNCHANGED <<stopped, helper, sequence, nextSequence, subtitle>>

\* SPEAK has a result: the gesture follows whatever it is, the gate is
\* released and execute returns.
SpeechIsOver(u, status) ==
    LET final == results[u] \o (IF u \in Gesturing THEN <<status, "COMPLETED">> ELSE <<status>>)
    IN /\ results' = [results EXCEPT ![u] = final]
       /\ report' = [report EXCEPT ![u] = OutputStatus(final)]
       /\ active' = NoUnit
       /\ cancelled' = [cancelled EXCEPT ![u] = FALSE]
       /\ Goto(u, "over")
       /\ UNCHANGED <<stopped, helper, sequence, nextSequence, subtitle>>

\* The topic's classification and memory were awaited, and failed or not.
Recorded(u) ==
    /\ pc[u] = "recording"
    /\ ~cancelled[u]
    /\ CanStep(u)
    /\ SpeechIsOver(u, "COMPLETED")
    /\ UNCHANGED sound

\* No voice could be synthesised, or the player failed.
SpeechFails(u) ==
    /\ ~cancelled[u]
    /\ CanStep(u)
    /\ \/ /\ pc[u] = "synthesizing"
          /\ UNCHANGED sound
       \/ /\ pc[u] = "playing"
          /\ sound[u] = "playing"
          /\ sound' = [sound EXCEPT ![u] = "cut"]
    /\ SpeechIsOver(u, "FAILED")

-----------------------------------------------------------------------------
\* Cancellation

\* Mutant: only the units that wait for their turn are cancelled.
CancelOutputsWaiting ==
    /\ MainLoopFree
    /\ stopped' = TRUE
    /\ cancelled' = [u \in Unit |-> cancelled[u] \/ pc[u] = "waiting"]
    /\ UNCHANGED <<pc, gateVars, outputVars, report>>

CancelOutputs ==
    /\ MainLoopFree
    /\ stopped' = TRUE
    /\ cancelled' = [u \in Unit |-> cancelled[u] \/ pc[u] \in Registered]
    /\ UNCHANGED <<pc, gateVars, outputVars, report>>

\* The helper of a cancelled waiter is told only if it has not begun.  One that
\* has begun still acquires the gate in its turn, and nobody will release it.
CancelledWaiting(u) ==
    /\ pc[u] = "waiting"
    /\ cancelled[u]
    /\ CanStep(u)
    /\ Goto(u, "over")
    /\ cancelled' = [cancelled EXCEPT ![u] = FALSE]
    /\ report' = [report EXCEPT ![u] = "CANCELED"]
    /\ \/ UNCHANGED helper
       \/ /\ helper[u] = "submitted"
          /\ helper' = [helper EXCEPT ![u] = "none"]
    /\ UNCHANGED <<stopped, active, sequence, nextSequence, outputVars>>

\* _execute_action turns the CancelledError into a result.
CancelledSpeaking(u) ==
    /\ pc[u] \in {"synthesizing", "playing", "recording"}
    /\ cancelled[u]
    /\ CanStep(u)
    /\ SpeechIsOver(u, "CANCELED")
    /\ UNCHANGED sound

-----------------------------------------------------------------------------
TaskNext(u) == \/ Join(u) \/ Resume(u) \/ Show(u) \/ Play(u) \/ PlayReturns(u)
               \/ Recorded(u) \/ SpeechFails(u)
               \/ CancelledWaiting(u) \/ CancelledSpeaking(u)
HelperNext(u) == HelperArrives(u) \/ Acquire(u)

Next ==
    \/ \E u \in Unit : Admit(u) \/ Refuse(u)
    \/ \E u \in Unit : TaskNext(u) \/ HelperNext(u) \/ SoundEnds(u)
    \/ CancelOutputs

\* Tasks and helper threads are scheduled, and a voice comes to its end.
Fairness ==
    \A u \in Unit : WF_vars(TaskNext(u)) /\ WF_vars(HelperNext(u)) /\ WF_vars(SoundEnds(u))

Spec == Init /\ [][Next]_vars
FairSpec == Spec /\ Fairness
-----------------------------------------------------------------------------
\* Type invariant.
TypeOK ==
    /\ pc \in [Unit -> Steps]
    /\ cancelled \in [Unit -> BOOLEAN]
    /\ stopped \in BOOLEAN
    /\ helper \in [Unit -> {"none", "submitted", "queued", "acquired"}]
    /\ active \in Unit \cup {NoUnit}
    /\ sequence \in [Unit -> Nat]
    /\ nextSequence \in Nat
    /\ subtitle \in Unit \cup {NoUnit}
    /\ sound \in [Unit -> {"none", "playing", "ended", "cut"}]
    /\ results \in [Unit -> Seq(ActionStatus)]
    /\ report \in [Unit -> OutputStatuses \cup {"none"}]

\* Whatever is cancelled and whoever waits, on two event loops and any number
\* of helper threads, one unit at a time is between acquire and release, and
\* the gate was acquired for it.
OneUnitAtATime == \A u \in Unit : pc[u] \in Inside => active = u

\* The voice that is being prepared or played has its own subtitle on display:
\* no other unit overtakes it (_execute_synchronized_output).
SubtitleOfSpeaker ==
    \A u \in Unit : pc[u] \in {"synthesizing", "playing"} => subtitle = u

\* The gate is closed only for a unit that will open it again, until outputs
\* are cancelled: no failure on the way leaves it closed (the try and finally
\* of _execute_synchronized_output).
GateHasOwner ==
    active # NoUnit /\ pc[active] \notin Registered => stopped

\* What execute reports is what the audience heard: a completed output was
\* played to its end, a cancelled one was not even begun
\* (_build_output_result with the two places that catch CancelledError).
ReportMatchesSound ==
    \A u \in Unit :
        /\ report[u] = "COMPLETED" => sound[u] = "ended"
        /\ report[u] \in {"CANCELED", "FAILED"} => sound[u] = "none" /\ results[u] = <<>>

\* Once outputs are cancelled no unit of the main loop starts its voice, at
\* whichever await the cancellation found it (cancel_outputs).
MainLoopFallsSilent ==
    [][ stopped => \A u \in MainUnits : sound[u] = "none" => sound'[u] = "none" ]_vars

\* The latch and _running_tasks are read by two threads without a lock.  A unit that
\* is at work uncancelled after the emergency stop is one of the executor thread
\* that had passed the latch and was not in _running_tasks yet, and there is one of
\* these at most: not more than one voice can still start (execute, cancel_outputs).
AtWork == {u \in Unit : pc[u] \in Registered \cup {"admitted"}}
OneSlipsThrough ==
    stopped => \A u \in AtWork : cancelled[u] \/
                  /\ u \in ThreadUnits
                  /\ \A v \in AtWork \ {u} : cancelled[v]

\* Every unit that waits for its turn is reported some day, also when outputs
\* are cancelled while it waits.  Only a unit of the executor thread that was
\* not yet in _running_tasks at that time may find the gate closed for good.
EveryOutputEnds ==
    \A u \in Unit :
        pc[u] = "waiting" ~> pc[u] = "over" \/ (u \in ThreadUnits /\ stopped)

=============================================================================
