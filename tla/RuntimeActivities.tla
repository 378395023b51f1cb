-------------------------- MODULE RuntimeActivities --------------------------
(***************************************************************************)
(* The callers of the ActivityManager and the way an Activity takes from   *)
(* an event to its output:                                                 *)
(*                                                                         *)
(*   - RuntimeCoordinator.publish_events, run by the console's task, which *)
(*     accepts a USER_TEXT and cancels autonomous talk;                    *)
(*   - RuntimeCoordinator.run, the loop that handles queued events;        *)
(*   - RuntimeCoordinator.execute_external_activity, one asyncio task for  *)
(*     each Activity of the streaming plugin;                              *)
(*   - ActivityPlannerThread, which conceives autonomous talk;             *)
(*   - ActivityExecutorThread, which executes it;                          *)
(*   - ActionScheduler's priority gate, which all output goes through.     *)
(*                                                                         *)
(* The first three share one asyncio thread: between two awaits nothing    *)
(* else runs there, while the two threads may step at any point.  Each     *)
(* lock acquisition of the code is one step.                               *)
(*                                                                         *)
(* The kind of an Activity decides who runs it, so the state of a run is   *)
(* kept per Activity, in phase.                                            *)
(***************************************************************************)
EXTENDS ActivityManager, SequencesExt

CONSTANT MaxQueueSize       \* ActivityPlannerThread's max_queue_size

ASSUME MaxQueueSizeAssumption == MaxQueueSize \in Nat \ {0}

VARIABLES                       \* beside mgr, the ActivityManager
    phase,          \* how far the run of each Activity is
    events,         \* EventQueue, in order of arrival
    planned,        \* PlannedActivityQueue, the next item first
    generation,     \* _autonomous_cancellation_generation
    conceived,      \* history: the generation each talk was conceived in
    planner,        \* ActivityPlannerThread.run_once: program counter, locals
    publisher,      \* publish_events of a USER_TEXT: program counter, locals
    gate            \* ActionScheduler._output_gate

vars == <<mgr, phase, events, planned, generation, conceived, planner, publisher, gate>>

UserTexts   == {a \in Activity : kindOf[a] = "conversation"}
Startups    == {a \in Activity : kindOf[a] = "startup"}
Explicits   == {a \in Activity : kindOf[a] = "explicit"}
Autonomous  == {a \in Activity : kindOf[a] = "autonomous"}
\* Activities the coordinator's loop runs.
LoopRuns == UserTexts \cup Startups

Running == {"planning", "waiting", "speaking", "spoken"}
Phases == {"new", "accepted", "queued", "enriching", "planned", "fetched",
           "done", "dropped"} \cup Running

PlannerSteps == {"idle", "foreground", "pending", "create", "put", "withdraw"}
PublisherSteps == {"idle", "inflight", "deferred", "queue", "removed"}

Init ==
    /\ mgr = EmptyManager
    /\ phase = [a \in Activity |-> "new"]
    /\ events = <<>>
    /\ planned = <<>>
    /\ generation = 0
    /\ conceived = [a \in Activity |-> 0]
    /\ planner = [pc |-> "idle", act |-> NoActivity, gen |-> 0]
    /\ publisher = [pc |-> "idle", text |-> NoActivity, removed |-> <<>>]
    /\ gate = [active |-> NoActivity, waiting |-> <<>>]

SetPhase(a, p) == phase' = [phase EXCEPT ![a] = p]

\* A task of the asyncio thread can step only when publish_events is not in
\* the middle of its own steps, none of which awaits.
LoopThreadFree(a) == kindOf[a] = "autonomous" \/ publisher.pc = "idle"

-----------------------------------------------------------------------------
\* RuntimeCoordinator.publish_events

\* USER_TEXT: reserve the conversation, then the cancellations in order.
Publish(u) ==
    /\ publisher.pc = "idle"
    /\ phase[u] = "new"
    /\ mgr' = PrepareUserInput(mgr, u)
    /\ SetPhase(u, "accepted")
    /\ publisher' = [publisher EXCEPT !.pc = "inflight", !.text = u]
    /\ UNCHANGED <<events, planned, generation, conceived, planner, gate>>

CancelInflight ==
    /\ publisher.pc = "inflight"
    /\ generation' = generation + 1
    /\ publisher' = [publisher EXCEPT !.pc = "deferred"]
    /\ UNCHANGED <<mgr, phase, events, planned, conceived, planner, gate>>

\* Mutant: deferred talk is left for later.
SkipDeferred ==
    /\ publisher.pc = "deferred"
    /\ publisher' = [publisher EXCEPT !.pc = "queue"]
    /\ UNCHANGED <<mgr, phase, events, planned, generation, conceived, planner, gate>>

CancelDeferred ==
    /\ publisher.pc = "deferred"
    /\ mgr' = DiscardDeferred(mgr)
    /\ publisher' = [publisher EXCEPT !.pc = "queue"]
    /\ UNCHANGED <<phase, events, planned, generation, conceived, planner, gate>>

\* cancel_pending_autonomous empties the queue, which holds nothing but
\* autonomous talk, and then cancels what it removed, one lock at a time.
RemoveQueued ==
    /\ publisher.pc = "queue"
    /\ publisher' = [publisher EXCEPT !.pc = "removed", !.removed = planned]
    /\ planned' = <<>>
    /\ phase' = [a \in Activity |-> IF phase[a] = "planned" THEN "dropped" ELSE phase[a]]
    /\ UNCHANGED <<mgr, events, generation, conceived, planner, gate>>

CancelRemoved ==
    /\ publisher.pc = "removed"
    /\ publisher.removed # <<>>
    /\ mgr' = Cancel(mgr, Head(publisher.removed))
    /\ publisher' = [publisher EXCEPT !.removed = Tail(publisher.removed)]
    /\ UNCHANGED <<phase, events, planned, generation, conceived, planner, gate>>

EnqueueText ==
    /\ publisher.pc = "removed"
    /\ publisher.removed = <<>>
    /\ events' = Append(events, publisher.text)
    /\ SetPhase(publisher.text, "queued")
    /\ publisher' = [publisher EXCEPT !.pc = "idle", !.text = NoActivity]
    /\ UNCHANGED <<mgr, planned, generation, conceived, planner, gate>>

\* APP_STARTED cancels nothing.
PublishStartup(s) ==
    /\ publisher.pc = "idle"
    /\ phase[s] = "new"
    /\ events' = Append(events, s)
    /\ SetPhase(s, "queued")
    /\ UNCHANGED <<mgr, planned, generation, conceived, planner, publisher, gate>>

-----------------------------------------------------------------------------
\* RuntimeCoordinator.run_once and execute_external_activity

\* EventQueue.get: the highest priority first, first come among equals.
NextEvent(i) ==
    \A j \in DOMAIN events :
        \/ Priority(events[i]) > Priority(events[j])
        \/ Priority(events[i]) = Priority(events[j]) /\ i <= j

LoopIdle == \A a \in LoopRuns : phase[a] \notin Running

TakeEvent(e) ==
    /\ LoopThreadFree(e)
    /\ LoopIdle
    /\ \E i \in DOMAIN events :
          events[i] = e /\ NextEvent(i) /\ events' = RemoveAt(events, i)
    /\ mgr' = HandleEvent(mgr, e)
    /\ SetPhase(e, "planning")
    /\ UNCHANGED <<planned, generation, conceived, planner, publisher, gate>>

StartExplicit(x) ==
    /\ LoopThreadFree(x)
    /\ phase[x] = "new"
    /\ mgr' = Resolve(mgr, x)
    /\ SetPhase(x, "planning")
    /\ UNCHANGED <<events, planned, generation, conceived, planner, publisher, gate>>

\* Mutant: the status is looked at whoever runs the Activity.
PlanReturnsChecked(a) ==
    /\ phase[a] = "planning"
    /\ LoopThreadFree(a)
    /\ \/ /\ mgr.status[a] = "ACTIVE"
          /\ SetPhase(a, "waiting")
          /\ gate' = [gate EXCEPT !.waiting = Append(gate.waiting, a)]
       \/ /\ mgr.status[a] # "ACTIVE"
          /\ SetPhase(a, "dropped")
          /\ UNCHANGED gate
    /\ UNCHANGED <<mgr, events, planned, generation, conceived, planner, publisher>>

\* The coordinator and the executor look at the status once more when the plan is
\* there; _execute_explicit_activity does not.
LooksAgain(a) == a \notin Explicits

\* The actions of an Activity that is not ACTIVE any more are dropped, and the
\* Activity is left as it is.
Withdrawn(a) == LooksAgain(a) /\ mgr.status[a] # "ACTIVE"

\* ActionPlanner.plan returned.
PlanReturns(a) ==
    /\ phase[a] = "planning"
    /\ LoopThreadFree(a)
    /\ \/ /\ ~Withdrawn(a)
          /\ SetPhase(a, "waiting")
          /\ gate' = [gate EXCEPT !.waiting = Append(gate.waiting, a)]
       \/ /\ Withdrawn(a)
          /\ SetPhase(a, "dropped")
          /\ UNCHANGED gate
    /\ UNCHANGED <<mgr, events, planned, generation, conceived, planner, publisher>>

\* Mutant: the failed Activity is not completed.
PlanRaisesThrough(a) ==
    /\ phase[a] = "planning"
    /\ LoopThreadFree(a)
    /\ SetPhase(a, "done")
    /\ UNCHANGED <<mgr, events, planned, generation, conceived, planner, publisher, gate>>

\* ActionPlanner.plan raised: the Activity is completed without output.
PlanRaises(a) ==
    /\ phase[a] = "planning"
    /\ LoopThreadFree(a)
    /\ mgr' \in CompleteProcessed(mgr, a)
    /\ SetPhase(a, "done")
    /\ UNCHANGED <<events, planned, generation, conceived, planner, publisher, gate>>

\* The Activity's output is over and recorded.
CompleteRun(a) ==
    /\ phase[a] = "spoken"
    /\ LoopThreadFree(a)
    /\ mgr' \in CompleteProcessed(mgr, a)
    /\ SetPhase(a, "done")
    /\ UNCHANGED <<events, planned, generation, conceived, planner, publisher, gate>>

-----------------------------------------------------------------------------
\* ActionScheduler: the gate every output unit with speech goes through

OutputPriority(a) ==
    CASE kindOf[a] = "conversation" -> 100
      [] kindOf[a] = "autonomous"   -> 10
      [] OTHER                      -> 50

NextOutput(i) ==
    LET Rank(j) == OutputPriority(gate.waiting[j]) IN
    \A j \in DOMAIN gate.waiting :
        \/ Rank(i) > Rank(j)
        \/ Rank(i) = Rank(j) /\ i <= j

StartOutput(a) ==
    /\ gate.active = NoActivity
    /\ \E i \in DOMAIN gate.waiting :
          /\ gate.waiting[i] = a /\ NextOutput(i)
          /\ gate' = [active |-> a, waiting |-> RemoveAt(gate.waiting, i)]
    /\ SetPhase(a, "speaking")
    /\ UNCHANGED <<mgr, events, planned, generation, conceived, planner, publisher>>

FinishOutput(a) ==
    /\ gate.active = a
    /\ LoopThreadFree(a)
    /\ gate' = [gate EXCEPT !.active = NoActivity]
    /\ SetPhase(a, "spoken")
    /\ UNCHANGED <<mgr, events, planned, generation, conceived, planner, publisher>>

-----------------------------------------------------------------------------
\* ActivityPlannerThread.run_once with ActivityPlanningService.plan_once

PlannerBegin ==
    /\ planner.pc = "idle"
    /\ Len(planned) < MaxQueueSize
    /\ planner' = [planner EXCEPT !.pc = "foreground", !.gen = generation]
    /\ UNCHANGED <<mgr, phase, events, planned, generation, conceived, publisher, gate>>

\* plan_next_event copies the foreground and the pending Activities into the
\* AgentState, one after the other, and plans nothing if there are any.
PlannerReadsForeground ==
    /\ planner.pc = "foreground"
    /\ planner' = [planner EXCEPT
                     !.pc = IF mgr.foreground = NoActivity THEN "pending" ELSE "idle"]
    /\ UNCHANGED <<mgr, phase, events, planned, generation, conceived, publisher, gate>>

PlannerReadsPending ==
    /\ planner.pc = "pending"
    /\ planner' = [planner EXCEPT
                     !.pc = IF \A a \in Activity : mgr.status[a] # "PENDING"
                            THEN "create" ELSE "idle"]
    /\ UNCHANGED <<mgr, phase, events, planned, generation, conceived, publisher, gate>>

\* Every other reason of plan_next_event and BehaviorPlanner not to talk now.
PlannerGivesUp ==
    /\ planner.pc = "create"
    /\ planner' = [planner EXCEPT !.pc = "idle"]
    /\ UNCHANGED <<mgr, phase, events, planned, generation, conceived, publisher, gate>>

PlannerCreates(a) ==
    /\ planner.pc = "create"
    /\ phase[a] = "new"
    /\ mgr' = HandleEvent(mgr, a)
    /\ SetPhase(a, "enriching")
    /\ conceived' = [conceived EXCEPT ![a] = planner.gen]
    /\ planner' = [planner EXCEPT !.pc = "put", !.act = a]
    /\ UNCHANGED <<events, planned, generation, publisher, gate>>

\* Mutant: the generation is not compared.
PlannerPutsAlways ==
    /\ planner.pc = "put"
    /\ planned' = <<planner.act>> \o planned
    /\ SetPhase(planner.act, "planned")
    /\ planner' = [planner EXCEPT !.pc = "idle", !.act = NoActivity]
    /\ UNCHANGED <<mgr, events, generation, conceived, publisher, gate>>

\* Under _cancellation_lock: queue the talk unless a USER_TEXT came meanwhile.
\* The queue sorts by (priority, created_at) in descending order, and all its
\* items have one priority: the newest comes first.
PlannerPuts ==
    /\ planner.pc = "put"
    /\ \/ /\ planner.gen = generation
          /\ planned' = <<planner.act>> \o planned
          /\ SetPhase(planner.act, "planned")
          /\ planner' = [planner EXCEPT !.pc = "idle", !.act = NoActivity]
       \/ /\ planner.gen # generation
          /\ planner' = [planner EXCEPT !.pc = "withdraw"]
          /\ UNCHANGED <<planned, phase>>
    /\ UNCHANGED <<mgr, events, generation, conceived, publisher, gate>>

\* Mutant: the talk is marked without asking the manager to cancel it.
PlannerMarksCanceled ==
    /\ planner.pc = "withdraw"
    /\ mgr' = WithStatus(mgr, planner.act, "CANCELED")
    /\ SetPhase(planner.act, "dropped")
    /\ planner' = [planner EXCEPT !.pc = "idle", !.act = NoActivity]
    /\ UNCHANGED <<events, planned, generation, conceived, publisher, gate>>

PlannerWithdraws ==
    /\ planner.pc = "withdraw"
    /\ mgr' = Cancel(mgr, planner.act)
    /\ SetPhase(planner.act, "dropped")
    /\ planner' = [planner EXCEPT !.pc = "idle", !.act = NoActivity]
    /\ UNCHANGED <<events, planned, generation, conceived, publisher, gate>>

-----------------------------------------------------------------------------
\* ActivityExecutorThread.run_once

ExecutorIdle == \A a \in Autonomous : phase[a] \notin Running \cup {"fetched"}

ExecutorFetches ==
    /\ ExecutorIdle
    /\ planned # <<>>
    /\ SetPhase(Head(planned), "fetched")
    /\ planned' = Tail(planned)
    /\ UNCHANGED <<mgr, events, generation, conceived, planner, publisher, gate>>

\* An item that is not ACTIVE is dropped from the queue for good.
ExecutorChecks(a) ==
    /\ phase[a] = "fetched"
    /\ SetPhase(a, IF mgr.status[a] = "ACTIVE" THEN "planning" ELSE "dropped")
    /\ UNCHANGED <<mgr, events, planned, generation, conceived, planner, publisher, gate>>

-----------------------------------------------------------------------------
PublisherNext == CancelInflight \/ CancelDeferred \/ RemoveQueued \/ CancelRemoved \/ EnqueueText
PlannerNext == \/ PlannerReadsForeground \/ PlannerReadsPending \/ PlannerGivesUp
               \/ \E a \in Autonomous : PlannerCreates(a)
               \/ PlannerPuts \/ PlannerWithdraws
ExecutorNext == ExecutorFetches \/ \E a \in Autonomous : ExecutorChecks(a)
\* What the task or thread that runs a does next.
RunNext(a) == PlanReturns(a) \/ PlanRaises(a) \/ FinishOutput(a) \/ CompleteRun(a)

\* What the environment does, or the planner when it is idle.
Arrivals == \/ \E u \in UserTexts : Publish(u)
            \/ \E s \in Startups : PublishStartup(s)
            \/ \E x \in Explicits : StartExplicit(x)
            \/ PlannerBegin

Next ==
    \/ Arrivals
    \/ PublisherNext
    \/ PlannerNext
    \/ ExecutorNext
    \/ \E e \in LoopRuns : TakeEvent(e)
    \/ \E a \in Activity : RunNext(a) \/ StartOutput(a)

\* Threads and tasks are scheduled, awaited calls return, and the gate wakes
\* its waiters; nothing obliges a user to type or the planner to plan.
Fairness ==
    /\ WF_vars(PublisherNext)
    /\ WF_vars(PlannerNext)
    /\ WF_vars(ExecutorNext)
    /\ WF_vars(\E e \in LoopRuns : TakeEvent(e))
    /\ \A a \in Activity : WF_vars(RunNext(a))
    /\ \A a \in Activity : WF_vars(StartOutput(a))

Spec == Init /\ [][Next]_vars
FairSpec == Spec /\ Fairness
-----------------------------------------------------------------------------
\* Type invariant.
TypeOK ==
    /\ mgr \in Managers
    /\ phase \in [Activity -> Phases]
    /\ events \in Seq(LoopRuns)
    /\ planned \in Seq(Autonomous)
    /\ generation \in Nat
    /\ conceived \in [Activity -> Nat]
    /\ planner \in [pc : PlannerSteps, act : Autonomous \cup {NoActivity}, gen : Nat]
    /\ publisher \in [pc : PublisherSteps, text : UserTexts \cup {NoActivity},
                      removed : Seq(Autonomous)]
    /\ gate \in [active : Activity \cup {NoActivity}, waiting : Seq(Activity)]

\* The cancellation generation does its job: outside the two steps in which
\* publish_events is cancelling, every queued talk was conceived after the last
\* USER_TEXT was accepted, however long its planning took (the generation read
\* before plan_once against the one at put, and cancel_pending_autonomous).
QueuedTalkIsFresh ==
    publisher.pc \notin {"deferred", "queue"} =>
        \A i \in DOMAIN planned : conceived[planned[i]] = generation

\* A conversation in the foreground is on its way to an answer: it is being
\* accepted, waits in the EventQueue, or is being run.  Holds as long as no
\* Activity runs beside the loop and one USER_TEXT is typed: of two, the second
\* may be given the floor first and leave the other PENDING, to be resumed when
\* its actions are dropped already (prepare_user_input and _handle_event).
ConversationHasRunner ==
    \A u \in UserTexts : mgr.status[u] = "ACTIVE" =>
        phase[u] \in {"accepted", "queued"} \cup Running

\* Once a USER_TEXT is accepted no older talk is left to be resumed after the
\* conversation: what is still deferred is in the planner's hands, which will
\* withdraw it (discard_deferred_autonomous and cancel_pending_autonomous
\* against the planner and the executor running on).
AcceptanceClearsTalk ==
    [][ EnqueueText => \A a \in Autonomous :
            mgr.status[a] \in {"PENDING", "SUSPENDED"} =>
                phase[a] = "enriching" /\ planner.gen # generation ]_vars

\* The runtime uses the ActivityManager as its specification allows: every step
\* of every thread and task is one of its operations, or leaves it alone.
ImplementsManager == ManagerSpec

\* Every USER_TEXT that was put in the EventQueue is answered, or its planning
\* failed (publish_events, run_once, _handle_event).
UserTextAnswered ==
    \A u \in UserTexts : phase[u] = "queued" ~> mgr.status[u] = "COMPLETED"

\* Every Activity of the streaming plugin completes, whatever holds the
\* foreground (_execute_explicit_activity).
ExplicitCompletes ==
    \A x \in Explicits : phase[x] = "planning" ~> mgr.status[x] = "COMPLETED"

=============================================================================
