# Formal model of the Yura runtime

Yura is an AI character that talks by voice and subtitle, in a console or on a
YouTube stream. This directory holds TLA+ modules translated from `src/app` and
`src/streaming_admin`, the TLC configurations that check them, and TLAPS proofs.
It asks of the program:

1. Several tasks and threads ask for the floor. Who has it, and does everybody
   who got it also give it back?
2. Several outputs wait for one mouth. Do they come one at a time, is what is
   reported what was heard, and does an emergency stop silence them?
3. A stream is prepared, approved, opened and ended by commands that overlap,
   while OBS and YouTube fail. Is there one session, is it in one task's hands,
   is a session that is called finished off the air, and is none forgotten
   half-way?
4. Viewers' comments come page by page. Is each accounted for, and answered at
   most once, though its reservation may run out while it is answered?
5. The operator's console follows over a connection that breaks and a queue that
   overflows. Does it see the log in order, or hear of the gap?
6. The user plays a word game in the middle of a conversation with questions and
   answers. Do game and conversation stay in step, and does the character say
   only what is so?

Paths below are relative to `src/`. Line numbers are in `PROJECT.json` ("map").

## 1. Inventory

### Processes

| Runs | Where | Steps at |
|---|---|---|
| console task, `RuntimeCoordinator.run` loop, tasks of the streaming plugin (start, end, poller, one per comment), handlers of the admin API | one asyncio loop, the *main loop* (`app/__main__.py`) | every `await` |
| `ActivityPlannerThread` | a thread of its own | every lock |
| `ActivityExecutorThread` | a thread with an asyncio loop of its own | every lock and `await` |
| helper threads of `asyncio.to_thread` (output gate, audio player) | thread pool | every lock, start and end |
| the console `streaming_admin` | another process: the reader of the event stream, request workers, the window | every message |

The standard mode has the first four. The `streaming_demo` mode has neither console
task nor the two threads.

### Components

| Component | State it keeps | Operations | Talks to | What is hard | What makes it correct |
|---|---|---|---|---|---|
| **Activity manager** `app/runtime/activity_manager.py` | `_activities` in insertion order with status, `_foreground_activity_id`, the OngoingActivity, an RLock | `handle_event`, `prepare_user_input`, `register_plugin_activity`, `complete_processed_activity`, `cancel_activity`, `discard_deferred_autonomous` | called by every process above | any operation may come at any time; completions of Activities that were suspended or cancelled meanwhile | one foreground, which is the one ACTIVE Activity; nobody waits for an empty floor; nothing over is revived; resumption in order |
| **Runtime coordinator** `app/runtime/runtime_coordinator.py` | `EventQueue`, the loop | `publish_events`, `run_once`, `_handle_event`, `_route_behavior`, `execute_external_activity` | manager, both threads, scheduler, games | accepting a USER_TEXT is several critical sections; an Activity that lost the floor while it was planned | a user is answered; older talk does not survive a USER_TEXT |
| **Planner thread** `activity_planner_thread.py` | `_autonomous_cancellation_generation` | `run_once`, `cancel_inflight_autonomous` | manager, planned queue | decides on what it read seconds ago | a queued talk is newer than the last USER_TEXT |
| **Executor thread** `activity_executor_thread.py`, `planned_activity_queue.py` | planned queue | `run_once`, `cancel_pending_autonomous` | manager, scheduler | checks a status, then waits | the talk it starts may still be spoken; the talk it drops is not needed any more |
| **Action scheduler** `action_scheduler.py`, `usecases/execute_action_usecase.py` | `_PriorityOutputGate`, `_running_tasks`, the latch `_prevent_new_actions` | `execute`, `cancel_outputs` | audio player, subtitle, coordinator, executor | two event loops and helper threads at one condition variable; cancellation that threads do not see | one unit at a time; replies first; report = what was heard; silence after a stop |
| **Start of a session** `prepare_`, `start_stream_session_usecase.py`, `stream_lifecycle_gate.py`, `stream_opening_usecase.py`, `stream_main_segment_usecase.py` | session with version, opening, main segment, a lock for preparation only | prepare, approve, start, open, advance, retry | OBS, YouTube, scheduler | each usecase keeps its own copy of the session over its awaits; verified facts go stale; retries race attempts | one session, in the hands of one task; segments in order and one at a time; nobody stays half-way |
| **End of a session** `end_stream_session_usecase.py` | `StreamSession` with version, `StreamClosingActivity`, `_lock`, `_normal_task` | `normal`, `emergency` | scheduler, OBS, YouTube | an emergency stop overtakes a normal end at each of its awaits; every external call may fail after it took effect | finished means off the air; no session is left to nobody; order of farewell, YouTube, OBS |
| **Comment pipeline** `youtube_live_chat_poller.py`, `comment_moderation_`, `comment_ranking_`, `comment_response_usecase.py` | page token, deduplication, candidate pool, selections with expiry, response Activities | poll, moderate, select, respond, retry | YouTube, gate, scheduler | a page that ends half-way; a reservation that expires while it is answered | each comment at most once and none lost silently; one answer at a time; records agree |
| **Event broker and console** `core/application/events.py`, `admin_api/server.py`, `streaming_admin/` | ring of events, subscriber queues; the window's state, requests under way | publish, subscribe, replay; reload, fetch, show | all; HTTP | overflow, lost connections, answers and events that overtake each other | no gap without a marker, order, each event once; what was missed is reloaded |
| **Behaviour planning, confirmations** `behavior_planner.py`, `situation_evaluator.py`, `pending_confirmation.py` | the one pending question | propose, revise, resolve, expire | coordinator | an answer to a question that was superseded or ran out | a plan is run at most once and by the answer to its own question |
| **Games** `game_engine.py`, `shiritori_game_service.py`, `plugins/games/` | a game's session | start, move, pause, resume, surrender, quit | coordinator, LLM | game and OngoingActivity change at different times, with awaits and failures between | the two agree between turns; the rules hold |
| **Character response** `action_planner.py`, `character_response_pipeline.py`, `character_response_validation.py` | none that outlives a reply | draft, validate, draft again, replace | LLM | a model that says one thing and reports another; facts of an earlier stage | only claims that are so |
| Plugin host `core/plugins/`, `core/application/plugins/` | registrations, started plugins | register, start all, stop all | plugins | one of several starts or stops fails | dependencies first; all that started is stopped |
| Agent life `agent_life_service.py`, `agent_state.py`, `topic_manager` and others | drives, emotion, topic | update per event | planner, coordinator, executor | read-modify-write by three threads without a lock | no update is lost |
| Adapters `app/adapters/` | connections | I/O | OBS, YouTube, VOICEVOX, LLM | external failures | (pure I/O) |

Interaction in one line: a text is *routed* to behaviour planning and the game, or
becomes an event; an event becomes an Activity in the *manager*; whoever runs it
(the *coordinator*, a streaming task or the *executor*) has it planned and worded,
looks whether it still has the floor, takes its turn in the *scheduler*, and
completes it in the manager, which resumes the next one. Start, end and comment
answers speak along that path; what they do is published to the *console*.

The last three are not modelled. `PROJECT.json` ("hazards") lists what is hard to
test in this code at the line where it bites, and which property watches it.

## 2. The modules

```
ActivityArbitration            operations of the manager, as functions of its state
  `-- ActivityManager          any caller at any time  (abstract specification)
        |-- ActivityManager_proofs, MCActivityManager
        `-- RuntimeActivities  the program's own callers; implements ActivityManager
              `-- RuntimeActivities_proofs, MCRuntimeActivities
ActionScheduler                output units, gate, cancellation
  `-- ActionScheduler_proofs, MCActionScheduler
SessionLife                    a session's transitions  (abstract specification)
Preparation                    what is asked before a session is READY
  `-- StreamStart              prepare, start, opening, main segment, retries;
        |                      implements SessionLife
        `-- StreamStart_proofs, MCStreamStart
StreamEnd                      normal ends and emergency stops; follows SessionLife
  `-- StreamEnd_proofs, MCStreamEnd
LiveChat                       poller and moderation
  `-- CommentPipeline          ranking, reservation, answer, retry
        `-- CommentPipeline_proofs, MCCommentPipeline
EventFeed                      what a reader is promised  (abstract specification)
EventBroker                    broker, SSE endpoint, client; implements EventFeed
  `-- AdminConsole             the console's requests and window on top of it
        `-- AdminConsole_proofs (for both), MCAdminConsole
Shiritori   CharacterResponse  a game, and the claims of a reply, as operators
  `-------------`-- GameConversation   a turn of the user, from text to reply
                      `-- GameConversation_proofs, MCGameConversation
```

Definitions marked "Mutant" in a module are not part of its specification. Each is
a plausible bug in the definition that follows it, with which a property must
fail; `PROJECT.json` ("mutants") says which.

### ActivityArbitration and ActivityManager

One record `mgr` stands for the manager: `status` of every Activity ("ABSENT"
before it is given to the manager), `foreground`, and `arrival` for the insertion
order of the dict. Every operation of the code runs under the RLock, so each is
one function from record to record: `Resolve` is `_resolve_activity` with the
suspension of the foreground, `HandleEvent` reuses the Activity of the event,
`PrepareUserInput` reserves a conversation only against an autonomous foreground,
`CompleteProcessed` is `complete_processed_activity` with the discarding of deferred
talk before and `resume_next_pending` after it. `Complete` has no guard against
cancelled or suspended Activities, as in the code.

Activities are told apart by kind: `conversation` (USER_TEXT), `startup`
(APP_STARTED), `explicit` (streaming plugin), `autonomous`, `idle`. The kind fixes
priority and interruptibility with the numbers of the code, the prioritizer's
bonus included.

`ActivityManager` lets any operation come at any time. It is the promise of the
component and the abstract specification of the next module.

### RuntimeActivities

The callers the program has. `phase[a]` is how far the run of Activity `a` is, from
its event to its completion; `publisher` and `planner` are program counters with
local variables, because `publish_events` and `ActivityPlannerThread.run_once`
read, let go of a lock and act later. Each lock acquisition is one step.

| Code | Actions |
|---|---|
| `publish_events` | of a USER_TEXT `Publish`, `CancelInflight`, `CancelDeferred`, `RemoveQueued`, `CancelRemoved`, `EnqueueText`; of APP_STARTED `PublishStartup` |
| `run_once`, `_handle_event` | `TakeEvent`, `PlanReturns`, `PlanRaises`, `CompleteRun` |
| `execute_external_activity` | `StartExplicit`, then the same |
| planner thread | `PlannerBegin`, `PlannerReadsForeground`, `PlannerReadsPending`, `PlannerGivesUp`, `PlannerCreates`, `PlannerPuts`, `PlannerWithdraws` |
| executor thread | `ExecutorFetches`, `ExecutorChecks`, then `PlanReturns`... |
| output gate | `StartOutput`, `FinishOutput` |

The tasks of the main loop cannot step while `publish_events` is between two of its
critical sections, since it does not await (`LoopThreadFree`). The threads can.
`ImplementsManager` is the refinement: with `mgr` mapped to itself every step of
every process is one operation of `ActivityManager`, or none.

### ActionScheduler

A unit is a group of actions with a SPEAK. `pc` follows its task through
`execute`; `helper` is the thread in `_PriorityOutputGate.acquire`, which is not
reached by a cancellation of the task; `active` and `sequence` are the gate;
`sound` is what the audio player does, which nobody stops either; `results` and
`report` are what comes back. `ThreadUnits` run on the executor's loop,
the others on the main loop. On the main loop the code between two awaits is not
interrupted (`CanStep`); the executor's loop interleaves with it everywhere, so
that the check of the latch (`Admit`) and the entry into `_running_tasks` (`Join`)
are two steps.

`CancelOutputs` sets the latch and calls `Task.cancel` on all that is registered.
The cancellation takes effect at the await the task is at or comes to next:
`CancelledWaiting` (raises; the helper thread stays behind and acquires a gate
that nobody will release) or `CancelledSpeaking` (`_execute_action` makes a
CANCELED result of it).

### SessionLife

`SessionLife` is `StreamSession` with its repository, whoever leads it: the table
`_ALLOWED_TRANSITIONS` (`Successors`), Activities attached only to a LIVE session, and a
version that each save counts up. A task saves up to three times between two awaits,
so a step of it may be a path of three. `transition` and `attach_...` raise for what
the table does not have, in the middle of a command; the modules below have no such
outcome, and that they need none is what their refinements of `SessionLife` say.
In `StreamStart` the end is two steps of the environment, which the refinement maps to
an emergency stop.

### Preparation and StreamStart

`Preparation` is what one preparation asks: each check of the code is a set of
possible answers, as a function of what the world is in (a broadcast that is over
cannot be found selectable), and `Noted` is `ReadinessPolicy.evaluate` of each
answer. YouTube's checks come one after the other, and what the last ones
must read depends on what the earlier ones have read (`ExpectedStream`); OBS and
the program's own parts are asked beside them. `survey` keeps what
later checks and the decision depend on.

`StreamStart` has the tasks. `lock` and `queue` are of
`PrepareStreamSessionUsecase`; a start has no lock but a place for one task
(`Approve`), and `known[c]` is the version of the copy each task keeps over its
awaits. `BeginStart`, `StepStart`, `FailStart` and `GoLive` are the start with its
calls and polls, which may fail after taking effect; `StartsOpening`, `EndOpening`,
`EndMain` and `FailOpening` the segments that the same task speaks; `SeeSegment`,
`RetryOpening` and `RetryMain` the retries an operator orders for the attempt he
saw. `GateAllows` is the lifecycle gate. `WorldMoves` is OBS and YouTube, and those
who operate them by hand; `EndBegins` and `EndFinishes` stand for `StreamEnd`.

### StreamEnd

Each command is a task. `Read` is the client reading the session's version,
`ArriveNormal` and `ArriveEmergency` the request: an emergency stop first cancels
outputs and the current `_normal_task`, and only then waits for the lock like the
others. `BeginClosing`, `ResumeStop` and `RejectNormal` are the validation of a
normal end with its outcomes; `FarewellPlanned`, `FarewellSpoken` and
`FarewellFails` the farewell; `BeginEmergency` the validation of an emergency
stop; `CallSucceeds`, `CallFails`, `ObsStays` and `Confirmed` are
`_stop_external`; `CancelledQueued` and `CancelledAtWork` are the places a
CancelledError can end a task. A failed or cancelled call may have taken effect.
`MainStarts` and `MainCompletes` are the environment: the main segment, which
must be over before a normal end.

### LiveChat and CommentPipeline

A comment is its place in the chat. `LiveChat` is the poller's task (`BeginPoll`,
`PageArrives`, `FetchFails`, `HandOver`, `PageEnds`, `StopForLifecycle`) and the
moderation of what it hands over; pages may overlap, and what exceeds the rate is
dropped and counted. `CommentPipeline` gives each allowed comment its task:
`Add` to the pool (a full one pushes out its oldest), `BeginRanking` under the
selection lock, `EndRanking` with the reservation and the beginning of the answer,
`SpeechEnds` or `SpeechFails`. `TimePasses` lets a reservation run out at any
time; as in the code nobody notices before the next look (`Looked`). `SeeFailure`
and `Retry` are the operator's retry. Which comment wins is a free choice among
those that may be chosen (`Winners`).

### EventFeed, EventBroker, AdminConsole

`EventFeed` promises a log that is seen in order, each event once, with a warning
before anything is skipped. `EventBroker` has the bounded history, the replay that
`Connect` computes from Last-Event-ID, the live queue that a full `Publish`
replaces by a marker, the lines under way on a connection that `Lose` breaks with
everything in it, and the client's filter of what it has seen. `Publish` and
`Connect` are one step each, as neither awaits. The refinement maps a client's
position to the newest event it has seen, and `warned` to its last id being a
marker.

`AdminConsole` adds the controller. `load` and `completed` hold no lock from end to end,
so each thread has a place in them (`at`): the reader of the stream (`Reader`), the
window's thread (`Windows`), and the workers of the pool, which call `load` again from
`completed`. In `load` the busy mark is read (`LoadSees`) and then the mark for a
reload left (`LoadMarks`) or the request submitted (`LoadSubmits`). In `completed` the
operation is freed (`Frees`), the answer or error handled (`Handles`), the mark read
(`ReadsMark`) and then cleared, with or without another load (`ClearsMark`), which
depends on whether the last request to be handled, any request, has found the core
(`coreConnected`). `session-status` stands for the fetches of every other operation.
A state with observed_at is shown unless it is older (`Shows`); an event without one is
shown over anything (`ShowsUndated`). `promised` is history: the newest state when the
last reload was asked for, and 0 once a reload has ended early in one of the three ways
that section 3 names.

### Shiritori, CharacterResponse, GameConversation

`Shiritori` is the engine's one game and the rules, over words that are a first and
a last kana. `CharacterResponse` is a reply's facts, the claims they allow
(`Allowed`) and refute (`Refuted`), and the validator over a draft that makes
some claims and reports others.

`GameConversation` takes a text from `_route_behavior` to the reply. `stage` is the
await the coordinator is at: `Confirms`, `Declines`, `Revises`, `Considers`
(the open question); `Asks`, `Converses`, `Decides` (evaluator and planner);
`Dismisses`, `RollsBack`, `Begins` (interpretation of the plan); `Rejects`,
`StartsGame`, `Moves`, `Steers` (the command); `Replies`, `Misses`, `FallsBack`,
`GivesUp`, `Speaks`, `ModelFails` (the AI's turn); `Synchronizes` (the
OngoingActivity); `Adopts`, `Refuses`, `ReplacesSafely` (the character). Each
answer of a model is anything its parser lets through.

## 3. The runs

| Run | Instance | Distinct states | Shows |
|---|---|---|---|
| `activity_manager` | a conversation, an explicit Activity, two autonomous talks, an idle one | 64,854 | one foreground, order of resumption, no revival, for operations in any order |
| `runtime_console` | a USER_TEXT, the start-up reaction, two talks; queue bound 1 | 35,136 | the USER_TEXT is answered; no older talk survives it |
| `runtime_streaming` | a USER_TEXT, a streaming Activity, two talks; queue bound 1 | 57,724 | the same cancellations beside a streaming task, which always completes; refinement of the manager |
| `action_scheduler` | a reply, a scene with gesture, two talks on the executor's loop | 158,372 | exclusion, owner of the gate, report, silence of the main loop, one talk at most that goes on after a stop, nobody waits for ever |
| `stream_start` | two sessions, two preparations, two starts, two retries | 80,373 | one session and one owner; refinement of `SessionLife`; segments in order, one at a time; nobody stays half-way |
| `stream_end` | two normal ends, one emergency stop | 26,433 | finished means off the air; no session without a runner; no farewell after an emergency stop counts as said; every command ends |
| `comment_pipeline` | three comments, two polls, a pool of two, one retry | 223,545 | each comment accounted for and answered once; records agree; the selection is given back |
| `admin_console` | one client, three events, one loss, one failure, two workers | 235,211 | refinement of the feed; the client and the window catch up |
| `game_conversation` | three words, nine texts, five turns | 92,281 | game and OngoingActivity agree; speech agrees with the facts; chain of words; confirmed once; every turn ends |
| `streaming_answer` | as `runtime_streaming` | - | a disagreement, below |
| `emergency_takes_effect` | one normal end, one emergency stop | - | a disagreement, below |
| `game_answer` | as `game_conversation`, four turns | - | a disagreement, below |

All runs set `CHECK_DEADLOCK FALSE`: every instance has finitely many Activities,
units, commands, comments, events or texts, and the system rests when they are over.
What must not get stuck is stated as liveness.

The type invariants of the modules that have no `TypeOK` in a run were checked
on the same instances, and their content is part of the inductive invariants that
are proved (section 4), except for the attempts' bound and the survey of
`StreamStart`.

### Bounds, and why they are enough

- *Activities.* Two talks are needed for ties in priority and for one to be queued
  while another is run; one conversation and one Activity that outranks it for the
  preemptions. With two conversations, one of them can be handled while the other
  has the floor: the second is given the floor first, the one that was prepared
  before it is PENDING when its actions come, and loses its answer in the way of
  finding 1. So `ConversationHasRunner` and `UserTextAnswered` hold for one.
- *Planned queue.* `MaxQueueSize = 1` (3 in the code). The bound is reached and the
  planner waits before it and puts behind it; larger bounds add queued talk that
  is treated alike. `generation` counts accepted USER_TEXTs and is bounded by their
  number.
- *Units.* Four: one inside the gate, others waiting, of three priorities and on two
  loops; the executor's thread outputs two talks one after the other, so that a second
  could be let in after a stop.
- *Start.* Two preparations so that one waits for the lock of the other or meets a
  session the other has changed; two starts, one of which finds the session as the
  other left it; two retries for one attempt (`MaxAttempts = 2`); a second session
  for the one that comes after a failure or an end. Commands of one kind that have
  not come yet are alike, and `Order` lets them come in one order. `Naming` is
  empty: the console names no session. OBS is started by hand only while a session
  is prepared. The required checks are the defaults of
  `app/config/app_config.py`.
- *End.* Two normal ends so that one overwrites `_normal_task` of the other, one
  waits, and one retries from STOP_FAILED. Two normal ends and two emergency stops
  were run once for safety: 942,000 states, no error. The session's version grows
  with each accepted command, so the number of commands bounds it.
- *Comments.* Three comments with `PerPoll = 2` on two pages: one page with more than
  the rate allows, an overlap of pages, and a pool of two that a third pushes out of.
  One retry of the poller and one of a response.
- *Events.* Three events with a history of two, a replay, a queue and a
  wire of one: a queue that overflows, a replay that is cut, an id that has left
  the history, and a connection that breaks with a line under way.
  One event has the state fetched, one is shown without observed_at, one with.
  Two workers (four in the code) so that a load is completed while a request of another
  operation is. The window's thread and a third worker multiply the states beyond
  what liveness can be checked on: with the window's thread and two events (312,035
  states), and with three workers (455,662), the type invariant and `ReloadOnItsWay`
  (section 4) were run once without an error, and the theorem is about any number.
- *Words.* Three words: a chain that goes on (Ame, Meka), one that loses (Men), and a
  fourth kana that none begins with, so that the AI runs out of words after its one
  word in stock. Nine texts: each kind of answer and each control, two of them words.
  Drafts of one claim or none whose report agrees or not: a draft of several claims is
  refused if one of them is. Five turns reach a paused game that is resumed and
  ended, and a second game.

### Fairness

Weak fairness of what a scheduled task or thread does next, and nothing else:
asyncio runs ready tasks, the OS runs threads, awaited calls return or raise (OBS,
YouTube and the LLM are called with timeouts), the console's reader, window and workers
run (`StreamStep`, `LoadStep`, `WorkerStep`), the audio player comes to the end of
a voice, and `notify_all` wakes the waiters of the gate. No fairness for what the
environment starts: no one has to type, no planner has to talk, no
operator has to send a command, no viewer to write, nobody to publish
(`PlannerBegin`, `Publish`, `Admit`, `Read`, `Arrive...`, `Approve`, `Post`, `Hears`),
none for time (`TimePasses`, `Expires`), none for what breaks (`Lose`, `Fails`), and
none for which way a call ends. `CommentPipeline` asks for none of the poller either:
`EveryTaskEnds` holds even if it is never scheduled again.

### What disagrees with the documents

With a run each:

1. `streaming_answer`: a USER_TEXT handled while a streaming Activity has the floor
   is planned, found not ACTIVE, and dropped without being completed. When the
   streaming Activity completes, the conversation becomes the foreground with nobody
   to run it. `docs/source_file_plan.md:549` has it answered next.
2. `emergency_takes_effect`: an emergency stop during the farewell makes the normal
   end fail, which moves the session to STOP_FAILED with a new version before the
   emergency stop has the lock; it is then rejected for its version and the stream
   stays on air. `docs/policy/youtube_streaming_policy.txt:343`.
3. `game_answer`: a confirmed plan to continue the game is interpreted with the text
   of the answer, so that the yes itself is played as a word.
   `app/runtime/pending_confirmation.py:94` has the candidate plan executed.

Seen while modelling, and part of the models as the code has them:

- The executor drops a PENDING talk from its queue; the manager resumes it later and
  nobody runs it (`docs/source_file_plan.md:376`). The same mechanism as 1.
- A talk suspended by a USER_TEXT while it waits at the output gate is spoken all
  the same (`docs/source_file_plan.md:535`).
- `cancel_outputs` does not reach the player: the voice in progress is heard to its
  end (`docs/policy/youtube_streaming_policy.txt:341`). Its latch is never reset, and
  `emergency` sets it before it validates the command, so that a rejected
  emergency stop silences the program until it is restarted. An executor unit that
  passes the latch just before it is set may start its voice after the stop, or
  leave the gate closed; `OneSlipsThrough` says that it is one unit at most,
  `MainLoopFallsSilent` that none of the main loop is, and `EveryOutputEnds` leaves this
  end open.
- An event that comes while the console's fetch is under way leads to no second
  fetch, and the window keeps the older state (`docs/streaming_admin_console.md:10`).
- A reload after a reconnection ("Reload every bootstrap resource needed by the current
  screen", `streaming_admin/ui/stream_preparation_controller.py:115`; the state is fetched
  on reconnection, `docs/streaming_admin_console.md:9`) may end early in
  three ways, and nothing asks for it again before the next reconnection. It fails, and
  no other waits. Or it waits for the one under way, and when its turn comes a request
  of another operation has failed with runtime.unavailable, so that `completed` thinks
  the core is gone (line 369) though the stream is connected. Or `load` finds a load
  busy (line 57), its `completed` goes through on the worker's thread (lines 347 to
  367), and only then is the mark left that nobody will read (line 58). `ReconnectReloads`
  says that these are all.
- `stream_preparation.started` and `.check_updated` carry no observed_at: the window
  shows them over a newer state, as a session with an unknown status
  (`streaming_admin/ui/stream_preparation_window.py:892`), until the next state comes.
- `save` of the session repository lets a FAILED session become active beside
  another. `OneActiveSession` holds because no command names a session.
- The poller counts its attempts over the whole session, so that a late
  failure is not retried.
- A game that is paused is ACTIVE to the validator: words are played in it, and chat
  begins a turn of its OngoingActivity, which is then ACTIVE or WAITING while the
  game stays paused. The character may then say that the game is running, which
  is why `SpeechMatchesGame` asks only that there is a game. After a game was completed by a "continue" turn
  `current_activity_preserved` stays set, and a true "it is over" is refused.
  The safe reply to a declined confirmation claims that the execution is unavailable,
  which its own context does not allow.

## 4. The proofs

All theorems hold for every value of the constants: any set of Activities and
any assignment of kinds; any units, threads and priorities; any normal and emergency
commands; any comments, pages, pools and retries; any clients, events, losses and sizes
of history, replay, queue and connection; any words, texts and drafts, and all bounds.
Assumed are only the named assumptions of the modules (`KindAssumption`,
`NoActivityAssumption`, `MaxQueueSizeAssumption`; `UnitAssumption`;
`PreparationAssumption`, `StartAssumption`; `CommandAssumption`; `ChatAssumption`,
`PipelineAssumption`; `BrokerAssumption`, `ConsoleAssumption`; `WordsAssumption`,
`DraftsAssumption`, `ConversationAssumption`, `OngoingAssumption`). Two theorems have a
hypothesis besides: `OneActiveSessionCorrect` that no preparation names a session, as
the console's do not, and `ConversationHasRunnerCorrect` that the session is one of the
console with one USER_TEXT (`ConsoleSession`), without which it is false.

### ActivityManager

The inductive invariant is `Good(mgr)`: `mgr \in Managers`, the foreground is the one
ACTIVE Activity (`OneActive`), and the arrival numbers of the Activities are distinct
and below `count` (`InOrder`).
`OneActive` is the property itself and is inductive given the type; `InOrder` is
needed for `ResumesInOrder`, where `resume_next_pending` must have exactly one
choice. `ActivityManager_proofs` has a lemma per operation that it leads
from a good manager to a good one (`ResolveIsGood`, `CancelIsGood`, ...), and for the
action properties a second series that says what an operation does to one
Activity's status (`Enters`, `TakesOver`, `Cancels`, `Discards`, `Completes`),
so that each theorem is a case split over five effects instead of seven actions. Both
are used again for the runtime.

Proved: `ManagerTypeOK`, `ForegroundIsTheActive`, `NeverRevived`, `OnlyCancellationStrands`,
`ResumesInOrder`; and, without a run, `FloorIsKept` and `ConversationEndsDeferred`.

### RuntimeActivities

`QueuedTalkIsFresh` is not inductive: it says nothing of talk that the planner still
has in hand, or of what `publish_events` has yet to cancel. `IInv` adds

- `Known`: an Activity with phase "new" is ABSENT, and one that is run is not;
- `Talk`: talk between its conception and the queue is the planner's alone and was
  conceived in the generation the planner remembers, which is at most the current one
  and at "withdraw" an older one;
- `Accepting`, `Held`, `Gate`: who is in a queue, at the gate or being accepted is
  there once and in the phase that goes with it, so that no two threads run one Activity;
- `Cleared`, `FloorStaysEmpty`: after the deferred talk was discarded, only talk that
  the planner is about to withdraw can be deferred again, because a planner that
  found no foreground finds none while `publish_events` goes on.

`ImplementsManager` goes step by step: the actions that change `mgr` do so by one
operation whose guard in `ActivityManager` follows from `Known`, the others stutter.
With it `ForegroundIsTheActive`, `NeverRevived` and the rest hold of the program's
callers as well.

`ConversationHasRunner` has an invariant of its own, `Staffed`. That the conversation
with the floor is accepted, queued or run is not inductive: it could be resumed
from PENDING or SUSPENDED when its run is over. `Staffed` says that it is never in either,
and, as it would wait for a start-up reaction of the same rank, that until the manager
is given it no start-up reaction waits and one that has the floor is being run. Talk
does not matter to it (`Spares`): each step of a thread is shown to touch the status
and phase of talk alone. The hypothesis on the session is
needed where Activities come to the manager (`PublishStaffed`, `TakeEventStaffed`), so
that the conversation finds none there that it would have to wait for.

Proved: `QueuedTalkIsFresh`, `AcceptanceClearsTalk`, `ImplementsManager`,
`ConversationHasRunner`.

### ActionScheduler

Exclusion is not inductive: a cancelled waiter leaves a helper thread behind that
acquires the gate for a task that is gone. `IInv` is `TypeOK`, `GateHasOwner` and for
every unit

- `Owner`: who is inside has a helper that acquired the gate; while a unit is
  registered and its helper has acquired, `active` is that unit; who is voicing has
  its own subtitle on display;
- `Progress`: what `sound`, `results` and `report` can be at each `pc`;
- `Stopping`: a unit is cancelled only while registered and only after the latch was
  set; a helper outlives its task only after the latch was set; from then on every
  unit of the main loop is over, not begun, or about to be cancelled. This is what
  `GateHasOwner` and `MainLoopFallsSilent` rest on.

`OneSlipsThrough` needs, besides, what `Admit` keeps: the executor's thread has one unit at
work at a time (`OneOnThread`), so of those that `cancel_outputs` does not find in
`_running_tasks` one at most is past the latch.

`ReportOfSpeech` computes `_build_output_result` for the sequences that occur, and
`SpeechIsOverKeeps` covers the four ways a SPEAK ends. The induction has a step per
action.

Proved: `TypeOK`, `OneUnitAtATime`, `GateHasOwner`, `ReportMatchesSound`,
`MainLoopFallsSilent`, `OneSlipsThrough`; and, without a run, `SubtitleOfSpeaker`.

### StreamStart

Preparation, start, segments and end of a session run as tasks of their own, over
awaits, with copies of the session, and share no lock. What protects a session is
its status, which `IInv` says:

- `OneStart`: one start at a time is accepted and not over;
- `Owned`: a task at its checks has the lock and a session that is PREPARING, one at
  its steps a session that is STARTING, each with the current version; and such a
  session has such a task. A task that takes a session finds it in another
  status, so it has no owner (`NoOwner`);
- `Spoken`: a segment is SPEAKING exactly while a task speaks it, and one task does;
- `Ordered`: the main segment comes after a completed opening, the opening after the
  session is LIVE, which is never undone. So the task of a start meets no segment
  (`NotBegun`), and a retry of the opening no main segment.

`OneStartKept`, `OwnedKept`, `SpokenKept` and `OrderedKept` say what a step must leave
alone for each part; the steps that take or give back a session
(`ClaimPrepareKeeps`, `LeavePrepareKeeps`, `ClaimStartKeeps`, `LeaveStartKeepsOwners`)
or change a segment (`SegmentKeeps`, `GoLiveKeeps`) have proofs of their own.
`OneActiveSession` needs `Single` besides: a preparation that waits for the lock and
has the session's version still finds it active. Each save counts the version up,
so a preparation whose session has failed or ended while it waited is refused.

The refinement of `SessionLife` needs no more than `IInv`. `Leads` lists the paths from
status to status that the actions take, `LeadsAlongTable` that each is one of the
table, and an action's lemma which path it takes: what a task that comes from an await
saves depends on the status it finds, which is what `Owned` knows.

Proved: `OneOwner`, `SegmentsInOrder`, `OneActiveSession`, `ImplementsLife`.

### StreamEnd

None of the invariants is inductive alone: whether a finished session is off the air
depends on what earlier steps of the same command, or of one that failed before,
have reached. `IInv` follows the holder of the lock:

- `Locking`: the holder is the one command between its validation and its end; who is
  cancelled waits in the queue, or holds the lock with an emergency stop behind it;
- `Stage`: the session's status is the one the holder's stage has brought about;
- `Reached`: what it must have stopped, or spoken, to be where it is;
- `InHand`: a session that is ending has a command at work on it, or an
  emergency stop that has the lock or waits for it.

The last two conjuncts of `Locking` and `InHand` need each other:
`CancelledAtWorkKeeps` leaves a session in CLOSING or STOPPING, and it is the
emergency stop in the queue that takes it over. `ContinueKeepsLocking` and
`LeaveKeepsLocking` serve all steps of the holder, `OthersArriving` all steps of
those who do not hold the lock, and `OthersStay` and `TailStays` say that whoever
leaves the queue leaves the others in it.

With `Stage`, each step of the holder is a path of the table (`FollowsLife`), and what
the table says of a session that is over holds of this one: `NeverBack` is proved of
the abstract specification's step and carried over.

`EmergencyEndsFarewell` needs one invariant more, `Silenced`: once an emergency stop has
come nothing is being spoken, as it cuts what is and the scheduler refuses what was
planned. Only what is being spoken can complete a farewell (`OnlySpokenCompletes`), and
by `Reached` a normal end that makes a call has a completed one, also when it was resumed.

Proved: `TypeOK`, `EndingHasRunner`, `FinishedMeansStopped`, `NormalEndInOrder`,
`SuccessMatchesStatus`, `EmergencyEndsFarewell`; and, without a run, `FollowsLife` and
`NeverBack`.

### CommentPipeline

The invariant has two halves that meet in `decision`, as poller and moderation only
hand comments over.

`Chat` is for `SeenIsAccountedFor`, an equation between cardinalities: what was seen is
a beginning of the chat (`SeenIsPrefix`), which is why the page token can be counted as
the number of comments seen, and the page holds different comments of those that are
undecided (`PageWaits`), so that handing one over takes exactly one from the set.

`Answers` is for the other two, neither of which is inductive: a comment
could be heard twice if two tasks spoke it, or if one that was heard could be
selected again.

- `OnItsWay`: a comment is in the pool, then ranked, then selected, and has no selection
  before; a candidate that waits cannot be one that was answered;
- `OneRanks`: the pool that is ranked belongs to the task with the selection lock;
- `Agree`: what the response's status says of the reservation (`Matches`), and that a
  comment that was heard is "consumed", or "expired" with an answer that is over:
  the reservation that ran out while it was spoken is no way back;
- `Speakers`: an answer that is SPEAKING has one task that speaks it, so a retry, which
  needs a FAILED one, meets none.

Proved: `TypeOK`, `SeenIsAccountedFor`, `AnsweredOnce`, `ReservationMatchesResponse`; and,
without a run, that one task ranks.

### EventBroker and AdminConsole

The invariant is about the *line* of each client: wire, replay and live queue, one
behind the other. `SendReplay` and `SendLive` leave the line as it is, `Read` takes
from its beginning, `Publish` adds to its end, an overflow puts a marker there and stops
serving it, and `Connect` begins a new one. For each (`Sound`):

- `Ordered`, `Markers`: its events follow one another without a gap, except that a
  marker may begin it, or end it when it is served no longer;
- `TakesUp`: it begins no later than after the newest event seen, unless the client is
  warned, and what it repeats was seen, so the client's filter drops nothing new;
- `Leads`: a line that is served leads to the newest event;
- `Skips`: what a client was made to skip is too old for any later replay
  (`Settled`). Without it an event older than the newest one seen could come after a
  second connection; this is the part that depends on the limit of the replay.

Of `history` only is needed that it is the end of the log (`HistoryIsEnd`), and of
`_select_replay` where the id is in it (`PlaceOf`) and what is behind (`Behind`).
`FeedReads` then shows that each line that is read is `See`, `Warn` or no step of
`EventFeed`. `ConsoleUsesBroker` gives the console the same theorem.

`ReloadCorrect` is the safety part of `ReconnectReloads`, and says where a reload is
(`OnItsWay`) until the window has a state no older than the promised one: submitted, in a
worker's hands that has its answer (`Fetched`), marked with a completion still to read
the mark (`Waits`), or with a thread in `load` or about to call it (`Called`). A thread
between line 57 and `_submit` counts only while no load is busy: of two that found none,
one submits for both, and as it does so after the reconnection its answer is new enough.
The proof goes action by action (`LoadOnItsWay`, `StreamOnItsWay`, `WorkerOnItsWay`); each
moves the reload from one of these places to another, and a step after which it is in
none is one of the three early ends. That it then goes on from there stays with TLC.

Proved: `ImplementsFeed` of the broker and of the console, both type invariants,
`ReloadOnItsWay`.

### GameConversation

`GameMatchesOngoing` and `SpeechMatchesGame` look at the end of a turn. `IInv` has
`Step`, which says stage by stage how far game and OngoingActivity may be apart
(`Together` before the command and after the synchronisation, `Ahead` between), and
`Truth` of the reply's context: nothing is a success that has not ended the game, and
where no game is left something in the facts refutes that one goes on.
`SpeechCorrect` then holds for any set of drafts, since the validator refuses
whatever the facts refute. `ChainCorrect` has an invariant of its own, `Chained` and
`FairlyPlayed` with the type of the game, over the operators of `Shiritori`.

Proved: `GameMatchesOngoing`, `SpeechMatchesGame`, `ConfirmedOnce`, `ChainHolds`.

### Only model-checked

Liveness (`UserTextAnswered`, `ExplicitCompletes`, `EveryOutputEnds`,
`EveryCommandEnds`, `StartsSettle`, `EveryTaskEnds`, `FeedCatchesUp`,
`ReconnectReloads`, `EveryTurnEnds`), which is out of the prover's reach. Every other
property that a passing run checks is stated by a theorem. For the parts of liveness
that are safety there are theorems of their own: who sees to an end
(`EndingHasRunner`), owns a session (`OneOwner`), holds the gate (`GateHasOwner`),
answers (`ConversationHasRunner`), reloads (`ReloadOnItsWay`).

## 5. What the models leave out

- *RuntimeActivities*: groups of actions without SPEAK; topics, drives and emotions
  (one nondeterministic choice, `PlannerGivesUp`); `expires_at` of planned items,
  which nothing sets; `enqueue`, which only tests call; refusals by the lifecycle
  gate; cancellation of tasks, which `ActionScheduler` and `StreamEnd` have. The
  routing of a USER_TEXT before it is accepted is `GameConversation`.
- *ActionScheduler*: the resource locks. Only units inside the gate take the locks of
  mouth, subtitle, face and body, and an OBSERVE never awaits, so nobody contends for
  them. The lifecycle gate is a nondeterministic refusal (`Refuse`).
- *StreamStart*: command ids that are repeated, which return the stored result; the
  adapters' own retries of a request; the capabilities that are reported. VOICEVOX's
  check is looked up under an id that it does not have, which only concerns a
  capability.
- *StreamEnd*: repeated command ids; the adapter-mode check; the lifecycle gate where
  it repeats the use case's own conditions (it differs in denying a second farewell,
  which `ResumeStop` has).
- *CommentPipeline*: the moderation's rules and the ranking's scores, which are free
  verdicts; blocking, ignoring and leaving to a review are one; `invalidate_session`,
  which has no caller.
- *EventBroker*, *AdminConsole*: observers that raise; widgets; the single HTTP
  operations; the console's `close`. Qt hands the emitted states to the window in the
  order they were emitted, and only the window reads what it shows, so a state is shown
  in the step that emits it.
- *GameConversation*: what models and markers make of a text, which is free; the
  patterns that find claims in a speech, which are sets; a switch to another
  activity, as the one game is the one activity registered, so that no plan
  has a target to switch to; the drift of an autonomous topic; facts with the status
  FAILED, which reach no reply; the plugin's shutdown.
- *Not modelled at all*: the plugin host, agent life, adapters (I/O), configuration
  and prompts.

## 6. Plan

Left, in order of what the system depends on most:

1. `PluginHost`: registry with dependencies, start and stop with failures. Property:
   what started is stopped in reverse order; dependencies first. Theorem over all
   dependency graphs.
2. `AgentLife`: the read-modify-write of `_agent_state` by three threads, drives and
   emotion as bounded numbers.
