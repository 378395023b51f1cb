---------------------------- MODULE GameConversation ----------------------------
(***************************************************************************)
(* What becomes of a USER_TEXT before it is talk: RuntimeCoordinator        *)
(* ._route_behavior asks SituationEvaluator and BehaviorPlanner for a plan, *)
(* keeps the one question PendingConfirmationManager may have open, and     *)
(* hands a plan that needs a plugin to GamesPlugin, whose game it keeps in  *)
(* step with the OngoingActivity of ActivityManager.                        *)
(*                                                                         *)
(* The console waits for one text to be dealt with before it reads the      *)
(* next, so there is one turn at a time; each await on a language model is  *)
(* a step of its own, may raise, and may answer anything its parser lets    *)
(* through.  A text is what the parts that read it make of it.  Whatever    *)
(* becomes of it, the character replies, to its turn of the activity.       *)
(***************************************************************************)
EXTENDS Shiritori, CharacterResponse

CONSTANTS
    Texts,          \* records [answer, says, control]
    NoText, NoPlan, NoQuestion, NoOngoing,
    MaxAttempts,    \* max_attempts of PendingConfirmationManager
    MaxTries,       \* max_generation_retries
    MaxTurns        \* bound: texts

Answers == {"yes", "no", "new_request", "clarification", "ambiguous"}
Controls == {"pause", "resume", "quit", "surrender"}

ASSUME ConversationAssumption ==
    /\ MaxAttempts \in Nat \ {0} /\ MaxTries \in Nat \ {0} /\ MaxTurns \in Nat
    /\ \A t \in Texts : /\ t.answer \in Answers
                        /\ t.says \in Words \cup {NoWord}
                        /\ t.control \in Controls \cup {"none"}

\* An OngoingActivity is the game's it is of.
Ongoings == [session : Nat, status : {"active", "waiting", "suspended"}]

ASSUME OngoingAssumption == NoOngoing \notin Ongoings

VARIABLES
    game,       \* GameEngine._current_session
    ongoing,    \* ActivityManager._ongoing_activity
    question,   \* PendingConfirmationManager._current: a plan and its attempts
    late,       \* its expires_at has passed
    able,       \* the plugin's COMMAND_HANDLER capability is available
    stage,      \* where _route_behavior is
    text, plan, command, tries,
    context,    \* the ResponseContext of the reply
    attempt,    \* drafts of it that were refused
    said,       \* the claims of the speech that answered the last text
    heard       \* texts so far

turnVars == <<text, plan, command, tries>>
replyVars == <<context, attempt, said>>
vars == <<game, ongoing, question, late, able, stage, turnVars, replyVars, heard>>

Operations == {"start", "continue", "stop", "none"}

\* An ActivityPlan: the operation ("none": explain, discuss or nothing), whether
\* it is the game's, whether its constraints are valid, whether it preserves the
\* activity that goes on, and whether it is run because the user confirmed it.
Plan(operation, ofGame, valid, kept) ==
    [operation |-> operation, ofGame |-> ofGame, valid |-> valid, kept |-> kept,
     confirmed |-> FALSE]

\* A GameIntentCommand, sure when its confidence reaches the threshold.
Command(intent, with, sure) == [intent |-> intent, with |-> with, sure |-> sure]
Chat == Command("chat", "none", TRUE)

Init ==
    /\ game = NoGame /\ ongoing = NoOngoing
    /\ question = NoQuestion /\ late = FALSE /\ able = TRUE
    /\ stage = "idle" /\ heard = 0
    /\ text = NoText /\ plan = NoPlan /\ command = Chat /\ tries = 0
    /\ context = NoContext /\ attempt = 0 /\ said = {}

-----------------------------------------------------------------------------
\* The OngoingActivity: what OngoingActivityCoordinator does to it.
NewOngoing(g) == [session |-> g.id, status |-> "active"]
TurnBegun(o) == [o EXCEPT !.status = "active"]
Recorded(o, waits) == [o EXCEPT !.status = IF waits THEN "waiting" ELSE "active"]
Paused(o) == [o EXCEPT !.status = "suspended"]

\* verify_context
Verified == ongoing # NoOngoing /\ ongoing.session = game.id

\* The facts are there, and the character is to reply.
Replying(facts) ==
    /\ stage' = "replying"
    /\ context' = facts /\ attempt' = 0 /\ said' = {}

\* _create_activity_from_event: the text becomes a conversation, which begins a
\* turn of the activity that goes on, o, paused or not.
Talks(o, confirms, operation, status, kept, aside) ==
    /\ ongoing' = IF o = NoOngoing THEN o ELSE TurnBegun(o)
    /\ Replying(Context(confirms, operation, status,
                        IF o = NoOngoing THEN "none" ELSE "active", kept, aside))

\* _confirmation_response_event
TalksOfQuestion(operation, status) == Talks(ongoing, TRUE, operation, status, FALSE, FALSE)

-----------------------------------------------------------------------------
\* The open question

\* PendingConfirmationManager.current
Asking == question # NoQuestion /\ ~late

Expires == Asking /\ late' = TRUE
           /\ UNCHANGED <<game, ongoing, question, able, stage, turnVars, replyVars, heard>>

Hears(t) ==
    /\ stage = "idle" /\ heard < MaxTurns
    /\ heard' = heard + 1 /\ text' = t
    /\ UNCHANGED <<game, able, command, tries>>

\* create: the new question takes the place of one that is open.
Ask(p) == question' = [plan |-> p, attempts |-> 0] /\ late' = FALSE

\* resolve, revise's last attempt, and expiry: nothing is asked any more.
Forget == question' = NoQuestion /\ late' = FALSE

\* Capability and constraints are validated before anything is run; what is
\* refused is answered in conversation, and what asks for no capability is one,
\* unless it is a start.
Accepted(p) == p.ofGame /\ p.valid
Conversational(p) == ~p.ofGame /\ p.operation # "start"

\* interpret_user_request: what a text is read as that no plugin is asked about.
RequestKinds == {"execution", "knowledge", "past_event", "negative", "chat", "ambiguous"}

\* _with_plugin_availability: an order nobody can execute is rejected, of anything
\* else the character may just talk.
TalkStatus(kind) == IF kind = "execution" THEN "rejected" ELSE "waiting_input"
TalkStatuses == {TalkStatus(kind) : kind \in RequestKinds}

\* The plan goes on to the plugin or ends in conversation.
Runs(p) ==
    /\ plan' = p
    /\ IF Accepted(p)
       THEN stage' = "interpreting" /\ said' = {} /\ UNCHANGED <<ongoing, context, attempt>>
       ELSE \E status \in IF Conversational(p) THEN TalkStatuses ELSE {"rejected"} :
            Talks(ongoing, FALSE, p.operation, status, p.kept, FALSE)

\* _confirmed_plan: only start, continue and stop are run.
Confirmed(p) == [p EXCEPT !.confirmed = TRUE, !.ofGame = @ /\ p.operation # "none"]

\* Mutant: the question stays open.
ConfirmsOnly(t) ==
    /\ Hears(t) /\ Asking /\ t.answer = "yes"
    /\ Runs(Confirmed(question.plan))
    /\ UNCHANGED <<question, late>>

Confirms(t) ==
    /\ Hears(t) /\ Asking /\ t.answer = "yes"
    /\ Forget
    /\ Runs(Confirmed(question.plan))

Declines(t) ==
    /\ Hears(t) /\ Asking /\ t.answer = "no"
    /\ Forget
    /\ TalksOfQuestion(question.plan.operation, "canceled")
    /\ UNCHANGED plan

\* revise: a clarification may mend the constraints or make it a continuation.
Revisions(t) ==
    LET p == question.plan
    IN  IF t.answer = "clarification"
        THEN {[p EXCEPT !.operation = o, !.valid = v] :
                 o \in {p.operation, "continue"}, v \in {p.valid, TRUE}}
        ELSE {p}

Revises(t) ==
    /\ Hears(t) /\ Asking /\ t.answer \in {"clarification", "ambiguous"}
    /\ IF question.attempts + 1 >= MaxAttempts
       THEN Forget /\ TalksOfQuestion(question.plan.operation, "canceled")
       ELSE /\ \E p \in Revisions(t) :
                  question' = [plan |-> p, attempts |-> question.attempts + 1]
            /\ TalksOfQuestion(question'.plan.operation, "waiting_input")
            /\ UNCHANGED late
    /\ UNCHANGED plan

\* No question is open, or the user has turned to something else.
Considers(t) ==
    /\ Hears(t)
    /\ ~Asking \/ t.answer = "new_request"
    /\ Forget
    /\ stage' = "evaluating" /\ said' = {}
    /\ UNCHANGED <<plan, ongoing, context, attempt>>

-----------------------------------------------------------------------------
\* Evaluation and planning

\* The plans plan_from_analysis may make with nothing going on: of the game when
\* the evaluator recognises it, conversation otherwise.
FreshPlans == {Plan(o, TRUE, TRUE, FALSE) : o \in {"start", "continue", "stop"}}

\* OngoingActivityTransitionPolicy: continue, resume and pause are continuations.
OngoingPlans == {Plan("continue", TRUE, TRUE, TRUE), Plan("stop", TRUE, TRUE, FALSE)}

\* _ongoing_planning_context: the evaluator and the planner are shown an activity.
GoesOn == ongoing # NoOngoing

\* ASK_CONFIRMATION: the evaluator is not sure, the constraints are invalid, or
\* another activity is wanted beside the one going on.
Questions ==
    {Plan(o, TRUE, v, v /\ GoesOn) : o \in {"start", "continue", "stop"}, v \in BOOLEAN}
        \cup {Plan("none", GoesOn, TRUE, GoesOn)}
        \cup IF GoesOn THEN {Plan("start", FALSE, TRUE, TRUE)} ELSE {}

Evaluated ==
    /\ stage = "evaluating"
    /\ UNCHANGED <<game, able, text, command, tries, heard>>

Asks ==
    /\ Evaluated
    /\ \E p \in Questions : Ask(p)
    /\ TalksOfQuestion(question'.plan.operation, "waiting_input")
    /\ UNCHANGED plan

\* Beside an activity the text is about it, or not, or nothing to act on.
Converses ==
    /\ Evaluated
    /\ \E status \in TalkStatuses, aside \in {GoesOn, FALSE} :
          Talks(ongoing, FALSE, "none", status, GoesOn, aside)
    /\ UNCHANGED <<question, late, plan>>

Decides ==
    /\ Evaluated
    /\ \E p \in IF GoesOn THEN OngoingPlans ELSE FreshPlans : Runs(p)
    /\ UNCHANGED <<question, late>>

-----------------------------------------------------------------------------
\* interpret_activity_plan and the checks before the command is executed

\* GameIntentInterpreter: markers of control, then a word that fits, then the
\* language model, which may make anything of the text.
FitsTurn(w) == w \in Words /\ game.turn = "user" /\ Follows(game, w)

Guesses ==
    {Chat} \cup {Command("start", "none", s) : s \in BOOLEAN}
           \cup {Command("move", w, s) : w \in Words \cup {NoWord}, s \in BOOLEAN}
           \cup {Command("control", c, s) : c \in Controls, s \in BOOLEAN}

Interpretations ==
    IF Active(game) /\ text.control # "none"
    THEN {Command("control", text.control, TRUE)}
    ELSE IF Active(game) /\ FitsTurn(text.says)
    THEN {Command("move", text.says, TRUE)}
    ELSE Guesses

CommandsOf(p) ==
    CASE p.operation = "start" -> {Command("start", "none", TRUE)}
      [] p.operation = "stop" -> {Command("control", "quit", TRUE)}
      [] OTHER -> Interpretations

Interpreting(c) ==
    /\ stage = "interpreting" /\ c \in CommandsOf(plan)
    /\ command' = c /\ tries' = 0
    /\ UNCHANGED <<question, late, able, text, plan, heard>>

\* Nothing is requested, or the plugin cannot execute commands any more.
Dismisses(c) ==
    /\ Interpreting(c)
    /\ c.intent = "chat" \/ ~able
    /\ \E status \in IF c.intent = "chat" THEN TalkStatuses ELSE {"rejected"} :
          Talks(ongoing, FALSE, plan.operation, status, plan.kept, FALSE)
    /\ UNCHANGED game

\* _rollback_plugin_and_ongoing: a continuation of nothing.
RollsBack(c) ==
    /\ Interpreting(c) /\ c.intent # "chat" /\ able
    /\ plan.operation # "start" /\ ~Verified
    /\ Talks(NoOngoing, FALSE, plan.operation, "rejected", plan.kept, FALSE)
    /\ game' = Canceled(game)

\* begin_turn, unless a new activity starts.
Begins(c) ==
    /\ Interpreting(c) /\ c.intent # "chat" /\ able
    /\ IF plan.operation = "start" THEN UNCHANGED ongoing
       ELSE Verified /\ ongoing' = TurnBegun(ongoing)
    /\ stage' = "executing"
    /\ UNCHANGED <<game, replyVars>>

-----------------------------------------------------------------------------
\* GamesPlugin.execute_command

TurnStarted == plan.operation # "start"

\* GameCommandValidator.validate
Validated(c) ==
    /\ c.sure
    /\ CASE c.intent = "start" -> ~Active(game)
         [] c.intent = "move" -> Active(game) /\ game.turn = "user"
         [] c.intent = "control" -> Active(game)

\* The turn failed: it is recorded, what cannot go on is cancelled, and the text is
\* answered in conversation.
Records(g) ==
    LET left == IF ~TurnStarted THEN ongoing
                ELSE IF Active(g) THEN Recorded(ongoing, TRUE)
                ELSE NoOngoing
    IN  Talks(left, FALSE, plan.operation, "rejected", plan.kept, FALSE)

\* execute_command's except: the game is cancelled, and the capability revoked.
Raises(g) == game' = Canceled(g) /\ able' = FALSE /\ Records(Canceled(g))

Executing(intent) ==
    /\ stage = "executing" /\ command.intent = intent /\ Validated(command)
    /\ UNCHANGED <<question, late, text, plan, command, heard>>

Rejects ==
    /\ stage = "executing" /\ ~Validated(command)
    /\ Records(game)
    /\ UNCHANGED <<game, question, late, able, turnVars, heard>>

StartsGame ==
    /\ Executing("start")
    /\ game' = Started(game) /\ stage' = "thinking"
    /\ UNCHANGED <<ongoing, able, tries, replyVars>>

\* _complete_from_state: a paused game cannot be completed.
Ends(g) ==
    IF MayBecome(g, "completed")
    THEN /\ game' = Become(g, "completed") /\ stage' = "speaking"
         /\ UNCHANGED <<ongoing, able, replyVars>>
    ELSE Raises(g)

\* submit_user_word
Moves ==
    LET w == command.with
        verdict == Verdict(game, w, "user")
    IN  /\ Executing("move")
        /\ CASE verdict = "valid" ->
                  /\ game' = Played(game, w) /\ stage' = "thinking"
                  /\ UNCHANGED <<ongoing, able, replyVars>>
             [] verdict = "ends_with_n" -> Ends(Played(game, w))
             [] OTHER -> stage' = "speaking" /\ UNCHANGED <<game, ongoing, able, replyVars>>
        /\ UNCHANGED tries

Controlled(status) ==
    IF MayBecome(game, status)
    THEN /\ game' = Become(game, status) /\ stage' = "syncing"
         /\ UNCHANGED <<ongoing, able, replyVars>>
    ELSE Raises(game)

Steers ==
    /\ Executing("control")
    /\ CASE command.with = "pause" -> Controlled("paused")
         [] command.with = "resume" -> Controlled("playing")
         [] command.with = "quit" -> Controlled("canceled")
         [] command.with = "surrender" -> Ends(Surrendered(game, "user"))
    /\ UNCHANGED tries

-----------------------------------------------------------------------------
\* generate_ai_turn: up to MaxTries answers of the language model, then a word
\* in stock, then defeat.
Thinking ==
    /\ stage = "thinking"
    /\ UNCHANGED <<question, late, text, plan, command, heard>>

Stores(g) == game' = g /\ stage' = "syncing" /\ UNCHANGED <<ongoing, able, replyVars>>

Replies(w) ==
    /\ Thinking /\ tries < MaxTries
    /\ Verdict(game, w, "ai") = "valid"
    /\ Stores(Played(game, w))
    /\ UNCHANGED tries

\* Mutant: after the last answer of no use the count begins again.
MissesForever ==
    /\ Thinking /\ tries < MaxTries
    /\ tries' = (tries + 1) % MaxTries
    /\ UNCHANGED <<game, ongoing, able, stage, replyVars>>

Misses ==
    /\ Thinking /\ tries < MaxTries
    /\ tries' = tries + 1
    /\ UNCHANGED <<game, ongoing, able, stage, replyVars>>

InStock == {w \in Fallbacks : Verdict(game, w, "ai") = "valid"}

FallsBack ==
    /\ Thinking /\ tries = MaxTries
    /\ \E w \in InStock : Stores(Played(game, w))
    /\ UNCHANGED tries

GivesUp ==
    /\ Thinking /\ tries = MaxTries /\ InStock = {}
    /\ LET lost == Surrendered(game, "ai")
       IN  IF MayBecome(lost, "completed") THEN Stores(Become(lost, "completed"))
                                           ELSE Raises(lost)
    /\ UNCHANGED tries

\* The words about a game that is over, or about a word that was refused.
Speaks ==
    /\ stage = "speaking" /\ stage' = "syncing"
    /\ UNCHANGED <<game, ongoing, able, question, late, turnVars, replyVars, heard>>

ModelFails ==
    /\ stage \in {"thinking", "speaking"}
    /\ Raises(game)
    /\ UNCHANGED <<question, late, turnVars, heard>>

-----------------------------------------------------------------------------
\* The turn as it is recorded: a new activity's first, or that of the one going on.
ThisTurn(o, g) == IF TurnStarted THEN o ELSE TurnBegun(NewOngoing(g))

\* Mutant: the activity of a finished game waits for its next input.
SynchronizedWaiting(o, g) ==
    LET recorded == Recorded(ThisTurn(o, g), TRUE)
    IN  IF g.status = "paused" THEN Paused(recorded) ELSE recorded

\* _synchronize_plugin_activity: a new activity is linked to the game; one that
\* goes on, or ends, follows the game's status.
Synchronized(o, g) ==
    LET recorded == Recorded(ThisTurn(o, g), Active(g))
    IN  CASE g.status = "playing" -> recorded
          [] g.status = "paused" -> Paused(recorded)
          [] OTHER -> NoOngoing

\* _ongoing_transition_payload
StillKept(g) == plan.kept /\ (plan.operation = "stop" => Active(g))

\* ResponseContextBuilder._ongoing_context: how the activity stands after the turn.
Stands(g) ==
    CASE g.status = "playing" -> "waiting"
      [] g.status = "paused" -> "suspended"
      [] OTHER -> g.status

\* The facts of a game: what became of the operation, and of the activity.
FactsOf(g) ==
    LET status == CASE g.status = "completed" -> "succeeded"
                    [] g.status = "canceled" -> "canceled"
                    [] OTHER -> "waiting_input"
    IN  Context(FALSE, plan.operation, status, Stands(g), StillKept(g), FALSE)

Synchronizes ==
    /\ stage = "syncing"
    /\ ongoing' = Synchronized(ongoing, game)
    /\ game' = [game EXCEPT !.linked = @ \/ (~TurnStarted /\ Active(game))]
    /\ Replying(FactsOf(game))
    /\ UNCHANGED <<question, late, able, turnVars, heard>>

-----------------------------------------------------------------------------
\* CharacterResponsePipeline.generate_with_result

Drafting ==
    /\ stage = "replying"
    /\ UNCHANGED <<game, ongoing, question, late, able, heard>>

\* ActionPlanner.plan makes an output of the speech, and the turn is over.
Utters(claims) ==
    /\ stage' = "idle" /\ said' = claims
    /\ text' = NoText /\ plan' = NoPlan /\ command' = Chat /\ tries' = 0
    /\ context' = NoContext /\ attempt' = 0

Adopts(d) == Drafting /\ Adoptable(context, d) /\ Utters(d.says)

\* It is not adoptable, or the model of the validator refuses it, or fails.
Refuses ==
    /\ Drafting /\ attempt = 0
    /\ attempt' = 1 /\ UNCHANGED <<stage, turnVars, context, said>>

\* Both drafts were refused, or a model failed, or wrote nothing that can be read.
ReplacesSafely == Drafting /\ Utters(Fallback(context))

-----------------------------------------------------------------------------
HearsNext == \E t \in Texts : Confirms(t) \/ Declines(t) \/ Revises(t) \/ Considers(t)
EvaluatesNext == Asks \/ Converses \/ Decides
InterpretsNext == \E c \in CommandsOf(plan) : Dismisses(c) \/ RollsBack(c) \/ Begins(c)
ExecutesNext == Rejects \/ StartsGame \/ Moves \/ Steers
ThinksNext == (\E w \in Words : Replies(w)) \/ Misses \/ FallsBack \/ GivesUp \/ Speaks
              \/ ModelFails

RepliesNext == (\E d \in Drafts : Adopts(d)) \/ Refuses \/ ReplacesSafely

TurnNext ==
    \/ RepliesNext
    \/ EvaluatesNext
    \/ stage = "interpreting" /\ InterpretsNext
    \/ ExecutesNext \/ ThinksNext \/ Synchronizes

Next == Expires \/ HearsNext \/ TurnNext

\* The coordinator's task is scheduled and the models answer or raise; nobody
\* is obliged to say anything, and time need not pass.
Spec == Init /\ [][Next]_vars
FairSpec == Spec /\ WF_vars(TurnNext)

-----------------------------------------------------------------------------
\* Properties

\* When a text has been dealt with, however its turn ended, there is an
\* OngoingActivity exactly if there is a game, and the two know each other: what
\* verify_context compares before the next turn is then never stale.  And the game
\* waits for the user's word: generate_ai_turn has played, given up, or raised.
GameMatchesOngoing ==
    stage = "idle" =>
        /\ Active(game) <=> ongoing # NoOngoing
        /\ Active(game) => ongoing.session = game.id /\ game.linked /\ game.turn = "user"

\* docs/llm_role_architecture.md: the validator ensures that the speech agrees with
\* the facts.  What is adopted, of drafts that say and report anything and in
\* whatever context the turn has left, never claims that a game is over which is
\* not, nor that one goes on which does not.
SpeechMatchesGame ==
    stage = "idle" =>
        /\ Active(game) => said \cap Completion = {}
        /\ ~Active(game) => said \cap {"running", "continued"} = {}

\* Whatever the models answer and the user is taken to have said, and across
\* pauses and defeats, the words played are a chain, and only the user ends a
\* game by a bad word.
ChainHolds == Chained(game) /\ FairlyPlayed(game)

\* A "yes" runs the plan that is in question, and only once: it needs a question
\* that has not expired, and closes it before the plan is validated again.
ConfirmedOnce ==
    [][stage = "idle" /\ stage' = "interpreting" =>
           /\ Asking /\ question' = NoQuestion
           /\ plan' = Confirmed(question.plan)]_vars

\* Every text is dealt with in the end: the answers of the model are limited in
\* number, and a failure ends the turn.
EveryTurnEnds == stage # "idle" ~> stage = "idle"

\* As PendingConfirmationManager puts it, a positive answer has the candidate
\* plan executed: the answer itself is no word of the game.
AnswerIsNotPlayed ==
    ~(/\ stage = "executing" /\ plan.confirmed
      /\ command = Command("move", text.says, TRUE) /\ Validated(command))
================================================================================
